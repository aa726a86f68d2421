----------------------------- MODULE MCArticleFeed -----------------------------
(* Small instances of ArticleFeed.                                             *)
EXTENDS ArticleFeed, TLC

Mode(fields) ==
    [f \in {"sequential", "rpcFails", "mqFails", "mqDies", "overlap", "deep"} |-> f \in fields]

\* One kind of trouble at a time: article-rpc fails; article-mq does; it dies; readers
\* ask for later pages of sets that expired; calls, loads and expiry meet.
SomeModes ==
    {Mode({"sequential", "rpcFails"}), Mode({"sequential", "mqFails"}),
     Mode({"sequential", "mqDies"}),
     Mode({"sequential", "deep"}), Mode({"overlap"})}

Alike == Permutations(Writer) \cup Permutations(Loader)
================================================================================

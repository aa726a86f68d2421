-------------------------------- MODULE MCPaging --------------------------------
(* Small instances of Paging.                                                  *)
EXTENDS Paging

Quiet == [list |-> "fans", size |-> 2, max |-> 5, first |-> 3, tied |-> FALSE, changes |-> FALSE,
          expiry |-> TRUE, likes |-> FALSE, faulty |-> FALSE]

\* Each list, nothing else happening but the expiry of the set; two rows of one second.
Calm == {[Quiet EXCEPT !.list = l, !.first = n] : l \in Follows \cup Articles, n \in {0, 3}}
Ties == {[Quiet EXCEPT !.list = l, !.size = 3, !.tied = TRUE] : l \in {"fans", "publish_time"}}

\* Members come and go; likes change; Redis fails.
Moving == {[Quiet EXCEPT !.list = l, !.changes = TRUE, !.expiry = l # "like_num"] : l \in {"fans"} \cup Articles}
Short == [Quiet EXCEPT !.list = "follow", !.size = 5, !.changes = TRUE]
\* More rows than a load takes.
Cut == {[Quiet EXCEPT !.list = l, !.first = 4, !.max = 3, !.changes = TRUE] : l \in {"fans", "publish_time"}}
Voting == [Quiet EXCEPT !.list = "like_num", !.likes = TRUE, !.first = 1, !.expiry = FALSE]
Failing == {[Voting EXCEPT !.faulty = TRUE], [Quiet EXCEPT !.first = 2, !.faulty = TRUE]}

AllModes == Calm \cup Ties \cup Moving \cup Cut \cup {Short, Voting} \cup Failing
=================================================================================

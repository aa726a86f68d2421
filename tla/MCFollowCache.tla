----------------------------- MODULE MCFollowCache -----------------------------
(* Small instances of FollowCache.                                             *)
EXTENDS FollowCache

CONSTANTS u1, u2, u3

Req(o, a, b) == [op |-> o, from |-> a, to |-> b]

\* One user follows two others and changes their mind about one.
TwoFollowed == {Req("follow", u1, u2), Req("unfollow", u1, u2), Req("follow", u1, u3)}

\* Nothing fails, and users wait for their answers.
Reliable == {[sequential |-> TRUE, faulty |-> FALSE]}

\* That, or everything fails and nobody waits.
Extremes == Reliable \cup {[sequential |-> FALSE, faulty |-> TRUE]}

\* The two lists the calls above share.
SharedLists == {<<"follow", u1>>, <<"fans", u2>>}
================================================================================

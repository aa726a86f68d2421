----------------------------- MODULE MCFollowGraph -----------------------------
(* Small instances of FollowGraph.                                             *)
EXTENDS FollowGraph

CONSTANTS u1, u2

Req(o, a, b) == [op |-> o, from |-> a, to |-> b]

\* Two users follow and unfollow each other; a user follows themself; an empty id.
TwoUsers == {Req("follow", u1, u2), Req("unfollow", u1, u2),
             Req("follow", u2, u1), Req("unfollow", u2, u1),
             Req("follow", u1, u1), Req("unfollow", NoUser, u2)}

AllModes == [sequential : BOOLEAN, faulty : BOOLEAN]
================================================================================

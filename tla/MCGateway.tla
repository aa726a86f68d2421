------------------------------- MODULE MCGateway -------------------------------
(* A small instance of Gateway.                                                *)
EXTENDS Gateway

CONSTANTS c1, c2

\* The first call may be anything of user 1, or without a token.
Anything == [path : DOMAIN RouteOf, user : {1}, form : {"complete"}, target : {Nobody, 1, 2}]
            \cup [path : DOMAIN RouteOf, user : {Nobody, 1}, form : Form, target : {2}]
\* The second is user 2 unfollowing user 1.
One == [path : {"/v1/user/unfollow"}, user : {2}, form : {"complete"}, target : {1}]
AllAndOne == [c \in Call |-> IF c = c1 THEN Anything ELSE One]
AllModes == [faulty : BOOLEAN]
================================================================================

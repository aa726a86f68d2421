--------------------------- MODULE MCThumbupConsumer ---------------------------
(* Small instances of ThumbupConsumer.                                         *)
EXTENDS ThumbupConsumer

CONSTANTS u1, u2, u3

Msg(i, u, t) == [id |-> i, user |-> u, type |-> t]

\* One user likes, dislikes and likes again; another likes; a message of an
\* unknown type.
ManyMessages == {Msg(1, u1, 0), Msg(2, u1, 1), Msg(3, u1, 0), Msg(4, u2, 0), Msg(5, u2, 2)}

\* A like and a dislike of one user, a like of another.
ThreeMessages == {Msg(1, u1, 0), Msg(2, u1, 1), Msg(3, u2, 0)}

\* One user changes a like into a dislike.
OneUser == {Msg(1, u1, 0), Msg(2, u1, 1)}
================================================================================

----------------------------- MODULE MCThumbupRpc -----------------------------
(* Small instances of ThumbupRpc.                                              *)
EXTENDS ThumbupRpc, TLC

\* like_type 2 is neither a like nor a dislike; like-rpc lets it through.
BadType == 2
AllTypes == LikeTypes \cup {BadType}

AllModes == [sequential : BOOLEAN, faulty : BOOLEAN]

\* Nothing fails, and users wait for their answers.
Reliable == {[sequential |-> TRUE, faulty |-> FALSE]}

\* Calls are told apart by nothing but their user and type.
Alike == Permutations(Request)
================================================================================

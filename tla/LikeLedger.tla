------------------------------ MODULE LikeLedger ------------------------------
(* What like-mq promises to leave in MySQL for one object: a user's vote is    *)
(* recorded and the two columns of like_count are the numbers of likes and     *)
(* dislikes on record, in one step - until a row is left in the cache that     *)
(* could not be deleted from it.                                               *)
EXTENDS Deltalike

CONSTANT User

VARIABLES record, counts, stale

Init ==
    /\ record = [u \in User |-> NoVote]
    /\ counts = NoCounts
    /\ stale = FALSE

\* A message of Kafka takes effect; one that repeats the vote changes nothing.
Vote(u, likeType) ==
    /\ record' = [record EXCEPT ![u] = likeType]
    /\ counts' = CountsOf(record')
    /\ UNCHANGED stale

\* An old row stays in the cache: later votes may go by it, and nothing is promised of
\* record and counts any more.
LeaveStale == stale' = TRUE

Next == LeaveStale \/ \E u \in User, likeType \in LikeTypes : Vote(u, likeType)

Spec == Init /\ [][Next]_<<record, counts, stale>>
================================================================================

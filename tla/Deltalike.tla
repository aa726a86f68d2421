------------------------------- MODULE Deltalike -------------------------------
(* pkg/deltalike: the arithmetic shared by like-rpc (which answers with the    *)
(* counts it expects) and like-mq (which writes them).  A vote is a like_type  *)
(* or NoVote when like_record has no row for the user; the counts of an object *)
(* are the pair of like_count columns.  int64 is modelled by Int: a count is   *)
(* bounded by the number of users, far from 2^63.                              *)
EXTENDS Integers, FiniteSets

LikeTypeThumbup == 0
LikeTypeThumbdown == 1
LikeTypes == {LikeTypeThumbup, LikeTypeThumbdown}

\* No row in like_record (model.ErrNotFound).
NoVote == -1
Votes == LikeTypes \cup {NoVote}

CalcInsertDelta(likeType) ==
    IF likeType = LikeTypeThumbup
    THEN [like |-> 1, dislike |-> 0]
    ELSE [like |-> 0, dislike |-> 1]

\* Bug: changing a like into a dislike leaves the like counted.
CalcSwitchDelta_KeepsLike(fromType, toType) ==
    IF fromType = toType
    THEN [like |-> 0, dislike |-> 0]
    ELSE IF fromType = LikeTypeThumbup /\ toType = LikeTypeThumbdown
         THEN [like |-> 0, dislike |-> 1]
         ELSE [like |-> 1, dislike |-> -1]

\* Any pair that is neither equal nor (up, down) takes the final return.
CalcSwitchDelta(fromType, toType) ==
    IF fromType = toType
    THEN [like |-> 0, dislike |-> 0]
    ELSE IF fromType = LikeTypeThumbup /\ toType = LikeTypeThumbdown
         THEN [like |-> -1, dislike |-> 1]
         ELSE [like |-> 1, dislike |-> -1]

MaxInt64(a, b) == IF a > b THEN a ELSE b

\* The delta of moving a user's vote, as both services choose it: an insert
\* when no record was found, a switch otherwise.
VoteDelta(old, new) ==
    IF old = NoVote THEN CalcInsertDelta(new) ELSE CalcSwitchDelta(old, new)

\* Counts after a delta, each column clamped at zero.
Shift(counts, delta) ==
    [like    |-> MaxInt64(counts.like + delta.like, 0),
     dislike |-> MaxInt64(counts.dislike + delta.dislike, 0)]

NoCounts == [like |-> 0, dislike |-> 0]

--------------------------------------------------------------------------------
\* The reference the deltas are judged by: count the records.
Voters(record, likeType) == {u \in DOMAIN record : record[u] = likeType}

CountsOf(record) ==
    [like    |-> Cardinality(Voters(record, LikeTypeThumbup)),
     dislike |-> Cardinality(Voters(record, LikeTypeThumbdown))]
================================================================================

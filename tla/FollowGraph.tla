------------------------------ MODULE FollowGraph ------------------------------
(* follow-rpc, Follow and UnFollow, up to the end of the MySQL transaction:    *)
(* concurrent calls read the pair's row outside any transaction, then write    *)
(* the row and both users' counters in one.  Each statement takes a row lock   *)
(* that is held to the end of the transaction (InnoDB), and the writes become  *)
(* visible together when it commits.  What a committed call does to the Redis  *)
(* lists is the subject of FollowCache.                                        *)
EXTENDS Integers, FiniteSets

CONSTANTS
    User,        \* users, by a non-zero id
    NoUser,      \* the id 0 of a request that leaves a field out
    Call,        \* the Follow and UnFollow calls of a behaviour
    Ask,         \* the requests clients send
    Modes        \* what the surroundings of a behaviour may be like:
                 \* sequential - a user waits for an answer before calling again,
                 \* faulty - statements and commits fail, processes die

Pair == User \X User
Request == [op : {"follow", "unfollow"},
            from : User \cup {NoUser}, to : User \cup {NoUser}]

ASSUME UserAssumption == IsFiniteSet(User) /\ NoUser \notin User
ASSUME AskAssumption == Ask \subseteq Request
ASSUME ModeAssumption == Modes \subseteq [sequential : BOOLEAN, faulty : BOOLEAN]

VARIABLES
    mode,     \* of the behaviour, fixed
    call,     \* the request of each call, fixed
    pc,       \* where each call is: the statement it executes next
    seen,     \* follow_status as the call's lookup returned it
    status,   \* table follow: the committed follow_status of each pair
    follows,  \* table follow_count: the committed follow_count of each user
    fans,     \* and the committed fans_count
    stale     \* history: pairs updated by a call whose lookup was out of date

vars == <<mode, call, pc, seen, status, follows, fans, stale>>
tables == <<status, follows, fans>>

\* FollowStatusFollow, FollowStatusUnfollow, and no row.
Statuses == {"none", "follow", "unfollow"}

From(c) == call[c].from
To(c) == call[c].to
PairOf(c) == <<From(c), To(c)>>

Transaction == {"row", "follows", "fans", "commit"}
Running == {"lookup"} \cup Transaction
Phases == {"idle"} \cup Running \cup {"committed", "ok", "err", "crashed"}

\* The locks a call has taken: the pair's row of "follow", then the two users'
\* rows of "follow_count" (one row per user holds both counters).
Held(c) ==
    (IF pc[c] \in {"follows", "fans", "commit"} THEN {<<From(c), To(c)>>} ELSE {})
    \cup (IF pc[c] \in {"fans", "commit"} THEN {<<From(c)>>} ELSE {})
    \cup (IF pc[c] = "commit" THEN {<<To(c)>>} ELSE {})

Free(c, row) == \A d \in Call \ {c} : row \notin Held(d)

Wanted(c) ==
    CASE pc[c] = "row"     -> <<From(c), To(c)>>
      [] pc[c] = "follows" -> <<From(c)>>
      [] OTHER             -> <<To(c)>>

Blocked(c) == pc[c] \in {"row", "follows", "fans"} /\ ~Free(c, Wanted(c))

Init ==
    /\ mode \in Modes
    /\ call \in [Call -> Ask]
    /\ pc = [c \in Call |-> "idle"]
    /\ seen = [c \in Call |-> "none"]
    /\ status = [p \in Pair |-> "none"]
    /\ follows = [u \in User |-> 0]
    /\ fans = [u \in User |-> 0]
    /\ stale = {}

Goto(c, phase) == pc' = [pc EXCEPT ![c] = phase]
Fixed == UNCHANGED <<mode, call>>

--------------------------------------------------------------------------------
\* Bugs this code could have; each breaks one property below.

\* A follow does not look at the status it found.
Satisfied_Never(c, found) == call[c].op = "unfollow" /\ found # "follow"

\* The insert becomes an upsert: no duplicate-key error stops a racing follow.
WriteRow_Upserts(c) ==
    /\ pc[c] = "row"
    /\ Free(c, PairOf(c))
    /\ Goto(c, "follows")
    /\ Fixed /\ UNCHANGED <<tables, seen, stale>>

--------------------------------------------------------------------------------
\* INSERT .. ON DUPLICATE KEY UPDATE n = n + 1.
Incr(n) == n + 1

\* Bug: the decrement has no lower bound.
Decr_Unbounded(n) == n - 1

\* UPDATE .. SET n = n - 1 WHERE .. AND n > 0.
Decr(n) == IF n > 0 THEN n - 1 ELSE n

\* Requests turned away before any state is read: an empty id, or a user who
\* follows themself (UnFollow has no such check).
Rejected(c) ==
    \/ NoUser \in {From(c), To(c)}
    \/ call[c].op = "follow" /\ From(c) = To(c)

Begin(c) ==
    /\ pc[c] = "idle"
    /\ mode.sequential => \A d \in Call : From(d) = From(c) => pc[d] \notin Running
    /\ Goto(c, IF Rejected(c) THEN "err" ELSE "lookup")
    /\ Fixed /\ UNCHANGED <<tables, seen, stale>>

\* Nothing is left to do: already followed; never followed or unfollowed since.
Satisfied(c, found) ==
    IF call[c].op = "follow" THEN found = "follow" ELSE found # "follow"

\* FindByUserIDAndFollowedUserID, a plain read of the committed row.
Lookup(c) ==
    /\ pc[c] = "lookup"
    /\ \/ LET found == status[PairOf(c)] IN
          /\ seen' = [seen EXCEPT ![c] = found]
          /\ Goto(c, IF Satisfied(c, found) THEN "ok" ELSE "row")
       \/ mode.faulty /\ Goto(c, "err") /\ UNCHANGED seen
    /\ Fixed /\ UNCHANGED <<tables, stale>>

\* First statement: UPDATE by id when the lookup found a row, INSERT otherwise.
\* The unique key (user_id, followed_user_id) fails an INSERT that comes second;
\* it waits for the first to commit or roll back.
WriteRow(c) ==
    /\ pc[c] = "row"
    /\ Free(c, PairOf(c))
    /\ Goto(c, IF seen[c] = "none" /\ status[PairOf(c)] # "none"
               THEN "err" ELSE "follows")
    /\ Fixed /\ UNCHANGED <<tables, seen, stale>>

\* Second and third statements: follow_count of the caller, fans_count of the
\* other user, each an increment or decrement done by the database.
WriteFollows(c) ==
    /\ pc[c] = "follows"
    /\ Free(c, <<From(c)>>)
    /\ Goto(c, "fans")
    /\ Fixed /\ UNCHANGED <<tables, seen, stale>>

WriteFans(c) ==
    /\ pc[c] = "fans"
    /\ Free(c, <<To(c)>>)
    /\ Goto(c, "commit")
    /\ Fixed /\ UNCHANGED <<tables, seen, stale>>

\* The transaction commits: its three writes become visible at once.  The reply
\* of COMMIT may be lost, and the call then answers with an error.
Commit(c) ==
    LET p == PairOf(c)
        follow == call[c].op = "follow" IN
    /\ pc[c] = "commit"
    /\ status' = [status EXCEPT ![p] = IF follow THEN "follow" ELSE "unfollow"]
    /\ follows' = [follows EXCEPT ![From(c)] = IF follow THEN Incr(@) ELSE Decr(@)]
    /\ fans' = [fans EXCEPT ![To(c)] = IF follow THEN Incr(@) ELSE Decr(@)]
    /\ stale' = IF seen[c] # "none" /\ status[p] # seen[c]
                THEN stale \cup {p} ELSE stale
    /\ Goto(c, "committed") \/ (mode.faulty /\ Goto(c, "err"))
    /\ Fixed /\ UNCHANGED seen

\* A statement fails and gorm rolls back.  Without any failure InnoDB ends a
\* transaction that waits for a lock: as a deadlock victim or by its timeout.
Abort(c) ==
    /\ pc[c] \in Transaction
    /\ mode.faulty \/ Blocked(c)
    /\ Goto(c, "err")
    /\ Fixed /\ UNCHANGED <<tables, seen, stale>>

\* The process dies; MySQL rolls its transaction back.
Crash(c) ==
    /\ mode.faulty
    /\ pc[c] \in Running
    /\ Goto(c, "crashed")
    /\ Fixed /\ UNCHANGED <<tables, seen, stale>>

Serve(c) == \/ Lookup(c)
            \/ WriteRow(c) \/ WriteFollows(c) \/ WriteFans(c)
            \/ Commit(c) \/ Abort(c)

Next == \E c \in Call : Begin(c) \/ Serve(c) \/ Crash(c)

Spec == Init /\ [][Next]_vars

--------------------------------------------------------------------------------
TypeOK ==
    /\ mode \in Modes
    /\ call \in [Call -> Ask]
    /\ pc \in [Call -> Phases]
    /\ seen \in [Call -> Statuses]
    /\ status \in [Pair -> Statuses]
    /\ follows \in [User -> Nat]
    /\ fans \in [User -> Nat]
    /\ stale \subseteq Pair

Followed(u) == {v \in User : status[<<u, v>>] = "follow"}
Fans(u) == {v \in User : status[<<v, u>>] = "follow"}

\* The counters equal the rows they count, except those of users with a pair
\* that was updated on an out-of-date lookup: first follows cannot race (the
\* unique key fails the second), and failures and aborts leave no trace.
CountsMatchUnlessStale ==
    \A u \in User :
        /\ (\A v \in User : <<u, v>> \notin stale) => follows[u] = Cardinality(Followed(u))
        /\ (\A v \in User : <<v, u>> \notin stale) => fans[u] = Cardinality(Fans(u))

\* For users who call one at a time follow_count and fans_count say what their
\* columns are documented to say, whatever the other users do and whatever fails.
\* A user with several calls under way breaks it: two follows of a once unfollowed
\* user are both counted.
CountsMatch ==
    mode.sequential =>
        \A u \in User :
            /\ follows[u] = Cardinality(Followed(u))
            /\ fans[u] = Cardinality(Fans(u))
================================================================================

------------------------------- MODULE FollowProofs -------------------------------
(* Proofs about follow-rpc, for any users, calls and loaders: the counters     *)
(* equal the rows except where a row was updated on an out-of-date lookup, for *)
(* users who call one at a time they always do, and what the two Redis lists   *)
(* of a user promise their readers.                                            *)
EXTENDS FollowCache, FiniteSetTheorems, TLAPS

USE UserAssumption, AskAssumption, ModeAssumption

\* Requests with an empty id never get to work.
Named == \A c \in Call : pc[c] \in Running => From(c) \in User /\ To(c) \in User

\* No step leaves the types, nor lets a request with an empty id through.
LEMMA TypeStep == TypeOK /\ Named /\ [Next]_vars => TypeOK' /\ Named'
<1> SUFFICES ASSUME TypeOK, Named, [Next]_vars PROVE TypeOK' /\ Named'
  OBVIOUS
<1> USE DEF TypeOK, Named, Phases, Running, Transaction, Goto, Fixed, tables,
            From, To, PairOf, Pair, Statuses
<1>1. ASSUME NEW c \in Call, Begin(c) PROVE TypeOK' /\ Named'
  BY <1>1 DEF Begin, Rejected, Request
<1>2. ASSUME NEW c \in Call, Lookup(c) PROVE TypeOK' /\ Named'
  <2>1. status[PairOf(c)] \in Statuses
    BY <1>2 DEF Lookup
  <2>2. seen' \in [Call -> Statuses] /\ pc' \in [Call -> Phases]
    BY <1>2, <2>1 DEF Lookup
  <2>3. Named'
    BY <1>2 DEF Lookup
  <2> QED
    BY <1>2, <2>2, <2>3 DEF Lookup
<1>3. ASSUME NEW c \in Call, WriteRow(c) PROVE TypeOK' /\ Named'
  BY <1>3 DEF WriteRow
<1>4. ASSUME NEW c \in Call, WriteFollows(c) PROVE TypeOK' /\ Named'
  BY <1>4 DEF WriteFollows
<1>5. ASSUME NEW c \in Call, WriteFans(c) PROVE TypeOK' /\ Named'
  BY <1>5 DEF WriteFans
<1>6. ASSUME NEW c \in Call, Commit(c) PROVE TypeOK' /\ Named'
  <2>1. From(c) \in User /\ To(c) \in User /\ PairOf(c) \in Pair
    BY <1>6 DEF Commit
  <2>2. /\ follows' \in [User -> Nat]
        /\ fans' \in [User -> Nat]
    BY <1>6, <2>1 DEF Commit, Incr, Decr
  <2>3. status' \in [Pair -> Statuses]
    BY <1>6, <2>1 DEF Commit
  <2>4. stale' \subseteq Pair
    BY <1>6, <2>1 DEF Commit
  <2>5. pc' \in [Call -> Phases] /\ Named'
    BY <1>6 DEF Commit
  <2> QED
    BY <1>6, <2>2, <2>3, <2>4, <2>5 DEF Commit
<1>7. ASSUME NEW c \in Call, Abort(c) PROVE TypeOK' /\ Named'
  BY <1>7 DEF Abort
<1>8. ASSUME NEW c \in Call, Crash(c) PROVE TypeOK' /\ Named'
  BY <1>8 DEF Crash
<1>9. CASE UNCHANGED vars
  BY <1>9 DEF vars
<1> QED
  BY <1>1, <1>2, <1>3, <1>4, <1>5, <1>6, <1>7, <1>8, <1>9 DEF Next, Serve

LEMMA TypeInit == Init => TypeOK /\ Named
<1> SUFFICES ASSUME Init PROVE TypeOK /\ Named
  OBVIOUS
<1>1. TypeOK
  BY DEF Init, TypeOK, Phases, Statuses
<1>2. Named
  BY DEF Init, Named, Running, Transaction
<1> QED
  BY <1>1, <1>2

\* Types: TypeOK holds in every reachable state.
THEOREM TypeCorrect == Spec => []TypeOK
<1> QED
  BY TypeInit, TypeStep, PTL DEF Spec

--------------------------------------------------------------------------------
\* The row lock: one transaction at a time has written a pair's row.
Writing == {"follows", "fans", "commit"}

RowLocked ==
    \A c, d \in Call :
        pc[c] \in Writing /\ pc[d] \in Writing /\ PairOf(c) = PairOf(d) => c = d

\* The unique key: while an insert is under way the pair has no other row.
InsertFresh ==
    \A c \in Call : pc[c] \in Writing /\ seen[c] = "none" => status[PairOf(c)] = "none"

\* A transaction runs only for a call that has something to change.
Needed == \A c \in Call : pc[c] \in Transaction => ~Satisfied(c, seen[c])

Control == RowLocked /\ InsertFresh /\ Needed

LEMMA ControlInit == Init => Control
BY DEF Init, Control, RowLocked, InsertFresh, Needed, Writing, Transaction

LEMMA ControlStep == TypeOK /\ Named /\ Control /\ [Next]_vars => Control'
<1> SUFFICES ASSUME TypeOK, Named, Control, [Next]_vars PROVE Control'
  OBVIOUS
<1> USE DEF TypeOK, Control, RowLocked, InsertFresh, Needed, Writing, Phases,
            Running, Transaction, Goto, Fixed, tables, From, To, PairOf
<1>1. ASSUME NEW c \in Call, Begin(c) PROVE Control'
  BY <1>1 DEF Begin, Satisfied
<1>2. ASSUME NEW c \in Call, Lookup(c) PROVE Control'
  BY <1>2 DEF Lookup, Satisfied
<1>3. ASSUME NEW c \in Call, WriteRow(c) PROVE Control'
  <2>1. ASSUME NEW d \in Call, pc[d] \in Writing, PairOf(d) = PairOf(c), d # c
        PROVE  FALSE
    BY <1>3, <2>1 DEF WriteRow, Free, Held
  <2>2. RowLocked'
    BY <1>3, <2>1 DEF WriteRow
  <2>3. InsertFresh' /\ Needed'
    BY <1>3 DEF WriteRow, Satisfied
  <2> QED
    BY <2>2, <2>3
<1>4. ASSUME NEW c \in Call, WriteFollows(c) PROVE Control'
  BY <1>4 DEF WriteFollows, Satisfied
<1>5. ASSUME NEW c \in Call, WriteFans(c) PROVE Control'
  BY <1>5 DEF WriteFans, Satisfied
<1>6. ASSUME NEW c \in Call, Commit(c) PROVE Control'
  <2>1. RowLocked' /\ Needed'
    BY <1>6 DEF Commit, Satisfied
  <2>2. ASSUME NEW d \in Call, pc'[d] \in Writing, seen[d] = "none"
        PROVE  status'[PairOf(d)] = "none"
    <3>1. d # c /\ pc[d] \in Writing
      BY <1>6, <2>2 DEF Commit
    <3>2. PairOf(d) # PairOf(c)
      BY <1>6, <3>1 DEF Commit
    <3>3. PairOf(d) \in Pair
      BY <3>1 DEF Named, Pair
    <3> QED
      BY <1>6, <2>2, <3>1, <3>2, <3>3 DEF Commit
  <2>3. InsertFresh'
    BY <1>6, <2>2 DEF Commit
  <2> QED
    BY <2>1, <2>3
<1>7. ASSUME NEW c \in Call, Abort(c) PROVE Control'
  BY <1>7 DEF Abort, Satisfied
<1>8. ASSUME NEW c \in Call, Crash(c) PROVE Control'
  BY <1>8 DEF Crash, Satisfied
<1>9. CASE UNCHANGED vars
  BY <1>9 DEF vars, Satisfied
<1> QED
  BY <1>1, <1>2, <1>3, <1>4, <1>5, <1>6, <1>7, <1>8, <1>9 DEF Next, Serve

--------------------------------------------------------------------------------
\* Counting after one member joins or leaves, as the database counts.
LEMMA CountJoin ==
    ASSUME NEW S, IsFiniteSet(S), NEW x, x \notin S
    PROVE  Cardinality(S \cup {x}) = Incr(Cardinality(S))
BY FS_AddElement DEF Incr

LEMMA CountLeave ==
    ASSUME NEW S, IsFiniteSet(S), NEW x \in S
    PROVE  Cardinality(S \ {x}) = Decr(Cardinality(S))
<1>1. Cardinality(S \ {x}) = Cardinality(S) - 1
  BY FS_RemoveElement
<1>2. Cardinality(S) \in Nat /\ Cardinality(S) # 0
  BY FS_CardinalityType, FS_EmptySet
<1> QED
  BY <1>1, <1>2 DEF Decr

LEMMA ListsFinite ==
    ASSUME NEW u PROVE IsFiniteSet(Followed(u)) /\ IsFiniteSet(Fans(u))
<1>1. Followed(u) \subseteq User /\ Fans(u) \subseteq User
  BY DEF Followed, Fans
<1> QED
  BY <1>1, FS_Subset

\* The committed tables do not move without a commit.
LEMMA CountsKept ==
    ASSUME CountsMatchUnlessStale, UNCHANGED <<tables, stale>>
    PROVE  CountsMatchUnlessStale'
BY DEF CountsMatchUnlessStale, tables, Followed, Fans

\* A commit on an up-to-date row moves each counter as it moves its list; a
\* commit on another row marks the pair.
LEMMA CommitCounts ==
    ASSUME TypeOK, Named, Control, CountsMatchUnlessStale,
           NEW c \in Call, Commit(c)
    PROVE  CountsMatchUnlessStale'
<1> DEFINE follow == call[c].op = "follow"
<1>0. PICK u \in User, v \in User : u = From(c) /\ v = To(c)
  BY DEF Commit, Named, Running, Transaction
<1>1. u = From(c) /\ v = To(c) /\ PairOf(c) = <<u, v>> /\ <<u, v>> \in Pair
  BY <1>0 DEF PairOf, Pair
<1>2. /\ status'[<<u, v>>] = IF follow THEN "follow" ELSE "unfollow"
      /\ \A p \in Pair : p # <<u, v>> => status'[p] = status[p]
  BY <1>1 DEF Commit, TypeOK
<1>3. /\ follows'[u] = IF follow THEN Incr(follows[u]) ELSE Decr(follows[u])
      /\ \A w \in User : w # u => follows'[w] = follows[w]
      /\ fans'[v] = IF follow THEN Incr(fans[v]) ELSE Decr(fans[v])
      /\ \A w \in User : w # v => fans'[w] = fans[w]
  BY <1>1 DEF Commit, TypeOK
<1>4. stale \subseteq stale' /\ (status[<<u, v>>] # seen[c] => <<u, v>> \in stale')
  <2>1. seen[c] = "none" => status[<<u, v>>] = "none"
    BY <1>1 DEF Control, InsertFresh, Commit, Writing
  <2> QED
    BY <1>1, <2>1 DEF Commit
<1>5. status[<<u, v>>] = seen[c] => (follow <=> status[<<u, v>>] # "follow")
  <2>1. call[c].op \in {"follow", "unfollow"}
    BY DEF TypeOK, Request
  <2>2. ~Satisfied(c, seen[c])
    BY DEF Control, Needed, Commit, Transaction
  <2> QED
    BY <2>1, <2>2 DEF Satisfied
<1>6. ASSUME NEW w \in User, \A x \in User : <<w, x>> \notin stale'
      PROVE  follows'[w] = Cardinality(Followed(w)')
  <2>1. follows[w] = Cardinality(Followed(w))
    BY <1>4, <1>6 DEF CountsMatchUnlessStale
  <2>2. CASE w # u
    <3>1. Followed(w)' = Followed(w)
      BY <1>2, <2>2 DEF Followed, Pair
    <3> QED
      BY <1>3, <2>1, <2>2, <3>1
  <2>3. CASE w = u
    <3>1. status[<<u, v>>] = seen[c]
      BY <1>1, <1>4, <1>6, <2>3
    <3>2. CASE follow
      <4>1. v \notin Followed(u) /\ Followed(u)' = Followed(u) \cup {v}
        BY <1>1, <1>2, <1>5, <3>1, <3>2 DEF Followed, Pair
      <4> QED
        BY <1>3, <2>1, <2>3, <3>2, <4>1, CountJoin, ListsFinite
    <3>3. CASE ~follow
      <4>1. v \in Followed(u) /\ Followed(u)' = Followed(u) \ {v}
        BY <1>1, <1>2, <1>5, <3>1, <3>3 DEF Followed, Pair
      <4> QED
        BY <1>3, <2>1, <2>3, <3>3, <4>1, CountLeave, ListsFinite
    <3> QED
      BY <3>2, <3>3
  <2> QED
    BY <2>2, <2>3
<1>7. ASSUME NEW w \in User, \A x \in User : <<x, w>> \notin stale'
      PROVE  fans'[w] = Cardinality(Fans(w)')
  <2>1. fans[w] = Cardinality(Fans(w))
    BY <1>4, <1>7 DEF CountsMatchUnlessStale
  <2>2. CASE w # v
    <3>1. Fans(w)' = Fans(w)
      BY <1>2, <2>2 DEF Fans, Pair
    <3> QED
      BY <1>3, <2>1, <2>2, <3>1
  <2>3. CASE w = v
    <3>1. status[<<u, v>>] = seen[c]
      BY <1>1, <1>4, <1>7, <2>3
    <3>2. CASE follow
      <4>1. u \notin Fans(v) /\ Fans(v)' = Fans(v) \cup {u}
        BY <1>1, <1>2, <1>5, <3>1, <3>2 DEF Fans, Pair
      <4> QED
        BY <1>3, <2>1, <2>3, <3>2, <4>1, CountJoin, ListsFinite
    <3>3. CASE ~follow
      <4>1. u \in Fans(v) /\ Fans(v)' = Fans(v) \ {u}
        BY <1>1, <1>2, <1>5, <3>1, <3>3 DEF Fans, Pair
      <4> QED
        BY <1>3, <2>1, <2>3, <3>3, <4>1, CountLeave, ListsFinite
    <3> QED
      BY <3>2, <3>3
  <2> QED
    BY <2>2, <2>3
<1> QED
  BY <1>6, <1>7 DEF CountsMatchUnlessStale

LEMMA CountsStep ==
    TypeOK /\ Named /\ Control /\ CountsMatchUnlessStale /\ [Next]_vars
        => CountsMatchUnlessStale'
<1> SUFFICES ASSUME TypeOK, Named, Control, CountsMatchUnlessStale, [Next]_vars
             PROVE  CountsMatchUnlessStale'
  OBVIOUS
<1>1. CASE \E c \in Call : Commit(c)
  BY <1>1, CommitCounts
<1>2. CASE UNCHANGED <<tables, stale>>
  BY <1>2, CountsKept
<1> QED
  BY <1>1, <1>2 DEF Next, Serve, Begin, Lookup, WriteRow, WriteFollows, WriteFans,
     Abort, Crash, vars, tables

LEMMA CountsInit == Init => CountsMatchUnlessStale
<1> SUFFICES ASSUME Init PROVE CountsMatchUnlessStale
  OBVIOUS
<1>1. \A u \in User : Followed(u) = {} /\ Fans(u) = {}
  BY DEF Init, Followed, Fans, Pair
<1> QED
  BY <1>1, FS_EmptySet DEF Init, CountsMatchUnlessStale

\* Counters: follow_count and fans_count equal the rows they count for every user
\* none of whose pairs was updated on an out-of-date lookup.
THEOREM CountsHold == Spec => []CountsMatchUnlessStale
BY TypeInit, TypeStep, ControlInit, ControlStep, CountsInit, CountsStep, PTL DEF Spec

--------------------------------------------------------------------------------
\* In a sequential mode a user has one call at work, and its lookup stays true.
OneAtWork ==
    mode.sequential =>
        /\ \A c, d \in Call :
              pc[c] \in Running /\ pc[d] \in Running /\ From(c) = From(d) => c = d
        /\ \A c \in Call : pc[c] \in Transaction => status[PairOf(c)] = seen[c]
        /\ stale = {}

LEMMA OneAtWorkStep ==
    TypeOK /\ Named /\ OneAtWork /\ [Next]_vars => OneAtWork'
<1> SUFFICES ASSUME TypeOK, Named, OneAtWork, [Next]_vars PROVE OneAtWork'
  OBVIOUS
<1>0. mode' = mode
  BY DEF Next, Serve, Begin, Lookup, WriteRow, WriteFollows, WriteFans, Commit,
     Abort, Crash, Fixed, vars
<1> SUFFICES ASSUME mode.sequential PROVE OneAtWork'
  BY <1>0 DEF OneAtWork
<1> USE DEF TypeOK, Phases, Running, Transaction, Goto, Fixed, tables, From, To, PairOf
<1>1. ASSUME NEW c \in Call, Begin(c) PROVE OneAtWork'
  BY <1>1 DEF Begin, OneAtWork
<1>2. ASSUME NEW c \in Call, Lookup(c) PROVE OneAtWork'
  BY <1>2 DEF Lookup, OneAtWork
<1>3. ASSUME NEW c \in Call, WriteRow(c) \/ WriteFollows(c) \/ WriteFans(c)
      PROVE  OneAtWork'
  BY <1>3 DEF WriteRow, WriteFollows, WriteFans, OneAtWork
<1>4. ASSUME NEW c \in Call, Commit(c) PROVE OneAtWork'
  <2>1. /\ \A x, y \in Call : pc'[x] \in Running /\ pc'[y] \in Running
                              /\ From(x)' = From(y)' => x = y
    BY <1>4 DEF Commit, OneAtWork
  <2>2. stale' = {}
    BY <1>4 DEF Commit, OneAtWork
  <2>3. ASSUME NEW d \in Call, pc'[d] \in Transaction
        PROVE  status'[PairOf(d)'] = seen'[d]
    <3>1. d # c /\ pc[d] \in Transaction
      BY <1>4, <2>3 DEF Commit
    <3>2. From(d) # From(c)
      BY <1>4, <3>1 DEF Commit, OneAtWork
    <3>3. PairOf(d) \in Pair /\ PairOf(d) # PairOf(c)
      BY <3>1, <3>2 DEF Named, Pair
    <3> QED
      BY <1>4, <3>1, <3>3 DEF Commit, OneAtWork
  <2> QED
    BY <2>1, <2>2, <2>3 DEF OneAtWork
<1>5. ASSUME NEW c \in Call, Abort(c) \/ Crash(c) PROVE OneAtWork'
  BY <1>5 DEF Abort, Crash, OneAtWork
<1>6. CASE UNCHANGED vars
  BY <1>6 DEF vars, OneAtWork
<1> QED
  BY <1>1, <1>2, <1>3, <1>4, <1>5, <1>6 DEF Next, Serve

\* For users who call one at a time the counters always equal the rows, whatever
\* other users do, whichever statements fail and processes die.
THEOREM SequentialCountsHold == Spec => []CountsMatch
<1>1. Init => OneAtWork
  BY DEF Init, OneAtWork, Running, Transaction
<1>2. OneAtWork /\ CountsMatchUnlessStale => CountsMatch
  BY DEF OneAtWork, CountsMatchUnlessStale, CountsMatch
<1> QED
  BY <1>1, <1>2, TypeInit, TypeStep, OneAtWorkStep, CountsHold, PTL DEF Spec

--------------------------------------------------------------------------------
(* The Redis lists (FollowCache).                                              *)

USE LoadAssumption, EndAssumption, CacheMaxAssumption

\* The row in MySQL that member v of list k stands for.
RowOf(k, v) == IF k[1] = "follow" THEN <<k[2], v>> ELSE <<v, k[2]>>

Active(c) == pc[c] \in Running \/ Caching(c)

\* Requests with an empty id never commit, and a call's cache updates start
\* with its commit.
CallsPlaced ==
    \A c \in Call :
        /\ pc[c] = "committed" => From(c) \in User /\ To(c) \in User
        /\ pc[c] # "committed" => at[c] = [list |-> "follow", step |-> "check"]

\* What a listing may come from: a committed call, a list read from MySQL.
RowsBehind ==
    /\ \A c \in Call : pc[c] = "committed" => status[PairOf(c)] # "none"
    /\ \A l \in Loader : Loading(l) =>
         \A v \in load[l].todo \ {End} : status[RowOf(load[l].key, v)] # "none"

\* A user who calls one at a time has one call at work, cache updates included.
OneActive ==
    mode.sequential => \A c, d \in Call : Active(c) /\ Active(d) /\ From(c) = From(d) => c = d

Calm == mode.sequential /\ ~mode.faulty /\ ~overlap

\* The call has committed and has yet to bring the list up to date.
Pending(c, list) ==
    /\ Caching(c)
    /\ \/ at[c].list = list /\ at[c].step \in {"check", "add"}
       \/ at[c].list = "follow" /\ list = "fans"

\* Only a pending call keeps a list and the rows apart, and only for its member.
Explained(k, v) ==
    /\ v \in zset[k] /\ v \notin Rows(k) =>
         \E c \in Call : Pending(c, k[1]) /\ PairOf(c) = RowOf(k, v) /\ call[c].op = "unfollow"
    /\ End \in zset[k] /\ v \in Rows(k) /\ v \notin zset[k] =>
         \E c \in Call : Pending(c, k[1]) /\ PairOf(c) = RowOf(k, v) /\ call[c].op = "follow"

\* A loader works alone on its key, and on what is still in MySQL; it closes the
\* list after everything else it adds.
LoaderAgrees(l) ==
    LET k == load[l].key IN
    /\ Touching(k) = {}
    /\ load[l].todo \ {End} \subseteq Rows(k)
    /\ End \in load[l].todo => Rows(k) \subseteq zset[k] \cup load[l].todo

LoadsAgree == \A l \in Loader : Loading(l) => LoaderAgrees(l)

CallsAgree ==
    \A c \in Call : Caching(c) =>
        /\ status[PairOf(c)] = IF call[c].op = "follow" THEN "follow" ELSE "unfollow"
        /\ call[c].op # "follow" => at[c].step = "check"

ListsAgree == \A k \in Key, v \in User : Explained(k, v)

Calmness == Calm => CallsAgree /\ ListsAgree /\ LoadsAgree

--------------------------------------------------------------------------------
\* The rows and counters are FollowGraph's, whatever happens to the lists.
LEMMA GraphStep == [NextCache]_allVars => [Next]_vars
<1> SUFFICES ASSUME [NextCache]_allVars PROVE [Next]_vars
  OBVIOUS
<1>1. CASE \E c \in Call : BeginCall(c) \/ ServeCall(c)
  BY <1>1 DEF BeginCall, ServeCall, Next
<1>2. CASE \E c \in Call : UpdateCache(c) \/ LoseCall(c)
  BY <1>2 DEF UpdateCache, CheckKey, AddMember, Trim, RemoveMember, LoseCall
<1>3. CASE \E l \in Loader : ServeList(l)
  BY <1>3 DEF ServeList, Miss, ReadRows, Fill, SetExpiry
<1>4. CASE \E k \in Key : Hit(k) \/ ExpireSet(k)
  BY <1>4 DEF Hit, ExpireSet
<1>5. CASE UNCHANGED allVars
  BY <1>5 DEF allVars
<1> QED
  BY <1>1, <1>2, <1>3, <1>4, <1>5, LoadAssumption DEF NextCache

\* A step is one of FollowGraph's, which leaves the lists alone, or one of the
\* lists', which leaves the rows alone.
LEMMA StepKinds ==
    ASSUME [NextCache]_allVars
    PROVE  \/ (\E c \in Call : BeginCall(c) \/ ServeCall(c)) /\ UNCHANGED cacheVars
           \/ UNCHANGED vars /\ overlap' = overlap
BY DEF NextCache, BeginCall, ServeCall, UpdateCache, CheckKey, AddMember, Trim,
       RemoveMember, LoseCall, ServeList, Miss, ReadRows, Fill, SetExpiry, Hit, ExpireSet,
       allVars, cacheVars

--------------------------------------------------------------------------------
(* Types of the lists.                                                         *)

ListTypes ==
    /\ overlap \in BOOLEAN
    /\ at \in [Call -> [list : {"follow", "fans"}, step : Steps]]
    /\ zset \in [Key -> SUBSET (User \cup {End})]
    /\ ttl \in [Key -> BOOLEAN]
    /\ \A k \in Key : ttl[k] => zset[k] # {}
    /\ load \in [Loader -> {Unused, Done} \cup
                            [key : Loads, todo : SUBSET (User \cup {End}),
                             step : {"read", "fill", "expire"}]]

Placed == TypeOK /\ Named /\ ListTypes /\ CallsPlaced

\* The lists of a committed call, and the member it puts in or takes out.
LEMMA CallLists ==
    ASSUME Placed, NEW c \in Call, pc[c] = "committed" \/ Active(c),
           NEW list \in {"follow", "fans"}
    PROVE  /\ From(c) \in User /\ To(c) \in User
           /\ KeyOf(c, list) \in Key /\ KeyOf(c, list)[1] = list
           /\ MemberOf(c, list) \in User
           /\ RowOf(KeyOf(c, list), MemberOf(c, list)) = PairOf(c)
           /\ PairOf(c) \in Pair
<1>1. From(c) \in User /\ To(c) \in User
  BY DEF Placed, CallsPlaced, Named, Active, Caching
<1> QED
  BY <1>1 DEF KeyOf, Key, MemberOf, RowOf, PairOf, Pair

\* The trim leaves some of the members, and drops the closing one if it drops any.
LEMMA KeptMembers ==
    ASSUME NEW S, NEW members \in Kept(S)
    PROVE  /\ members \subseteq S
           /\ S # {} => members # {}
           /\ members = S \/ End \notin members
<1>1. CASE Cardinality(S) <= CacheMax
  BY <1>1 DEF Kept
<1>2. CASE ~ Cardinality(S) <= CacheMax
  <2>1. members \in SUBSET (S \ {End}) /\ Cardinality(members) = CacheMax
    BY <1>2 DEF Kept, kSubset
  <2>2. CacheMax # 0
    OBVIOUS
  <2>3. members # {}
    BY <2>1, <2>2, FS_EmptySet
  <2> QED
    BY <2>1, <2>3
<1> QED
  BY <1>1, <1>2

\* What a loader adds: rows of MySQL, and the closing member only with all of them.
LEMMA PageMembers ==
    ASSUME NEW S \in SUBSET User, NEW page \in Page(S)
    PROVE  /\ page \subseteq S \cup {End}
           /\ End \in page => page = S \cup {End}
<1>1. CASE S = {}
  BY <1>1 DEF Page
<1>2. CASE S # {} /\ Cardinality(S) < CacheMax
  BY <1>2 DEF Page
<1>3. CASE S # {} /\ ~ Cardinality(S) < CacheMax
  BY <1>3 DEF Page, kSubset
<1> QED
  BY <1>1, <1>2, <1>3

\* The state of a loader at work, and of its key.
LEMMA LoaderTyped ==
    ASSUME ListTypes, NEW l \in Loader, Loading(l)
    PROVE  load[l].key \in Loads /\ load[l].key \in Key
           /\ load[l].todo \in SUBSET (User \cup {End})
           /\ load[l].step \in {"read", "fill", "expire"}
<1>1. load[l] # Unused /\ load[l] # Done
  BY DEF Loading, Unused, Done
<1> QED
  BY <1>1, LoadAssumption DEF ListTypes

LEMMA LoadMoves ==
    ASSUME ListTypes, NEW l \in Loader, Loading(l),
           NEW step \in {"read", "fill", "expire"}, NEW todo \in SUBSET (User \cup {End}),
           Load(l, step, todo)
    PROVE  /\ load' = [load EXCEPT ![l] = [key |-> load[l].key, step |-> step, todo |-> todo]]
           /\ load' \in [Loader -> {Unused, Done} \cup
                            [key : Loads, todo : SUBSET (User \cup {End}),
                             step : {"read", "fill", "expire"}]]
<1>1. load' = [load EXCEPT ![l] = [key |-> load[l].key, step |-> step, todo |-> todo]]
  BY DEF Load, ListTypes
<1>2. [key |-> load[l].key, step |-> step, todo |-> todo] \in
        [key : Loads, todo : SUBSET (User \cup {End}), step : {"read", "fill", "expire"}]
  BY LoaderTyped
<1> QED
  BY <1>1, <1>2 DEF ListTypes

LEMMA OverMoves ==
    ASSUME ListTypes, NEW l \in Loader, Over(l)
    PROVE  /\ load' = [load EXCEPT ![l] = Done]
           /\ load' \in [Loader -> {Unused, Done} \cup
                            [key : Loads, todo : SUBSET (User \cup {End}),
                             step : {"read", "fill", "expire"}]]
BY DEF Over, ListTypes

\* A set gains or loses members, and its TTL goes with its last member.
LEMMA PutTyped ==
    ASSUME ListTypes, NEW k \in Key, NEW members \in SUBSET (User \cup {End}), Put(k, members)
    PROVE  /\ zset' \in [Key -> SUBSET (User \cup {End})]
           /\ zset'[k] = members /\ \A j \in Key : j # k => zset'[j] = zset[j]
BY DEF ListTypes, Put

LEMMA CallStepTyped ==
    ASSUME Placed, NEW c \in Call, UpdateCache(c) \/ LoseCall(c)
    PROVE  ListTypes' /\ CallsPlaced'
<1>1. /\ pc[c] = "committed" /\ pc' = pc /\ call' = call
      /\ overlap' = overlap /\ load' = load
  BY DEF UpdateCache, CheckKey, AddMember, Trim, RemoveMember, LoseCall, Turn, Caching, vars
<1>2. ASSUME NEW step \in Steps, NEW list \in {"follow", "fans"}, At(c, list, step)
      PROVE  at' \in [Call -> [list : {"follow", "fans"}, step : Steps]] /\ CallsPlaced'
  <2>1. at' \in [Call -> [list : {"follow", "fans"}, step : Steps]]
    BY <1>2 DEF At, Placed, ListTypes
  <2>2. CallsPlaced'
    BY <1>1, <1>2 DEF At, Placed, ListTypes, CallsPlaced, From, To
  <2> QED
    BY <2>1, <2>2
<1>3. ASSUME NEW list \in {"follow", "fans"}, Advance(c, list)
      PROVE  at' \in [Call -> [list : {"follow", "fans"}, step : Steps]] /\ CallsPlaced'
  BY <1>2, <1>3 DEF Advance, Steps
<1>4. ASSUME LoseCall(c) PROVE ListTypes' /\ CallsPlaced'
  <2>1. at[c].list \in {"follow", "fans"}
    BY DEF Placed, ListTypes
  <2> QED
    BY <1>1, <1>2, <1>4, <2>1 DEF LoseCall, Steps, Placed, ListTypes, cache
<1>5. ASSUME NEW list \in {"follow", "fans"}, CheckKey(c, list)
      PROVE  ListTypes' /\ CallsPlaced'
  <2>1. at' \in [Call -> [list : {"follow", "fans"}, step : Steps]] /\ CallsPlaced'
    BY <1>2, <1>3, <1>5 DEF CheckKey, Steps
  <2> QED
    BY <1>1, <1>5, <2>1 DEF CheckKey, Placed, ListTypes, cache
<1>6. ASSUME NEW list \in {"follow", "fans"}, AddMember(c, list)
      PROVE  ListTypes' /\ CallsPlaced'
  <2> DEFINE k == KeyOf(c, list)
             members == zset[k] \cup {MemberOf(c, list)}
  <2>1. k \in Key /\ members \in SUBSET (User \cup {End}) /\ members # {}
    BY <1>1, CallLists DEF Placed, ListTypes
  <2>2. Put(k, members) /\ ttl' = ttl /\ At(c, list, "trim")
    BY <1>6 DEF AddMember
  <2> HIDE DEF k, members
  <2>3. /\ zset' \in [Key -> SUBSET (User \cup {End})]
        /\ zset'[k] = members /\ \A j \in Key : j # k => zset'[j] = zset[j]
    BY <2>1, <2>2, PutTyped DEF Placed
  <2>4. at' \in [Call -> [list : {"follow", "fans"}, step : Steps]] /\ CallsPlaced'
    BY <1>2, <2>2 DEF Steps
  <2>5. \A j \in Key : ttl'[j] => zset'[j] # {}
    BY <2>1, <2>2, <2>3 DEF Placed, ListTypes
  <2> QED
    BY <1>1, <2>2, <2>3, <2>4, <2>5 DEF Placed, ListTypes
<1>7. ASSUME NEW list \in {"follow", "fans"}, Trim(c, list)
      PROVE  ListTypes' /\ CallsPlaced'
  <2> DEFINE k == KeyOf(c, list)
  <2>1. k \in Key
    BY <1>1, CallLists
  <2>2. at' \in [Call -> [list : {"follow", "fans"}, step : Steps]] /\ CallsPlaced'
    BY <1>3, <1>7 DEF Trim
  <2>3. ttl' = ttl
    BY <1>7 DEF Trim
  <2>4. CASE UNCHANGED zset
    BY <1>1, <2>2, <2>3, <2>4 DEF Placed, ListTypes
  <2>5. ASSUME NEW members \in Kept(zset[k]), Put(k, members)
        PROVE  ListTypes' /\ CallsPlaced'
    <3>1. members \in SUBSET (User \cup {End}) /\ (zset[k] # {} => members # {})
      BY <2>1, KeptMembers DEF Placed, ListTypes
    <3> HIDE DEF k
    <3>2. /\ zset' \in [Key -> SUBSET (User \cup {End})]
          /\ zset'[k] = members /\ \A j \in Key : j # k => zset'[j] = zset[j]
      BY <2>1, <2>5, <3>1, PutTyped DEF Placed
    <3>3. \A j \in Key : ttl'[j] => zset'[j] # {}
      BY <2>1, <2>3, <3>1, <3>2 DEF Placed, ListTypes
    <3> QED
      BY <1>1, <2>2, <2>3, <3>2, <3>3 DEF Placed, ListTypes
  <2> QED
    BY <1>7, <2>4, <2>5 DEF Trim
<1>8. ASSUME NEW list \in {"follow", "fans"}, RemoveMember(c, list)
      PROVE  ListTypes' /\ CallsPlaced'
  <2> DEFINE k == KeyOf(c, list)
             members == zset[k] \ {MemberOf(c, list)}
  <2>1. k \in Key /\ members \in SUBSET (User \cup {End})
    BY <1>1, CallLists DEF Placed, ListTypes
  <2>2. Put(k, members) /\ ttl' = [ttl EXCEPT ![k] = ttl[k] /\ zset'[k] # {}] /\ Advance(c, list)
    BY <1>8 DEF RemoveMember
  <2> HIDE DEF k, members
  <2>3. /\ zset' \in [Key -> SUBSET (User \cup {End})]
        /\ zset'[k] = members /\ \A j \in Key : j # k => zset'[j] = zset[j]
    BY <2>1, <2>2, PutTyped DEF Placed
  <2>4. at' \in [Call -> [list : {"follow", "fans"}, step : Steps]] /\ CallsPlaced'
    BY <1>3, <2>2
  <2>5. ttl' \in [Key -> BOOLEAN]
    BY <2>1, <2>2 DEF Placed, ListTypes
  <2>6. \A j \in Key : ttl'[j] => zset'[j] # {}
    BY <2>1, <2>2, <2>3 DEF Placed, ListTypes
  <2> QED
    BY <1>1, <2>3, <2>4, <2>5, <2>6 DEF Placed, ListTypes
<1> QED
  BY <1>4, <1>5, <1>6, <1>7, <1>8 DEF UpdateCache

LEMMA LoadStepTyped ==
    ASSUME Placed, NEW l \in Loader, ServeList(l)
    PROVE  ListTypes' /\ CallsPlaced'
<1> USE DEF cache
<1>0. pc' = pc /\ call' = call /\ at' = at /\ overlap' = overlap
  BY DEF ServeList, Miss, ReadRows, Fill, SetExpiry, vars
<1>1. CallsPlaced'
  BY <1>0 DEF Placed, CallsPlaced, From, To
<1>2. ASSUME NEW k \in Loads, Miss(l, k) PROVE ListTypes'
  <2>1. [key |-> k, step |-> "read", todo |-> {}] \in
          [key : Loads, todo : SUBSET (User \cup {End}), step : {"read", "fill", "expire"}]
    OBVIOUS
  <2>2. load' = [load EXCEPT ![l] = [key |-> k, step |-> "read", todo |-> {}]]
        /\ (ttl' = [ttl EXCEPT ![k] = zset[k] # {}] \/ ttl' = ttl) /\ zset' = zset
    BY <1>2 DEF Miss
  <2>3. load' \in [Loader -> {Unused, Done} \cup
                      [key : Loads, todo : SUBSET (User \cup {End}),
                       step : {"read", "fill", "expire"}]]
    BY <2>1, <2>2 DEF Placed, ListTypes
  <2>4. ttl' \in [Key -> BOOLEAN]
    BY <2>2 DEF Placed, ListTypes
  <2>5. \A j \in Key : ttl'[j] => zset'[j] # {}
    BY <2>2, LoadAssumption DEF Placed, ListTypes
  <2> QED
    BY <1>0, <2>2, <2>3, <2>4, <2>5 DEF Placed, ListTypes
<1>3. ASSUME ReadRows(l) PROVE ListTypes'
  <2>1. Loading(l) /\ zset' = zset /\ ttl' = ttl
    BY <1>3 DEF ReadRows, Loading
  <2>2. CASE Over(l)
    BY <1>0, <2>1, <2>2, OverMoves DEF Placed, ListTypes
  <2>3. ASSUME NEW page \in Page(Rows(load[l].key)), Load(l, "fill", page) PROVE ListTypes'
    <3>1. Rows(load[l].key) \in SUBSET User
      BY DEF Rows, Followed, Fans
    <3>2. page \in SUBSET (User \cup {End})
      BY <3>1, PageMembers
    <3> QED
      BY <1>0, <2>1, <2>3, <3>2, LoadMoves DEF Placed, ListTypes
  <2> QED
    BY <1>3, <2>2, <2>3 DEF ReadRows
<1>4. ASSUME Fill(l) PROVE ListTypes'
  <2>1. Loading(l) /\ ttl' = ttl
    BY <1>4 DEF Fill, Loading
  <2>2. CASE Over(l) /\ UNCHANGED zset
    BY <1>0, <2>1, <2>2, OverMoves DEF Placed, ListTypes
  <2>3. ASSUME NEW m \in load[l].todo, Put(load[l].key, zset[load[l].key] \cup {m}),
               Load(l, IF load[l].todo = {m} THEN "expire" ELSE "fill", load[l].todo \ {m})
        PROVE  ListTypes'
    <3> DEFINE k == load[l].key
    <3>1. k \in Key /\ m \in User \cup {End} /\ load[l].todo \ {m} \in SUBSET (User \cup {End})
      BY <2>1, LoaderTyped DEF Placed
    <3>2. zset[k] \cup {m} \in SUBSET (User \cup {End}) /\ Put(k, zset[k] \cup {m})
      BY <2>3, <3>1 DEF Placed, ListTypes
    <3>3. load' \in [Loader -> {Unused, Done} \cup
                        [key : Loads, todo : SUBSET (User \cup {End}),
                         step : {"read", "fill", "expire"}]]
      BY <2>1, <2>3, <3>1, LoadMoves DEF Placed
    <3> HIDE DEF k
    <3>4. /\ zset' \in [Key -> SUBSET (User \cup {End})]
          /\ zset'[k] = zset[k] \cup {m} /\ \A j \in Key : j # k => zset'[j] = zset[j]
      BY <3>1, <3>2, PutTyped DEF Placed
    <3>5. \A j \in Key : ttl'[j] => zset'[j] # {}
      BY <2>1, <3>4 DEF Placed, ListTypes
    <3> QED
      BY <1>0, <2>1, <3>3, <3>4, <3>5 DEF Placed, ListTypes
  <2> QED
    BY <1>4, <2>2, <2>3 DEF Fill
<1>5. ASSUME SetExpiry(l) PROVE ListTypes'
  <2> DEFINE k == load[l].key
  <2>1. Loading(l) /\ zset' = zset /\ Over(l)
        /\ (ttl' = [ttl EXCEPT ![k] = zset[k] # {}] \/ ttl' = ttl)
    BY <1>5 DEF SetExpiry, Loading
  <2>2. k \in Key
    BY <2>1, LoaderTyped DEF Placed
  <2> HIDE DEF k
  <2>3. ttl' \in [Key -> BOOLEAN] /\ \A j \in Key : ttl'[j] => zset'[j] # {}
    BY <2>1, <2>2 DEF Placed, ListTypes
  <2> QED
    BY <1>0, <2>1, <2>3, OverMoves DEF Placed, ListTypes
<1> QED
  BY <1>1, <1>2, <1>3, <1>4, <1>5 DEF ServeList

LEMMA PlacedInit == InitCache => Placed
<1> SUFFICES ASSUME InitCache PROVE Placed
  OBVIOUS
<1>1. TypeOK /\ Named
  BY TypeInit DEF InitCache
<1>2. ListTypes
  BY DEF InitCache, ListTypes, Steps, Unused
<1>3. CallsPlaced
  BY DEF InitCache, Init, CallsPlaced
<1> QED
  BY <1>1, <1>2, <1>3 DEF Placed

LEMMA PlacedStep == Placed /\ [NextCache]_allVars => Placed'
<1> SUFFICES ASSUME Placed, [NextCache]_allVars PROVE Placed'
  OBVIOUS
<1>0. TypeOK' /\ Named'
  BY GraphStep, TypeStep DEF Placed
<1>1. ASSUME NEW c \in Call, BeginCall(c) \/ ServeCall(c) PROVE ListTypes' /\ CallsPlaced'
  <2>1. UNCHANGED cacheVars
    BY <1>1 DEF BeginCall, ServeCall
  <2>2. ListTypes'
    BY <2>1 DEF cacheVars, Placed, ListTypes
  <2>3. call' = call
    BY <1>1 DEF BeginCall, ServeCall, Begin, Serve, Lookup, WriteRow, WriteFollows, WriteFans,
                Commit, Abort, Crash, Fixed
  <2>4. \E phase \in Phases :
          /\ pc' = [pc EXCEPT ![c] = phase]
          /\ pc[c] # "committed" /\ (phase = "committed" => pc[c] \in Running)
    BY <1>1 DEF BeginCall, ServeCall, Begin, Serve, Lookup, WriteRow, WriteFollows, WriteFans,
                Commit, Abort, Crash, Goto, Phases, Running, Transaction
  <2>5. ASSUME NEW d \in Call
        PROVE  /\ pc'[d] = "committed" => From(d)' \in User /\ To(d)' \in User
               /\ pc'[d] # "committed" => at'[d] = [list |-> "follow", step |-> "check"]
    <3>1. PICK phase \in Phases :
            /\ pc' = [pc EXCEPT ![c] = phase]
            /\ pc[c] # "committed" /\ (phase = "committed" => pc[c] \in Running)
      BY <2>4
    <3>2. From(d)' = From(d) /\ To(d)' = To(d) /\ at'[d] = at[d]
      BY <2>1, <2>3 DEF cacheVars, From, To
    <3>3. CASE d = c
      BY <3>1, <3>2, <3>3 DEF Placed, TypeOK, Named, CallsPlaced
    <3>4. CASE d # c
      BY <3>1, <3>2, <3>4 DEF Placed, TypeOK, CallsPlaced
    <3> QED
      BY <3>3, <3>4
  <2> QED
    BY <2>2, <2>5 DEF CallsPlaced
<1>2. ASSUME NEW c \in Call, UpdateCache(c) \/ LoseCall(c) PROVE ListTypes' /\ CallsPlaced'
  BY <1>2, CallStepTyped
<1>3. ASSUME NEW l \in Loader, ServeList(l) PROVE ListTypes' /\ CallsPlaced'
  BY <1>3, LoadStepTyped
<1>4. ASSUME NEW k \in Key, Hit(k) \/ ExpireSet(k) PROVE ListTypes' /\ CallsPlaced'
  <2>1. pc' = pc /\ call' = call /\ UNCHANGED <<overlap, at, load>>
    BY <1>4 DEF Hit, ExpireSet, vars
  <2>2. CASE Hit(k)
    BY <2>1, <2>2 DEF Hit, Placed, ListTypes, CallsPlaced, From, To
  <2>3. CASE ExpireSet(k)
    BY <2>1, <2>3 DEF ExpireSet, Put, Placed, ListTypes, CallsPlaced, From, To
  <2> QED
    BY <1>4, <2>2, <2>3
<1>5. ASSUME UNCHANGED allVars PROVE ListTypes' /\ CallsPlaced'
  <2>1. UNCHANGED vars /\ UNCHANGED cacheVars
    BY <1>5 DEF allVars
  <2>2. pc' = pc /\ call' = call
    BY <2>1 DEF vars
  <2>3. UNCHANGED <<overlap, at, zset, ttl, load>>
    BY <2>1 DEF cacheVars
  <2>4. ListTypes'
    BY <2>3 DEF Placed, ListTypes
  <2>5. CallsPlaced'
    BY <2>2, <2>3 DEF Placed, CallsPlaced, From, To
  <2> QED
    BY <2>4, <2>5
<1>6. ListTypes' /\ CallsPlaced'
  <2>1. CASE \E c \in Call : BeginCall(c) \/ ServeCall(c) \/ UpdateCache(c) \/ LoseCall(c)
    BY <1>1, <1>2, <2>1
  <2>2. CASE \E l \in Loader : ServeList(l)
    BY <1>3, <2>2
  <2>3. CASE \E k \in Loads : Hit(k)
    BY <1>4, <2>3, LoadAssumption
  <2>4. CASE \E k \in Key : ExpireSet(k)
    BY <1>4, <2>4
  <2> QED
    BY <1>5, <2>1, <2>2, <2>3, <2>4 DEF NextCache
<1> QED
  BY <1>0, <1>6 DEF Placed

LEMMA PlacedHolds == SpecCache => []Placed
BY PlacedInit, PlacedStep, PTL DEF SpecCache

\* The types of the rows, the lists and their loaders, and a key with a TTL has
\* members.
THEOREM TypeCorrectCache == SpecCache => []TypeOKCache
<1>1. Placed => TypeOKCache
  BY DEF Placed, ListTypes, TypeOKCache
<1> QED
  BY <1>1, PlacedHolds, PTL

\* The lists beside them change nothing about the rows and the counters.
THEOREM CacheKeepsGraph == SpecCache => Spec
<1>1. InitCache => Init
  BY DEF InitCache
<1> QED
  BY <1>1, GraphStep, PTL DEF SpecCache, Spec

--------------------------------------------------------------------------------
(* Where listed users come from.                                               *)

\* What a step of a call on the rows changes besides its place.
LEMMA ServeMoves ==
    ASSUME Placed, NEW c \in Call, BeginCall(c) \/ ServeCall(c)
    PROVE  /\ mode' = mode /\ call' = call /\ UNCHANGED cacheVars
           /\ pc[c] # "committed"
           /\ \A d \in Call : d # c => pc'[d] = pc[d]
           /\ Commit(c) \/ (status' = status /\ pc'[c] # "committed")
<1>1. mode' = mode /\ call' = call /\ UNCHANGED cacheVars /\ pc[c] # "committed"
  BY DEF BeginCall, ServeCall, Begin, Serve, Lookup, WriteRow, WriteFollows, WriteFans,
         Commit, Abort, Crash, Fixed, Running, Transaction
<1>2. \A d \in Call : d # c => pc'[d] = pc[d]
  BY DEF BeginCall, ServeCall, Begin, Serve, Lookup, WriteRow, WriteFollows, WriteFans,
         Commit, Abort, Crash, Goto, Placed, TypeOK
<1>3. Commit(c) \/ (status' = status /\ pc'[c] # "committed")
  BY DEF BeginCall, ServeCall, Begin, Serve, Lookup, WriteRow, WriteFollows, WriteFans,
         Abort, Crash, Goto, tables, Placed, TypeOK
<1> QED
  BY <1>1, <1>2, <1>3

LEMMA CommitMoves ==
    ASSUME Placed, NEW c \in Call, Commit(c)
    PROVE  /\ From(c) \in User /\ To(c) \in User /\ PairOf(c) \in Pair
           /\ pc[c] \in Running
           /\ status'[PairOf(c)] = IF call[c].op = "follow" THEN "follow" ELSE "unfollow"
           /\ \A p \in Pair : p # PairOf(c) => status'[p] = status[p]
<1>1. pc[c] \in Running
  BY DEF Commit, Running, Transaction
<1>2. From(c) \in User /\ To(c) \in User
  BY <1>1 DEF Placed, Named
<1>3. PairOf(c) \in Pair
  BY <1>2 DEF PairOf, Pair
<1> QED
  BY <1>1, <1>2, <1>3 DEF Commit, Placed, TypeOK

\* A row, once there, stays; its status changes.
LEMMA RowsStay ==
    ASSUME Placed, [NextCache]_allVars, NEW p \in Pair, status[p] # "none"
    PROVE  status'[p] # "none"
<1>1. ASSUME NEW c \in Call, BeginCall(c) \/ ServeCall(c) PROVE status'[p] # "none"
  BY <1>1, ServeMoves, CommitMoves
<1> QED
  BY <1>1, StepKinds DEF vars

LEMMA RowPair ==
    ASSUME NEW k \in Key, NEW v \in User PROVE RowOf(k, v) \in Pair
BY DEF RowOf, Key, Pair

\* Every listed user has a row, in terms of RowOf.
Listed == \A k \in Key : \A v \in zset[k] \ {End} : status[RowOf(k, v)] # "none"

LEMMA ListedIs == ListedHasRow <=> Listed
BY DEF ListedHasRow, Listed, RowOf

\* What a call adds to its lists: at most its member of each.
LEMMA CallAdds ==
    ASSUME Placed, NEW c \in Call, UpdateCache(c) \/ LoseCall(c)
    PROVE  /\ pc[c] = "committed" /\ pc' = pc /\ call' = call /\ status' = status
           /\ mode' = mode /\ overlap' = overlap /\ load' = load
           /\ \A k \in Key : \A v \in zset'[k] :
                v \in zset[k] \/ \E list \in {"follow", "fans"} :
                                   k = KeyOf(c, list) /\ v = MemberOf(c, list)
<1>1. /\ pc[c] = "committed" /\ pc' = pc /\ call' = call /\ status' = status
      /\ mode' = mode /\ overlap' = overlap /\ load' = load
  BY DEF UpdateCache, CheckKey, AddMember, Trim, RemoveMember, LoseCall, Turn, Caching, vars
<1>2. CASE UNCHANGED zset
  BY <1>1, <1>2
<1>3. ASSUME NEW list \in {"follow", "fans"}, NEW members,
             members \subseteq zset[KeyOf(c, list)] \cup {MemberOf(c, list)},
             Put(KeyOf(c, list), members)
      PROVE  \A k \in Key : \A v \in zset'[k] :
                v \in zset[k] \/ (k = KeyOf(c, list) /\ v = MemberOf(c, list))
  BY <1>3 DEF Put, Placed, ListTypes
<1>4. ASSUME NEW list \in {"follow", "fans"}, NEW members \in Kept(zset[KeyOf(c, list)])
      PROVE  members \subseteq zset[KeyOf(c, list)] \cup {MemberOf(c, list)}
  BY KeptMembers
<1>5. CASE \E list \in {"follow", "fans"} : AddMember(c, list)
  BY <1>1, <1>3, <1>5 DEF AddMember
<1>6. CASE \E list \in {"follow", "fans"} : Trim(c, list)
  BY <1>1, <1>2, <1>3, <1>4, <1>6 DEF Trim
<1>7. CASE \E list \in {"follow", "fans"} : RemoveMember(c, list)
  BY <1>1, <1>3, <1>7 DEF RemoveMember
<1> QED
  BY <1>2, <1>5, <1>6, <1>7 DEF UpdateCache, CheckKey, LoseCall, cache

\* What a loader's step changes: it begins, reads its rows, adds one member, ends.
Begins(l) ==
    /\ zset' = zset
    /\ \E k \in Loads : Miss(l, k) /\ load'[l] = [key |-> k, step |-> "read", todo |-> {}]

Reads(l) ==
    /\ Loading(l) /\ zset' = zset
    /\ \E page \in Page(Rows(load[l].key)) :
         load'[l] = [key |-> load[l].key, step |-> "fill", todo |-> page]

Adds(l) ==
    /\ Loading(l)
    /\ \E m \in load[l].todo :
         /\ m = End => load[l].todo = {End}
         /\ zset'[load[l].key] = zset[load[l].key] \cup {m}
         /\ \A j \in Key : j # load[l].key => zset'[j] = zset[j]
         /\ load'[l].key = load[l].key /\ load'[l].todo = load[l].todo \ {m}

Ends(l) == zset' = zset /\ load'[l] = Done

LEMMA LoaderMoves ==
    ASSUME Placed, NEW l \in Loader, ServeList(l)
    PROVE  /\ pc' = pc /\ call' = call /\ status' = status /\ mode' = mode
           /\ overlap' = overlap /\ at' = at
           /\ \A i \in Loader : i # l => load'[i] = load[i]
           /\ Begins(l) \/ Reads(l) \/ Adds(l) \/ Ends(l)
<1>1. /\ pc' = pc /\ call' = call /\ status' = status /\ mode' = mode
      /\ overlap' = overlap /\ at' = at
  BY DEF ServeList, Miss, ReadRows, Fill, SetExpiry, vars
<1>2. ASSUME NEW k \in Loads, Miss(l, k)
      PROVE  Begins(l) /\ \A i \in Loader : i # l => load'[i] = load[i]
  BY <1>2 DEF Miss, Begins, Placed, ListTypes
<1>3. ASSUME Over(l), UNCHANGED zset
      PROVE  Ends(l) /\ \A i \in Loader : i # l => load'[i] = load[i]
  BY <1>3 DEF Over, Ends, Placed, ListTypes
<1>4. ASSUME NEW step, NEW todo, Load(l, step, todo)
      PROVE  /\ load'[l] = [key |-> load[l].key, step |-> step, todo |-> todo]
             /\ \A i \in Loader : i # l => load'[i] = load[i]
  BY <1>4 DEF Load, Placed, ListTypes
<1>5. ASSUME ReadRows(l)
      PROVE  (Reads(l) \/ Ends(l))
             /\ \A i \in Loader : i # l => load'[i] = load[i]
  <2>1. Loading(l) /\ zset' = zset
    BY <1>5 DEF ReadRows, Loading, cache
  <2>2. CASE Over(l)
    BY <1>3, <2>1, <2>2
  <2>3. CASE \E page \in Page(Rows(load[l].key)) : Load(l, "fill", page)
    BY <1>4, <2>1, <2>3 DEF Reads
  <2> QED
    BY <1>5, <2>2, <2>3 DEF ReadRows
<1>6. ASSUME Fill(l)
      PROVE  (Adds(l) \/ Ends(l)) /\ \A i \in Loader : i # l => load'[i] = load[i]
  <2>1. Loading(l)
    BY <1>6 DEF Fill, Loading
  <2>2. CASE Over(l) /\ UNCHANGED zset
    BY <1>3, <2>2
  <2>3. ASSUME NEW m \in load[l].todo, m = End => load[l].todo = {End},
               Put(load[l].key, zset[load[l].key] \cup {m}),
               Load(l, IF load[l].todo = {m} THEN "expire" ELSE "fill", load[l].todo \ {m})
        PROVE  Adds(l) /\ \A i \in Loader : i # l => load'[i] = load[i]
    <3>1. load[l].key \in Key /\ m \in User \cup {End}
      BY <2>1, LoaderTyped DEF Placed
    <3>2. zset[load[l].key] \cup {m} \in SUBSET (User \cup {End})
      BY <3>1 DEF Placed, ListTypes
    <3>3. /\ zset'[load[l].key] = zset[load[l].key] \cup {m}
          /\ \A j \in Key : j # load[l].key => zset'[j] = zset[j]
      BY <2>3, <3>1, <3>2, PutTyped DEF Placed
    <3>4. load'[l].key = load[l].key /\ load'[l].todo = load[l].todo \ {m}
          /\ \A i \in Loader : i # l => load'[i] = load[i]
      <4>1. PICK step : Load(l, step, load[l].todo \ {m})
        BY <2>3
      <4>2. load'[l] = [key |-> load[l].key, step |-> step, todo |-> load[l].todo \ {m}]
            /\ \A i \in Loader : i # l => load'[i] = load[i]
        BY <1>4, <4>1
      <4> QED
        BY <4>2
    <3> QED
      <4>1. m \in load[l].todo /\ (m = End => load[l].todo = {End})
        BY <2>3
      <4>2. Adds(l)
        BY <2>1, <3>3, <3>4, <4>1 DEF Adds
      <4> QED
        BY <3>4, <4>2
  <2> QED
    BY <1>6, <2>2, <2>3 DEF Fill
<1>7. ASSUME SetExpiry(l)
      PROVE  Ends(l) /\ \A i \in Loader : i # l => load'[i] = load[i]
  BY <1>3, <1>7 DEF SetExpiry
<1>8. (Begins(l) \/ Reads(l) \/ Adds(l) \/ Ends(l))
      /\ \A i \in Loader : i # l => load'[i] = load[i]
  BY <1>2, <1>5, <1>6, <1>7 DEF ServeList
<1> QED
  BY <1>1, <1>8

\* Members come from committed calls and from rows, and rows stay.
LEMMA ListedStep ==
    Placed /\ RowsBehind /\ Listed /\ [NextCache]_allVars => RowsBehind' /\ Listed'
<1> SUFFICES ASSUME Placed, RowsBehind, Listed, [NextCache]_allVars
             PROVE  RowsBehind' /\ Listed'
  OBVIOUS
<1>0. \A p \in Pair : status[p] # "none" => status'[p] # "none"
  BY RowsStay
<1>1. ASSUME NEW c \in Call, BeginCall(c) \/ ServeCall(c) PROVE RowsBehind' /\ Listed'
  <2>1. /\ UNCHANGED <<call, zset, load>>
        /\ \A d \in Call : d # c => pc'[d] = pc[d]
        /\ Commit(c) \/ pc'[c] # "committed"
    BY <1>1, ServeMoves DEF cacheVars
  <2>2. ASSUME NEW d \in Call, pc'[d] = "committed" PROVE status'[PairOf(d)] # "none"
    <3>1. CASE d = c
      BY <2>1, <2>2, <3>1, CommitMoves
    <3>2. CASE d # c
      BY <1>0, <2>1, <2>2, <3>2, CallLists DEF RowsBehind
    <3> QED
      BY <3>1, <3>2
  <2>3. \A d \in Call : PairOf(d)' = PairOf(d)
    BY <2>1 DEF PairOf, From, To
  <2>4. Listed'
    BY <1>0, <2>1, RowPair DEF Listed, Placed, ListTypes
  <2>5. ASSUME NEW l \in Loader, Loading(l)', NEW v \in load'[l].todo \ {End}
        PROVE  status'[RowOf(load'[l].key, v)] # "none"
    <3>1. Loading(l) /\ load'[l] = load[l]
      BY <2>1, <2>5 DEF Loading
    <3>2. load[l].key \in Key /\ v \in User
      BY <2>5, <3>1, LoaderTyped DEF Placed
    <3> QED
      BY <1>0, <2>5, <3>1, <3>2, RowPair DEF RowsBehind
  <2> QED
    BY <2>2, <2>3, <2>4, <2>5 DEF RowsBehind
<1>2. ASSUME NEW c \in Call, UpdateCache(c) \/ LoseCall(c) PROVE RowsBehind' /\ Listed'
  <2>1. /\ pc[c] = "committed" /\ pc' = pc /\ call' = call /\ status' = status /\ load' = load
        /\ \A k \in Key : \A v \in zset'[k] :
             v \in zset[k] \/ \E list \in {"follow", "fans"} :
                                k = KeyOf(c, list) /\ v = MemberOf(c, list)
    BY <1>2, CallAdds
  <2>2. RowsBehind'
    BY <2>1 DEF RowsBehind, Loading, PairOf, From, To
  <2>3. status[PairOf(c)] # "none"
    BY <2>1 DEF RowsBehind
  <2>4. \A list \in {"follow", "fans"} : RowOf(KeyOf(c, list), MemberOf(c, list)) = PairOf(c)
    BY <2>1, CallLists
  <2> QED
    BY <2>1, <2>2, <2>3, <2>4 DEF Listed
<1>3. ASSUME NEW l \in Loader, ServeList(l) PROVE RowsBehind' /\ Listed'
  <2>1. /\ pc' = pc /\ call' = call /\ status' = status
        /\ \A i \in Loader : i # l => load'[i] = load[i]
        /\ Begins(l) \/ Reads(l) \/ Adds(l) \/ Ends(l)
    BY <1>3, LoaderMoves
  <2>2. \A c \in Call : pc'[c] = "committed" => status'[PairOf(c)'] # "none"
    BY <2>1 DEF RowsBehind, PairOf, From, To
  <2>3. \A i \in Loader : i # l /\ Loading(i)' =>
          \A v \in load'[i].todo \ {End} : status'[RowOf(load'[i].key, v)] # "none"
    BY <2>1 DEF RowsBehind, Loading
  <2>4. CASE Begins(l)
    <3>1. load'[l].todo = {} /\ zset' = zset
      BY <2>4 DEF Begins
    <3> QED
      BY <2>1, <2>2, <2>3, <3>1 DEF RowsBehind, Listed
  <2>5. CASE Reads(l)
    <3>1. PICK page \in Page(Rows(load[l].key)) :
            load'[l] = [key |-> load[l].key, step |-> "fill", todo |-> page]
      BY <2>5 DEF Reads
    <3>2. zset' = zset /\ load[l].key \in Key
      BY <2>5, LoaderTyped DEF Reads, Placed
    <3>3. Rows(load[l].key) \subseteq User
          /\ \A v \in Rows(load[l].key) : status[RowOf(load[l].key, v)] = "follow"
      BY DEF Rows, RowOf, Followed, Fans
    <3>4. page \ {End} \subseteq Rows(load[l].key)
      BY <3>3, PageMembers
    <3> QED
      BY <2>1, <2>2, <2>3, <3>1, <3>2, <3>3, <3>4 DEF RowsBehind, Listed
  <2>6. CASE Adds(l)
    <3>1. \A v \in load[l].todo \ {End} : status[RowOf(load[l].key, v)] # "none"
      BY <2>6 DEF Adds, RowsBehind
    <3>2. PICK m \in load[l].todo :
            /\ zset'[load[l].key] = zset[load[l].key] \cup {m}
            /\ \A j \in Key : j # load[l].key => zset'[j] = zset[j]
            /\ load'[l].key = load[l].key /\ load'[l].todo = load[l].todo \ {m}
      BY <2>6 DEF Adds
    <3>3. Listed'
      BY <2>1, <3>1, <3>2 DEF Listed
    <3> QED
      BY <2>1, <2>2, <2>3, <3>1, <3>2, <3>3 DEF RowsBehind
  <2>7. CASE Ends(l)
    <3>1. ~Loading(l)' /\ zset' = zset
      BY <2>7 DEF Ends, Loading, Done, Unused
    <3> QED
      BY <2>1, <2>2, <2>3, <3>1 DEF RowsBehind, Listed
  <2> QED
    BY <2>1, <2>4, <2>5, <2>6, <2>7
<1>4. ASSUME NEW k \in Key, Hit(k) \/ ExpireSet(k) PROVE RowsBehind' /\ Listed'
  <2>1. pc' = pc /\ call' = call /\ status' = status /\ load' = load
    BY <1>4 DEF Hit, ExpireSet, vars
  <2>2. \A j \in Key : zset'[j] \subseteq zset[j]
    BY <1>4 DEF Hit, ExpireSet, Put, Placed, ListTypes
  <2>3. RowsBehind'
    BY <2>1 DEF RowsBehind, Loading, PairOf, From, To
  <2> QED
    BY <2>1, <2>2, <2>3 DEF Listed
<1>5. ASSUME UNCHANGED allVars PROVE RowsBehind' /\ Listed'
  <2>1. UNCHANGED vars /\ UNCHANGED cacheVars
    BY <1>5 DEF allVars
  <2>2. pc' = pc /\ call' = call /\ status' = status
    BY <2>1 DEF vars
  <2>3. load' = load /\ zset' = zset
    BY <2>1 DEF cacheVars
  <2> QED
    BY <2>2, <2>3 DEF RowsBehind, Listed, Loading, PairOf, From, To
<1>6. CASE \E c \in Call : BeginCall(c) \/ ServeCall(c) \/ UpdateCache(c) \/ LoseCall(c)
  BY <1>1, <1>2, <1>6
<1>7. CASE \E l \in Loader : ServeList(l)
  BY <1>3, <1>7
<1>8. CASE \E k \in Key : Hit(k) \/ ExpireSet(k)
  BY <1>4, <1>8
<1> QED
  BY <1>5, <1>6, <1>7, <1>8, LoadAssumption DEF NextCache

--------------------------------------------------------------------------------
(* A user who calls one at a time.                                             *)

LEMMA OneActiveStep == Placed /\ OneActive /\ [NextCache]_allVars => OneActive'
<1> SUFFICES ASSUME Placed, OneActive, [NextCache]_allVars PROVE OneActive'
  OBVIOUS
<1>1. ASSUME NEW c \in Call, BeginCall(c) PROVE OneActive'
  <2>1. /\ mode' = mode /\ call' = call /\ at' = at /\ pc[c] = "idle"
        /\ \A d \in Call : d # c => pc'[d] = pc[d]
        /\ mode.sequential => \A d \in Call : From(d) = From(c) => ~Active(d)
    BY <1>1, ServeMoves DEF BeginCall, Begin, cacheVars, Active
  <2>2. \A d \in Call : d # c /\ Active(d)' => Active(d)
    BY <2>1 DEF Active, Caching
  <2> QED
    BY <2>1, <2>2 DEF OneActive, From
<1>2. ASSUME mode' = mode, call' = call, \A c \in Call : Active(c)' => Active(c)
      PROVE  OneActive'
  BY <1>2 DEF OneActive, From
<1>3. ASSUME NEW c \in Call, ServeCall(c) PROVE OneActive'
  <2>1. /\ mode' = mode /\ call' = call /\ at' = at
        /\ \A d \in Call : d # c => pc'[d] = pc[d]
    BY <1>3, ServeMoves DEF cacheVars
  <2>2. Active(c)
    BY <1>3 DEF ServeCall, Serve, Lookup, WriteRow, WriteFollows, WriteFans, Commit, Abort,
                Crash, Active, Running, Transaction
  <2> QED
    BY <1>2, <2>1, <2>2 DEF Active, Caching
<1>4. ASSUME NEW c \in Call, UpdateCache(c) \/ LoseCall(c) PROVE OneActive'
  <2>1. mode' = mode /\ call' = call /\ pc' = pc
    BY <1>4, CallAdds
  <2>2. Active(c)
    BY <1>4 DEF UpdateCache, CheckKey, AddMember, Trim, RemoveMember, LoseCall, Turn, Active,
                Caching
  <2>3. \A d \in Call : d # c => at'[d] = at[d]
    BY <1>4 DEF UpdateCache, CheckKey, AddMember, Trim, RemoveMember, LoseCall, Advance, At,
                Placed, ListTypes
  <2> QED
    BY <1>2, <2>1, <2>2, <2>3 DEF Active, Caching
<1>5. ASSUME pc' = pc, call' = call, mode' = mode, at' = at PROVE OneActive'
  BY <1>2, <1>5 DEF Active, Caching
<1>6. CASE \E l \in Loader : ServeList(l)
  BY <1>5, <1>6, LoaderMoves
<1>7. CASE \E k \in Key : Hit(k) \/ ExpireSet(k)
  BY <1>5, <1>7 DEF Hit, ExpireSet, vars
<1>8. CASE UNCHANGED allVars
  BY <1>5, <1>8 DEF allVars, vars, cacheVars
<1>9. CASE \E c \in Call : BeginCall(c) \/ ServeCall(c) \/ UpdateCache(c) \/ LoseCall(c)
  BY <1>1, <1>3, <1>4, <1>9
<1> QED
  BY <1>6, <1>7, <1>8, <1>9, LoadAssumption DEF NextCache

\* A call's pair is a row of its two lists and of no other.
LEMMA KeyOfRow ==
    ASSUME NEW k \in Key, NEW v \in User, NEW c \in Call, PairOf(c) = RowOf(k, v)
    PROVE  KeyOf(c, k[1]) = k /\ MemberOf(c, k[1]) = v
BY DEF PairOf, RowOf, KeyOf, MemberOf, Key

LEMMA RowsAre ==
    ASSUME NEW k \in Key
    PROVE  Rows(k) = {v \in User : status[RowOf(k, v)] = "follow"}
BY DEF Rows, RowOf, Followed, Fans

LEMMA RowsKept ==
    ASSUME NEW k \in Key, \A v \in User : status'[RowOf(k, v)] = status[RowOf(k, v)]
    PROVE  Rows(k)' = Rows(k)
BY DEF Rows, RowOf, Followed, Fans

\* The rows move under nobody's list: loaders keep away from the lists of a call.
LEMMA CalmServe ==
    ASSUME Placed, OneActive, Calm, Calmness, NEW c \in Call, BeginCall(c) \/ ServeCall(c)
    PROVE  CallsAgree' /\ ListsAgree' /\ LoadsAgree'
<1>1. /\ mode' = mode /\ call' = call /\ at' = at /\ zset' = zset /\ load' = load
      /\ pc[c] # "committed"
      /\ \A d \in Call : d # c => pc'[d] = pc[d]
      /\ Commit(c) \/ (status' = status /\ pc'[c] # "committed")
  BY ServeMoves DEF cacheVars
<1>2. CallsAgree /\ ListsAgree /\ LoadsAgree
  BY DEF Calmness
<1>3. \A d \in Call : From(d)' = From(d) /\ To(d)' = To(d) /\ PairOf(d)' = PairOf(d)
                      /\ \A list \in {"follow", "fans"} : KeyOf(d, list)' = KeyOf(d, list)
  BY <1>1 DEF PairOf, From, To, KeyOf
<1>4. /\ \A d \in Call : d # c => (Caching(d)' <=> Caching(d))
      /\ ~Caching(c)
      /\ \A d \in Call, list \in {"follow", "fans"} : d # c => (Pending(d, list)' <=> Pending(d, list))
      /\ \A l \in Loader : Loading(l)' <=> Loading(l)
  BY <1>1 DEF Caching, Pending, Loading
<1>5. ASSUME NEW l \in Loader, Loading(l)
      PROVE  Touching(load[l].key)' = {}
  <2>1. ~BeginCall(c)
    BY <1>5 DEF BeginCall, Calm
  <2>2. Active(c)
    BY <2>1 DEF ServeCall, Serve, Lookup, WriteRow, WriteFollows, WriteFans, Commit, Abort,
                Crash, Active, Running, Transaction
  <2>3. \A d \in Call : Active(d)' => Active(d)
    BY <1>1, <1>4, <2>2 DEF Active
  <2>4. Touching(load[l].key) = {}
    BY <1>2, <1>5 DEF LoadsAgree, LoaderAgrees
  <2> QED
    BY <1>1, <1>3, <2>3, <2>4 DEF Touching, Active
<1>6. CASE ~Commit(c)
  <2>1. status' = status /\ ~Caching(c)' /\ (\A k \in Key : Rows(k)' = Rows(k))
    BY <1>1, <1>6, RowsKept DEF Caching
  <2>2. CallsAgree'
    BY <1>1, <1>2, <1>3, <1>4, <2>1 DEF CallsAgree
  <2>3. ASSUME NEW k \in Key, NEW v \in User PROVE Explained(k, v)'
    <3>1. Explained(k, v) /\ k[1] \in {"follow", "fans"} /\ Rows(k)' = Rows(k)
      BY <1>2, <2>1 DEF ListsAgree, Key
    <3>2. \A d \in Call : Pending(d, k[1]) => d # c
      BY <1>4 DEF Pending
    <3>3. \A d \in Call : Pending(d, k[1]) => Pending(d, k[1])'
      BY <1>4, <3>1, <3>2
    <3> QED
      BY <1>1, <1>3, <3>1, <3>3 DEF Explained, RowOf
  <2>4. LoadsAgree'
    <3>1. \A l \in Loader : Loading(l) => load[l].key \in Key
      BY LoaderTyped DEF Placed
    <3> QED
      BY <1>1, <1>2, <1>4, <1>5, <2>1, <3>1 DEF LoadsAgree, LoaderAgrees
  <2> QED
    BY <2>2, <2>3, <2>4 DEF ListsAgree
<1>7. CASE Commit(c)
  <2>1. /\ From(c) \in User /\ To(c) \in User /\ PairOf(c) \in Pair
        /\ status'[PairOf(c)] = IF call[c].op = "follow" THEN "follow" ELSE "unfollow"
        /\ \A p \in Pair : p # PairOf(c) => status'[p] = status[p]
        /\ Active(c)
    BY <1>7, CommitMoves DEF Active
  <2>2. at[c] = [list |-> "follow", step |-> "check"]
    BY <1>1 DEF Placed, CallsPlaced
  <2>3. pc'[c] = "committed"
    BY <1>7 DEF Commit, Calm, Goto, Placed, TypeOK
  <2>4. CallsAgree'
    <3>1. ASSUME NEW d \in Call, d # c, Caching(d)
          PROVE  status'[PairOf(d)] = status[PairOf(d)]
      <4>1. From(d) # From(c)
        BY <2>1, <3>1 DEF OneActive, Calm, Active
      <4>2. PairOf(d) # PairOf(c) /\ PairOf(d) \in Pair
        BY <3>1, <4>1, CallLists DEF PairOf, Active
      <4> QED
        BY <2>1, <4>2
    <3>2. \A d \in Call : d # c /\ Caching(d) =>
            /\ status'[PairOf(d)] = IF call[d].op = "follow" THEN "follow" ELSE "unfollow"
            /\ call[d].op # "follow" => at[d].step = "check"
      BY <1>2, <3>1 DEF CallsAgree
    <3> QED
      BY <1>1, <1>3, <1>4, <2>1, <2>2, <3>2 DEF CallsAgree
  <2>5. ASSUME NEW k \in Key, NEW v \in User PROVE Explained(k, v)'
    <3>1. RowOf(k, v) \in Pair /\ k[1] \in {"follow", "fans"}
      BY RowPair DEF Key
    <3>2. \A w \in User : w \in Rows(k)' <=> status'[RowOf(k, w)] = "follow"
      BY DEF Rows, RowOf, Followed, Fans
    <3>3. CASE RowOf(k, v) = PairOf(c)
      <4>1. Pending(c, k[1])'
        BY <1>1, <2>2, <2>3, <3>1 DEF Pending, Caching
      <4>2. call[c].op \in {"follow", "unfollow"}
        BY DEF Placed, TypeOK, Request
      <4>3. (v \in Rows(k)') <=> call[c].op = "follow"
        BY <2>1, <3>2, <3>3
      <4> QED
        BY <1>1, <1>3, <3>3, <4>1, <4>2, <4>3 DEF Explained, RowOf
    <3>4. CASE RowOf(k, v) # PairOf(c)
      <4>1. Explained(k, v) /\ (v \in Rows(k)' <=> v \in Rows(k))
        BY <1>2, <2>1, <3>1, <3>2, <3>4, RowsAre DEF ListsAgree
      <4>2. \A d \in Call : Pending(d, k[1]) => Pending(d, k[1])'
        BY <1>4, <3>1 DEF Pending
      <4> QED
        BY <1>1, <1>3, <4>1, <4>2 DEF Explained, RowOf
    <3> QED
      BY <3>3, <3>4
  <2>6. ASSUME NEW l \in Loader, Loading(l)
        PROVE  Rows(load[l].key)' = Rows(load[l].key)
    <3>1. PICK k \in Key : k = load[l].key /\ Touching(k) = {}
      BY <1>2, <2>6, LoaderTyped DEF LoadsAgree, LoaderAgrees, Placed
    <3>2. ASSUME NEW v \in User PROVE RowOf(k, v) # PairOf(c)
      <4>1. RowOf(k, v) = PairOf(c) => c \in Touching(k)
        BY <2>1, <3>1, KeyOfRow DEF Touching, Active, Key
      <4> QED
        BY <3>1, <4>1
    <3>3. \A v \in User : status'[RowOf(k, v)] = status[RowOf(k, v)]
      BY <2>1, <3>1, <3>2, RowPair
    <3>4. Rows(k)' = Rows(k)
      BY <3>1, <3>3, RowsKept
    <3> QED
      BY <1>1, <3>1, <3>4
  <2>7. LoadsAgree'
    BY <1>1, <1>2, <1>4, <1>5, <2>6 DEF LoadsAgree, LoaderAgrees
  <2> QED
    BY <2>4, <2>5, <2>7 DEF ListsAgree
<1> QED
  BY <1>6, <1>7

\* What a call's step does to its list K and its member M of it, when the lists
\* agree: others are left as they were, though the trim may reopen the list.
CallEffect(c, list) ==
    LET K == KeyOf(c, list)
        M == MemberOf(c, list)
    IN  /\ \A k \in Key : k # K => zset'[k] = zset[k]
        /\ \A v \in zset'[K] : v # M => v \in zset[K]
        /\ End \in zset'[K] => zset[K] \ {M} \subseteq zset'[K]
        /\ \/ Pending(c, list) /\ call[c].op = "unfollow" /\ M \notin zset'[K]
           \/ Pending(c, list) /\ call[c].op = "follow"
              /\ (End \in zset'[K] /\ M \notin zset'[K] => Pending(c, list)')
           \/ ~Pending(c, list) /\ zset'[K] \subseteq zset[K]
              /\ (End \in zset'[K] => zset'[K] = zset[K])
        /\ \A other \in {"follow", "fans"} :
             other # list /\ Pending(c, other) => Pending(c, other)'

LEMMA CalmEffect ==
    ASSUME Placed, CallsAgree, Calm, NEW c \in Call, UpdateCache(c) \/ LoseCall(c)
    PROVE  /\ Caching(c) /\ \A d \in Call : d # c => at'[d] = at[d]
           /\ call[c].op # "follow" => at'[c].step \in {"check", "ok"}
           /\ \E list \in {"follow", "fans"} : CallEffect(c, list)
<1>1. PICK list \in {"follow", "fans"} :
        \/ CheckKey(c, list) \/ AddMember(c, list)
        \/ Trim(c, list) \/ RemoveMember(c, list)
  BY DEF UpdateCache, LoseCall, Calm
<1> DEFINE K == KeyOf(c, list)
           M == MemberOf(c, list)
<1>2. pc[c] = "committed" /\ pc' = pc /\ at[c].list = list /\ Caching(c)
      /\ call[c].op \in {"follow", "unfollow"} /\ call' = call
  <2>1. pc[c] = "committed" /\ pc' = pc /\ at[c].list = list /\ Caching(c) /\ call' = call
    BY <1>1 DEF CheckKey, AddMember, Trim, RemoveMember, Turn, Caching, vars
  <2>2. call[c].op \in {"follow", "unfollow"}
    BY DEF Placed, TypeOK, Request
  <2> QED
    BY <2>1, <2>2
<1>3. K \in Key /\ M \in User /\ zset[K] \in SUBSET (User \cup {End})
  BY <1>2, CallLists DEF Placed, ListTypes
<1>4. /\ \A d \in Call : d # c => at'[d] = at[d]
      /\ CheckKey(c, list) => at'[c] = [list |-> list, step |-> "add"] \/ Advance(c, list)
  BY <1>1 DEF CheckKey, AddMember, Trim, RemoveMember, Advance, At, Placed, ListTypes
<1>5. Advance(c, list) => at'[c] = [list |-> "fans", step |->
                                      IF list = "follow" THEN "check" ELSE "ok"]
  BY DEF Advance, At, Placed, ListTypes
<1>6. ASSUME NEW members \in SUBSET (User \cup {End}), Put(K, members)
      PROVE  zset'[K] = members /\ \A k \in Key : k # K => zset'[k] = zset[k]
  BY <1>3, <1>6, PutTyped DEF Placed
<1>7. \A other \in {"follow", "fans"} :
        other # list /\ Pending(c, other) => Pending(c, other)'
  <2>1. CASE Advance(c, list)
    BY <1>2, <1>5, <2>1 DEF Pending, Caching
  <2>2. CASE at'[c].list = list /\ at'[c].step \in {"add", "trim"}
    BY <1>2, <2>2 DEF Pending, Caching
  <2>3. AddMember(c, list) => at'[c] = [list |-> list, step |-> "trim"]
    BY DEF AddMember, At, Placed, ListTypes
  <2> QED
    BY <1>1, <1>4, <2>1, <2>2, <2>3 DEF Trim, RemoveMember
<1>8. CASE CheckKey(c, list)
  <2>1. zset' = zset /\ call[c].op = "follow" /\ Pending(c, list)
    BY <1>2, <1>8 DEF CheckKey, cache, Turn, Pending
  <2>2. zset[K] # {} => Pending(c, list)'
    BY <1>2, <1>8 DEF CheckKey, At, Pending, Caching, Placed, ListTypes
  <2>3. CallEffect(c, list)
    BY <1>7, <2>1, <2>2 DEF CallEffect
  <2> QED
    BY <1>2, <1>4, <2>1, <2>3
<1>9. CASE AddMember(c, list)
  <2>1. Put(K, zset[K] \cup {M}) /\ at[c].step = "add"
    BY <1>9 DEF AddMember, Turn
  <2>2. call[c].op = "follow" /\ Pending(c, list)
    BY <1>2, <2>1 DEF CallsAgree, Pending
  <2>3. zset'[K] = zset[K] \cup {M} /\ \A k \in Key : k # K => zset'[k] = zset[k]
    BY <1>3, <1>6, <2>1
  <2>4. CallEffect(c, list)
    BY <1>7, <2>2, <2>3 DEF CallEffect
  <2> QED
    BY <1>2, <1>4, <2>2, <2>4
<1>10. CASE RemoveMember(c, list)
  <2>1. Put(K, zset[K] \ {M}) /\ call[c].op = "unfollow" /\ Pending(c, list) /\ Advance(c, list)
    BY <1>2, <1>10 DEF RemoveMember, Turn, Pending
  <2>2. zset'[K] = zset[K] \ {M} /\ \A k \in Key : k # K => zset'[k] = zset[k]
    BY <1>3, <1>6, <2>1
  <2>3. CallEffect(c, list)
    BY <1>7, <2>1, <2>2 DEF CallEffect
  <2> QED
    BY <1>2, <1>4, <1>5, <2>1, <2>3
<1>11. CASE Trim(c, list)
  <2>1. PICK members \in Kept(zset[K]) : Put(K, members)
    BY <1>11 DEF Trim, Calm
  <2>2. members \subseteq zset[K] /\ (members = zset[K] \/ End \notin members)
    BY KeptMembers
  <2>3. zset'[K] = members /\ \A k \in Key : k # K => zset'[k] = zset[k]
    BY <1>3, <1>6, <2>1, <2>2
  <2>4. at[c] = [list |-> list, step |-> "trim"]
    BY <1>11 DEF Trim, Turn
  <2>5. call[c].op = "follow" /\ ~Pending(c, list)
    BY <1>2, <2>4 DEF CallsAgree, Pending
  <2>6. CallEffect(c, list)
    BY <1>7, <2>2, <2>3, <2>5 DEF CallEffect
  <2> QED
    BY <1>2, <1>4, <2>5, <2>6
<1> QED
  BY <1>1, <1>8, <1>9, <1>10, <1>11

LEMMA CalmCall ==
    ASSUME Placed, OneActive, Calm, Calmness, NEW c \in Call, UpdateCache(c) \/ LoseCall(c)
    PROVE  CallsAgree' /\ ListsAgree' /\ LoadsAgree'
<1>1. CallsAgree /\ ListsAgree /\ LoadsAgree
  BY DEF Calmness
<1>2. PICK list \in {"follow", "fans"} : CallEffect(c, list)
  BY <1>1, CalmEffect
<1>3. /\ pc[c] = "committed" /\ pc' = pc /\ call' = call /\ status' = status /\ load' = load
      /\ Caching(c) /\ \A d \in Call : d # c => at'[d] = at[d]
      /\ call[c].op # "follow" => at'[c].step \in {"check", "ok"}
  BY <1>1, CalmEffect, CallAdds
<1>4. /\ \A d \in Call : From(d)' = From(d) /\ To(d)' = To(d) /\ PairOf(d)' = PairOf(d)
                         /\ \A other \in {"follow", "fans"} : KeyOf(d, other)' = KeyOf(d, other)
      /\ \A k \in Key : Rows(k)' = Rows(k)
  BY <1>3, RowsKept DEF PairOf, From, To, KeyOf
<1>5. \A d \in Call : Caching(d)' => Caching(d)
  BY <1>3 DEF Caching
<1>6. PICK K \in Key, M \in User :
        /\ K = KeyOf(c, list) /\ M = MemberOf(c, list)
        /\ K[1] = list /\ RowOf(K, M) = PairOf(c)
  BY <1>3, CallLists
<1>7. CallsAgree'
  BY <1>1, <1>3, <1>4, <1>5 DEF CallsAgree, Caching
<1>8. ASSUME NEW k \in Key, NEW v \in User, ~(k = K /\ v = M) PROVE Explained(k, v)'
  <2>1. Explained(k, v) /\ k[1] \in {"follow", "fans"}
    BY <1>1 DEF ListsAgree, Key
  <2>2. \A d \in Call : Pending(d, k[1]) /\ d # c => Pending(d, k[1])'
    BY <1>3 DEF Pending, Caching
  <2>3. ASSUME Pending(c, k[1]), PairOf(c) = RowOf(k, v) PROVE Pending(c, k[1])'
    <3>1. KeyOf(c, k[1]) = k /\ MemberOf(c, k[1]) = v
      BY <2>3, KeyOfRow
    <3>2. k[1] # list
      BY <1>6, <1>8, <3>1
    <3> QED
      BY <1>2, <2>1, <2>3, <3>2 DEF CallEffect
  <2>4. /\ v \in zset'[k] => v \in zset[k]
        /\ End \in zset'[k] => End \in zset[k] /\ (v \in zset[k] => v \in zset'[k])
    BY <1>2, <1>6, <1>8 DEF CallEffect
  <2>5. \A d \in Call : Pending(d, k[1]) /\ PairOf(d) = RowOf(k, v) => Pending(d, k[1])'
    BY <2>2, <2>3
  <2> QED
    BY <1>3, <1>4, <2>1, <2>4, <2>5 DEF Explained, RowOf
<1>9. Explained(K, M)'
  <2>1. Explained(K, M) /\ K[1] = list
    BY <1>1, <1>6 DEF ListsAgree
  <2>2. ASSUME NEW d \in Call, Pending(d, list), PairOf(d) = PairOf(c) PROVE d = c
    BY <1>3, <2>2 DEF OneActive, Calm, Active, Pending, PairOf
  <2>3. M \in Rows(K) <=> status[PairOf(c)] = "follow"
    BY <1>6, RowsAre
  <2>4. M \in Rows(K) <=> call[c].op = "follow"
    BY <1>1, <1>3, <2>3 DEF CallsAgree
  <2>5. CASE Pending(c, list) /\ call[c].op = "unfollow" /\ M \notin zset'[K]
    BY <1>4, <2>4, <2>5 DEF Explained
  <2>6. CASE Pending(c, list) /\ call[c].op = "follow"
             /\ (End \in zset'[K] /\ M \notin zset'[K] => Pending(c, list)')
    BY <1>3, <1>4, <1>6, <2>1, <2>4, <2>6 DEF Explained, RowOf
  <2>7. CASE ~Pending(c, list) /\ zset'[K] \subseteq zset[K]
             /\ (End \in zset'[K] => zset'[K] = zset[K])
    <3>1. /\ ~(M \in zset[K] /\ M \notin Rows(K))
          /\ ~(End \in zset[K] /\ M \in Rows(K) /\ M \notin zset[K])
      BY <1>6, <2>1, <2>2, <2>7 DEF Explained
    <3> QED
      BY <1>4, <2>7, <3>1 DEF Explained
  <2> QED
    BY <1>2, <1>6, <2>5, <2>6, <2>7 DEF CallEffect
<1>10. ASSUME NEW l \in Loader, Loading(l)
       PROVE  /\ Touching(load[l].key)' = {} /\ load[l].key \in Key
              /\ zset'[load[l].key] = zset[load[l].key]
  <2>1. load[l].key \in Key /\ Touching(load[l].key) = {}
    BY <1>1, <1>10, LoaderTyped DEF LoadsAgree, LoaderAgrees, Placed
  <2>2. load[l].key # K
    BY <1>3, <1>6, <2>1 DEF Touching
  <2>3. Touching(load[l].key)' = {}
    BY <1>3, <1>4, <1>5, <2>1 DEF Touching
  <2> QED
    BY <1>2, <1>6, <2>1, <2>2, <2>3 DEF CallEffect
<1>11. LoadsAgree'
  BY <1>1, <1>3, <1>4, <1>10 DEF LoadsAgree, LoaderAgrees, Loading
<1> QED
  BY <1>7, <1>8, <1>9, <1>11 DEF ListsAgree

\* When nothing the calls see moves, only loaders and lists are left to look at.
LEMMA CallsStill ==
    ASSUME Placed, Calm, Calmness, pc' = pc, call' = call, status' = status, at' = at
    PROVE  /\ CallsAgree' /\ (\A k \in Key : Rows(k)' = Rows(k) /\ Touching(k)' = Touching(k))
           /\ \A k \in Key, v \in User :
                /\ (v \in zset'[k] => v \in zset[k] \/ v \in Rows(k))
                /\ (End \in zset'[k] =>
                      \/ Rows(k) \subseteq zset'[k]
                      \/ End \in zset[k] /\ zset[k] \subseteq zset'[k])
                => Explained(k, v)'
<1>1. CallsAgree /\ ListsAgree /\ LoadsAgree
  BY DEF Calmness
<1>2. \A d \in Call : From(d)' = From(d) /\ To(d)' = To(d) /\ PairOf(d)' = PairOf(d)
                      /\ (Caching(d)' <=> Caching(d))
  BY DEF PairOf, From, To, Caching
<1>3. \A k \in Key : Rows(k)' = Rows(k) /\ Touching(k)' = Touching(k)
  BY <1>2, RowsKept DEF Touching, KeyOf
<1>4. CallsAgree'
  BY <1>1, <1>2 DEF CallsAgree
<1>5. ASSUME NEW k \in Key, NEW v \in User,
             v \in zset'[k] => v \in zset[k] \/ v \in Rows(k),
             End \in zset'[k] =>
               \/ Rows(k) \subseteq zset'[k]
               \/ End \in zset[k] /\ zset[k] \subseteq zset'[k]
      PROVE  Explained(k, v)'
  <2>1. Explained(k, v)
    BY <1>1 DEF ListsAgree
  <2>2. \A d \in Call : Pending(d, k[1])' <=> Pending(d, k[1])
    BY <1>2 DEF Pending
  <2> QED
    BY <1>2, <1>3, <1>5, <2>1, <2>2 DEF Explained, RowOf
<1> QED
  BY <1>3, <1>4, <1>5

\* A loader that works on list k in the next state, in terms of that list.
LEMMA AgreesNext ==
    ASSUME NEW l \in Loader, NEW k \in Key, load'[l].key = k, Touching(k)' = {},
           load'[l].todo \ {End} \subseteq Rows(k)',
           End \in load'[l].todo => Rows(k)' \subseteq zset'[k] \cup load'[l].todo
    PROVE  LoaderAgrees(l)'
BY DEF LoaderAgrees, Rows, Followed, Fans, Touching

LEMMA CalmLoad ==
    ASSUME Placed, Calm, Calmness, NEW l \in Loader, ServeList(l)
    PROVE  CallsAgree' /\ ListsAgree' /\ LoadsAgree'
<1>1. /\ pc' = pc /\ call' = call /\ status' = status /\ at' = at
      /\ \A i \in Loader : i # l => load'[i] = load[i]
      /\ Begins(l) \/ Reads(l) \/ Adds(l) \/ Ends(l)
  BY LoaderMoves
<1>2. LoadsAgree
  BY DEF Calmness
<1>3. /\ CallsAgree' /\ (\A k \in Key : Rows(k)' = Rows(k) /\ Touching(k)' = Touching(k))
      /\ \A k \in Key, v \in User :
           /\ (v \in zset'[k] => v \in zset[k] \/ v \in Rows(k))
           /\ (End \in zset'[k] =>
                 \/ Rows(k) \subseteq zset'[k]
                 \/ End \in zset[k] /\ zset[k] \subseteq zset'[k])
           => Explained(k, v)'
  BY <1>1, CallsStill
<1>4. \A k \in Key : Rows(k) \subseteq User
  BY DEF Rows, Followed, Fans
<1>5. ASSUME \A k \in Key : zset[k] \subseteq zset'[k]
      PROVE  \A i \in Loader : i # l /\ Loading(i)' => LoaderAgrees(i)'
  <2>1. ASSUME NEW i \in Loader, i # l, Loading(i)' PROVE LoaderAgrees(i)'
    <3>1. Loading(i) /\ load'[i] = load[i]
      BY <1>1, <2>1 DEF Loading
    <3>2. PICK k \in Key : k = load[i].key
      BY <3>1, LoaderTyped DEF Placed
    <3>3. LoaderAgrees(i)
      BY <1>2, <3>1 DEF LoadsAgree
    <3>4. Touching(k)' = {} /\ Rows(k)' = Rows(k)
      BY <1>3, <3>2, <3>3 DEF LoaderAgrees
    <3> QED
      BY <1>5, <3>1, <3>2, <3>3, <3>4, AgreesNext DEF LoaderAgrees
  <2> QED
    BY <2>1
<1>6. CASE Begins(l)
  <2>1. PICK k \in Key : Miss(l, k) /\ load'[l] = [key |-> k, step |-> "read", todo |-> {}]
    BY <1>6, LoadAssumption DEF Begins
  <2>2. zset' = zset /\ Touching(k) = {}
    BY <1>6, <2>1 DEF Begins, Miss, Calm
  <2>3. LoaderAgrees(l)'
    BY <1>3, <2>1, <2>2, AgreesNext
  <2>4. LoadsAgree'
    BY <1>5, <2>2, <2>3 DEF LoadsAgree
  <2>5. ListsAgree'
    BY <1>3, <2>2 DEF ListsAgree
  <2> QED
    BY <1>3, <2>4, <2>5
<1>7. CASE Reads(l)
  <2>1. Loading(l) /\ zset' = zset
    BY <1>7 DEF Reads
  <2>2. PICK k \in Key : k = load[l].key /\ Touching(k) = {}
    BY <1>2, <2>1, LoaderTyped DEF LoadsAgree, LoaderAgrees, Placed
  <2>3. PICK page \in Page(Rows(k)) : load'[l] = [key |-> k, step |-> "fill", todo |-> page]
    BY <1>7, <2>2 DEF Reads
  <2>4. page \subseteq Rows(k) \cup {End} /\ (End \in page => page = Rows(k) \cup {End})
    BY <1>4, PageMembers
  <2>5. Touching(k)' = {} /\ Rows(k)' = Rows(k)
    BY <1>3, <2>2
  <2>6. LoaderAgrees(l)'
    BY <2>3, <2>4, <2>5, AgreesNext
  <2>7. LoadsAgree'
    BY <1>5, <2>1, <2>6 DEF LoadsAgree
  <2>8. ListsAgree'
    BY <1>3, <2>1 DEF ListsAgree
  <2> QED
    BY <1>3, <2>7, <2>8
<1>8. CASE Adds(l)
  <2>1. Loading(l)
    BY <1>8 DEF Adds
  <2>2. PICK k \in Key : /\ k = load[l].key /\ Touching(k) = {}
                         /\ load[l].todo \ {End} \subseteq Rows(k)
                         /\ End \in load[l].todo => Rows(k) \subseteq zset[k] \cup load[l].todo
    BY <1>2, <2>1, LoaderTyped DEF LoadsAgree, LoaderAgrees, Placed
  <2>3. PICK m \in load[l].todo :
          /\ m = End => load[l].todo = {End}
          /\ zset'[k] = zset[k] \cup {m}
          /\ \A j \in Key : j # k => zset'[j] = zset[j]
          /\ load'[l].key = k /\ load'[l].todo = load[l].todo \ {m}
    BY <1>8, <2>2 DEF Adds
  <2>4. \A j \in Key : zset[j] \subseteq zset'[j]
    BY <2>3
  <2>5. Touching(k)' = {} /\ Rows(k)' = Rows(k)
    BY <1>3, <2>2
  <2>6. LoaderAgrees(l)'
    BY <2>2, <2>3, <2>5, AgreesNext
  <2>7. ASSUME NEW j \in Key, NEW v \in User PROVE Explained(j, v)'
    <3>1. v \in zset'[j] => v \in zset[j] \/ v \in Rows(j)
      BY <2>2, <2>3
    <3>2. End \in zset'[j] =>
            \/ Rows(j) \subseteq zset'[j]
            \/ End \in zset[j] /\ zset[j] \subseteq zset'[j]
      BY <1>4, <2>2, <2>3, <2>4
    <3> QED
      BY <1>3, <3>1, <3>2
  <2>8. LoadsAgree'
    BY <1>5, <2>4, <2>6 DEF LoadsAgree
  <2> QED
    BY <1>3, <2>7, <2>8 DEF ListsAgree
<1>9. CASE Ends(l)
  <2>1. zset' = zset /\ ~Loading(l)'
    BY <1>9 DEF Ends, Loading, Done, Unused
  <2>2. LoadsAgree'
    BY <1>5, <2>1 DEF LoadsAgree
  <2>3. ListsAgree'
    BY <1>3, <2>1 DEF ListsAgree
  <2> QED
    BY <1>3, <2>2, <2>3
<1> QED
  BY <1>1, <1>6, <1>7, <1>8, <1>9

LEMMA CalmRest ==
    ASSUME Placed, Calm, Calmness, pc' = pc, call' = call, status' = status, at' = at,
           load' = load,
           \/ zset' = zset
           \/ \E k \in Key : ExpireSet(k)
    PROVE  CallsAgree' /\ ListsAgree' /\ LoadsAgree'
<1>1. LoadsAgree
  BY DEF Calmness
<1>2. /\ CallsAgree' /\ (\A k \in Key : Rows(k)' = Rows(k) /\ Touching(k)' = Touching(k))
      /\ \A k \in Key, v \in User :
           /\ (v \in zset'[k] => v \in zset[k] \/ v \in Rows(k))
           /\ (End \in zset'[k] =>
                 \/ Rows(k) \subseteq zset'[k]
                 \/ End \in zset[k] /\ zset[k] \subseteq zset'[k])
           => Explained(k, v)'
  BY CallsStill
<1>3. \A k \in Key : zset'[k] = zset[k] \/ zset'[k] = {}
  BY DEF ExpireSet, Put, Placed, ListTypes
<1>4. \A l \in Loader : Loading(l) => load[l].key \in Key /\ zset'[load[l].key] = zset[load[l].key]
  <2>1. \A l \in Loader : Loading(l) => load[l].key \in Key
    BY LoaderTyped DEF Placed
  <2> QED
    BY <2>1 DEF ExpireSet, Put, Calm, Placed, ListTypes
<1>5. ListsAgree'
  BY <1>2, <1>3 DEF ListsAgree
<1>6. LoadsAgree'
  <2>1. ASSUME NEW l \in Loader, Loading(l) PROVE LoaderAgrees(l)'
    <3>1. PICK k \in Key : k = load[l].key /\ zset'[k] = zset[k]
      BY <1>4, <2>1
    <3>2. LoaderAgrees(l)
      BY <1>1, <2>1 DEF LoadsAgree
    <3>3. Touching(k)' = {} /\ Rows(k)' = Rows(k)
      BY <1>2, <3>1, <3>2 DEF LoaderAgrees
    <3> QED
      BY <3>1, <3>2, <3>3, AgreesNext DEF LoaderAgrees
  <2> QED
    BY <2>1 DEF LoadsAgree, Loading
<1> QED
  BY <1>2, <1>5, <1>6

LEMMA CalmnessStep ==
    Placed /\ OneActive /\ Calmness /\ [NextCache]_allVars => Calmness'
<1> SUFFICES ASSUME Placed, OneActive, Calmness, [NextCache]_allVars PROVE Calmness'
  OBVIOUS
<1>1. mode' = mode /\ overlap' = overlap
  <2>1. ASSUME NEW c \in Call, BeginCall(c) \/ ServeCall(c) PROVE mode' = mode
    BY <2>1, ServeMoves
  <2> QED
    BY <2>1, StepKinds DEF vars, cacheVars
<1> SUFFICES ASSUME Calm PROVE CallsAgree' /\ ListsAgree' /\ LoadsAgree'
  BY <1>1 DEF Calmness, Calm
<1>2. CASE \E c \in Call : BeginCall(c) \/ ServeCall(c) \/ UpdateCache(c) \/ LoseCall(c)
  BY <1>2, CalmServe, CalmCall
<1>3. CASE \E l \in Loader : ServeList(l)
  BY <1>3, CalmLoad
<1>4. CASE \E k \in Key : Hit(k) \/ ExpireSet(k)
  <2>1. /\ pc' = pc /\ call' = call /\ status' = status /\ at' = at /\ load' = load
        /\ zset' = zset \/ \E k \in Key : ExpireSet(k)
    BY <1>4 DEF Hit, ExpireSet, vars
  <2> QED
    BY <2>1, CalmRest
<1>5. CASE UNCHANGED allVars
  <2>1. UNCHANGED vars /\ UNCHANGED cacheVars
    BY <1>5 DEF allVars
  <2>2. pc' = pc /\ call' = call /\ status' = status
    BY <2>1 DEF vars
  <2>3. at' = at /\ load' = load /\ zset' = zset
    BY <2>1 DEF cacheVars
  <2> QED
    BY <2>2, <2>3, CalmRest
<1> QED
  BY <1>2, <1>3, <1>4, <1>5, LoadAssumption DEF NextCache

LEMMA ListsInit == InitCache => RowsBehind /\ Listed /\ OneActive /\ Calmness
<1> SUFFICES ASSUME InitCache PROVE RowsBehind /\ Listed /\ OneActive /\ Calmness
  OBVIOUS
<1>1. /\ \A c \in Call : pc[c] = "idle" /\ ~Active(c) /\ ~Caching(c)
      /\ \A l \in Loader : ~Loading(l)
      /\ \A k \in Key : zset[k] = {}
  BY DEF InitCache, Init, Active, Caching, Running, Transaction, Loading, Unused
<1> QED
  BY <1>1 DEF RowsBehind, Listed, OneActive, Calmness, CallsAgree, ListsAgree, LoadsAgree,
              Explained

\* A list nobody is at work on has no pending call, and so nothing to explain.
LEMMA SettledIs == Placed /\ Calmness => SettledListsAgree
<1> SUFFICES ASSUME Placed, Calmness, Calm, NEW k \in Key, Touching(k) = {}
             PROVE  /\ zset[k] \ {End} \subseteq Rows(k)
                    /\ End \in zset[k] => Rows(k) \subseteq zset[k]
  BY DEF SettledListsAgree, Calm
<1>1. ASSUME NEW v \in User, NEW c \in Call, PairOf(c) = RowOf(k, v), Pending(c, k[1])
      PROVE  FALSE
  <2>1. KeyOf(c, k[1]) = k /\ k[1] \in {"follow", "fans"}
    BY <1>1, KeyOfRow DEF Key
  <2> QED
    BY <1>1, <2>1 DEF Touching, Pending
<1>2. \A v \in User : Explained(k, v)
  BY DEF Calmness, ListsAgree
<1>3. zset[k] \subseteq User \cup {End} /\ Rows(k) \subseteq User
  BY DEF Placed, ListTypes, Rows, Followed, Fans
<1> QED
  BY <1>1, <1>2, <1>3 DEF Explained

\* Whatever fails, dies or overlaps, every listed user has a row in MySQL; and for
\* users who call one at a time, when no list is loaded meanwhile and nothing fails,
\* a list nobody is at work on agrees with the rows and is complete when it is closed:
\* for any users, calls, loaders and CacheMax.
THEOREM ListsStayTruthful == SpecCache => []ListsTruthful
<1>1. Placed /\ Listed /\ Calmness => ListsTruthful
  BY ListedIs, SettledIs DEF ListsTruthful
<1> QED
  BY <1>1, PlacedInit, PlacedStep, ListsInit, ListedStep, OneActiveStep, CalmnessStep, PTL
     DEF SpecCache
================================================================================

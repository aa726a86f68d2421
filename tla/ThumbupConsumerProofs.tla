-------------------------- MODULE ThumbupConsumerProofs --------------------------
(* Proofs about like-mq: the deltas of pkg/deltalike it writes with are exact; *)
(* whatever processors and readers do, no counted vote is invented and no vote *)
(* acknowledged that was never on record; as long as an object's messages are  *)
(* handled one at a time the cache is coherent but for failed deletions, and   *)
(* until one of those leaves a row behind, every commit is a step of the       *)
(* ledger.                                                                     *)
EXTENDS ThumbupConsumer, FiniteSetTheorems, TLAPS

\* Voters of either type form a finite set, so their count is a natural number.
LEMMA VotersFinite ==
    ASSUME NEW U, IsFiniteSet(U), NEW votes \in [U -> Votes], NEW t
    PROVE  /\ IsFiniteSet(Voters(votes, t))
           /\ Cardinality(Voters(votes, t)) \in Nat
<1>1. Voters(votes, t) \subseteq U
  BY DEF Voters
<1> QED
  BY <1>1, FS_Subset, FS_CardinalityType

\* "after" is "votes" with the vote t of u.
Revote(U, votes, after, u, t) ==
    /\ votes \in [U -> Votes] /\ after \in [U -> Votes]
    /\ after[u] = t
    /\ \A v \in U : v # u => after[v] = votes[v]

\* A vote of type t raises the number of voters of t unless u was one of them.
LEMMA CountGains ==
    ASSUME NEW U, IsFiniteSet(U), NEW votes, NEW after, NEW u \in U, NEW t,
           Revote(U, votes, after, u, t)
    PROVE  Cardinality(Voters(after, t)) =
             IF votes[u] = t THEN Cardinality(Voters(votes, t))
                              ELSE Cardinality(Voters(votes, t)) + 1
<1>1. IsFiniteSet(Voters(votes, t))
  BY VotersFinite DEF Revote
<1>2. Voters(after, t) = Voters(votes, t) \cup {u}
  BY DEF Voters, Revote
<1>3. u \in Voters(votes, t) <=> votes[u] = t
  BY DEF Voters, Revote
<1> QED
  BY <1>1, <1>2, <1>3, FS_AddElement

\* It lowers the number of voters of another type s if u was one of them.
LEMMA CountLoses ==
    ASSUME NEW U, IsFiniteSet(U), NEW votes, NEW after, NEW u \in U, NEW t,
           Revote(U, votes, after, u, t), NEW s, s # t
    PROVE  Cardinality(Voters(after, s)) =
             IF votes[u] = s THEN Cardinality(Voters(votes, s)) - 1
                              ELSE Cardinality(Voters(votes, s))
<1>1. IsFiniteSet(Voters(votes, s))
  BY VotersFinite DEF Revote
<1>2. Voters(after, s) = Voters(votes, s) \ {u}
  BY DEF Voters, Revote
<1>3. u \in Voters(votes, s) <=> votes[u] = s
  BY DEF Voters, Revote
<1> QED
  BY <1>1, <1>2, <1>3, FS_RemoveElement

\* A voter of a type is counted in it.
LEMMA VoterCounted ==
    ASSUME NEW U, IsFiniteSet(U), NEW votes \in [U -> Votes], NEW u \in U
    PROVE  Cardinality(Voters(votes, votes[u])) >= 1
<1> DEFINE V == Voters(votes, votes[u])
<1>1. IsFiniteSet(V) /\ Cardinality(V) \in Nat /\ u \in V
  BY VotersFinite DEF Voters
<1>2. Cardinality(V) # 0
  BY <1>1, FS_EmptySet
<1> QED
  BY <1>1, <1>2

\* Counts plus the delta of a vote, clamped at zero, are the counts after it.
LEMMA DeltaOfRevote ==
    ASSUME NEW U, IsFiniteSet(U), NEW votes, NEW after, NEW u \in U, NEW t \in LikeTypes,
           Revote(U, votes, after, u, t)
    PROVE  Shift(CountsOf(votes), VoteDelta(votes[u], t)) = CountsOf(after)
<1> DEFINE C(f, s) == Cardinality(Voters(f, s))
<1>1. votes \in [U -> Votes] /\ after \in [U -> Votes]
  BY DEF Revote
<1>0. C(votes, 0) \in Nat /\ C(votes, 1) \in Nat
  BY <1>1, VotersFinite
<1>2. votes[u] \in {-1, 0, 1}
  BY <1>1 DEF Votes, LikeTypes, NoVote, LikeTypeThumbup, LikeTypeThumbdown
<1>3. (votes[u] = 0 => C(votes, 0) >= 1) /\ (votes[u] = 1 => C(votes, 1) >= 1)
  BY <1>1, VoterCounted
<1>4. CountsOf(after) = [like |-> C(after, 0), dislike |-> C(after, 1)]
  BY DEF CountsOf, LikeTypeThumbup, LikeTypeThumbdown
<1>5. CountsOf(votes) = [like |-> C(votes, 0), dislike |-> C(votes, 1)]
  BY DEF CountsOf, LikeTypeThumbup, LikeTypeThumbdown
<1>6. CASE t = 0
  <2>1. C(after, 0) = IF votes[u] = 0 THEN C(votes, 0) ELSE C(votes, 0) + 1
    BY <1>6, CountGains
  <2>2. C(after, 1) = IF votes[u] = 1 THEN C(votes, 1) - 1 ELSE C(votes, 1)
    BY <1>6, CountLoses
  <2> HIDE DEF C
  <2>3. Shift([like |-> C(votes, 0), dislike |-> C(votes, 1)], VoteDelta(votes[u], t))
          = [like |-> C(after, 0), dislike |-> C(after, 1)]
    BY <1>0, <1>2, <1>3, <1>6, <2>1, <2>2 DEF Shift, VoteDelta, MaxInt64,
       CalcInsertDelta, CalcSwitchDelta, NoVote, LikeTypeThumbup, LikeTypeThumbdown
  <2> QED
    BY <1>4, <1>5, <2>3
<1>7. CASE t = 1
  <2>1. C(after, 1) = IF votes[u] = 1 THEN C(votes, 1) ELSE C(votes, 1) + 1
    BY <1>7, CountGains
  <2>2. C(after, 0) = IF votes[u] = 0 THEN C(votes, 0) - 1 ELSE C(votes, 0)
    BY <1>7, CountLoses
  <2> HIDE DEF C
  <2>3. Shift([like |-> C(votes, 0), dislike |-> C(votes, 1)], VoteDelta(votes[u], t))
          = [like |-> C(after, 0), dislike |-> C(after, 1)]
    BY <1>0, <1>2, <1>3, <1>7, <2>1, <2>2 DEF Shift, VoteDelta, MaxInt64,
       CalcInsertDelta, CalcSwitchDelta, NoVote, LikeTypeThumbup, LikeTypeThumbdown
  <2> QED
    BY <1>4, <1>5, <2>3
<1> QED
  BY <1>6, <1>7 DEF LikeTypes, LikeTypeThumbup, LikeTypeThumbdown

\* What like-rpc answers and what like-mq writes: counts plus delta, clamped at
\* zero, are the counts after the vote - for an insert, for a change of type and
\* for a repeated vote - and the clamp never hides an error.
THEOREM DeltaExact ==
    ASSUME NEW U, IsFiniteSet(U), NEW votes \in [U -> Votes], NEW u \in U,
           NEW t \in LikeTypes
    PROVE  Shift(CountsOf(votes), VoteDelta(votes[u], t)) =
             CountsOf([votes EXCEPT ![u] = t])
<1>1. Revote(U, votes, [votes EXCEPT ![u] = t], u, t)
  BY DEF Revote, Votes
<1> QED
  BY <1>1, DeltaOfRevote

--------------------------------------------------------------------------------
(* Types.                                                                      *)

USE MessageAssumption, DeliveriesAssumption
USE DEF recordCache, rowCache

Snapshot == [record : [User -> Votes], row : Rows]

Transaction == [msg : Message, snap : SUBSET Snapshot, old : Votes, base : Rows,
                record : LikeTypes \cup {Miss}, row : CachedCounts \cup {MissRow}]

Fills == {NoFill} \cup [table : {"record"}, user : User, value : Votes]
                  \cup [table : {"row"}, value : Rows]

\* The transaction in a processor's hands has a valid message.
TxType(w) ==
    \/ pc[w] = "idle" /\ tx[w] = NoTx
    \/ pc[w] # "idle" /\ tx[w] \in Transaction /\ Valid(tx[w].msg)

StoreType ==
    /\ record \in [User -> Votes] /\ row \in Rows
    /\ cachedRecord \in [User -> Votes \cup {Miss}]
    /\ cachedRow \in Rows \cup {MissRow}
    /\ undeletedRecords \in SUBSET User /\ undeletedRow \in BOOLEAN
    /\ applied \in CachedCounts
    /\ recorded \in [User -> SUBSET LikeTypes]

Typed ==
    /\ left \in [Message -> 0 .. MaxDeliveries]
    /\ pc \in [Processor -> Phases]
    /\ tx \in [Processor -> Transaction \cup {NoTx}]
    /\ \A w \in Processor : TxType(w)
    /\ StoreType
    /\ fill \in [Reader -> Fills]


\* w goes on to a phase of its transaction, which becomes t.
Moves(w, phase, t) ==
    /\ pc' = [pc EXCEPT ![w] = phase] /\ phase \in Phases \ {"idle"}
    /\ tx' = [tx EXCEPT ![w] = t] /\ t \in Transaction /\ t.msg = tx[w].msg

\* What is known of a processor in a transaction.
LEMMA Busy ==
    ASSUME Typed, NEW w \in Processor, pc[w] # "idle"
    PROVE  /\ tx[w] \in Transaction /\ UserOf(w) \in User /\ TypeOf(w) \in LikeTypes
           /\ Valid(tx[w].msg)
           /\ View(w) \in Snapshot
<1>1. tx[w] \in Transaction /\ Valid(tx[w].msg)
  BY DEF Typed, TxType
<1>2. tx[w].msg \in Message /\ tx[w].snap \in SUBSET Snapshot
  BY <1>1 DEF Transaction
<1>3. UserOf(w) \in User /\ TypeOf(w) \in LikeTypes
  BY <1>1, <1>2 DEF UserOf, TypeOf, Valid
<1>4. CASE tx[w].snap = {}
  <2>1. [record |-> record, row |-> row] \in Snapshot
    BY DEF Typed, StoreType, Snapshot
  <2> QED
    BY <1>1, <1>3, <1>4, <2>1 DEF View
<1>5. CASE tx[w].snap # {}
  <2>1. (CHOOSE s \in tx[w].snap : TRUE) \in tx[w].snap
    BY <1>5
  <2> QED
    BY <1>1, <1>2, <1>3, <1>5, <2>1 DEF View
<1> QED
  BY <1>4, <1>5

LEMMA MovesTyped ==
    ASSUME Typed, NEW w \in Processor, pc[w] # "idle", NEW phase, NEW t,
           Moves(w, phase, t)
    PROVE  /\ pc' \in [Processor -> Phases] /\ tx' \in [Processor -> Transaction \cup {NoTx}]
           /\ \A v \in Processor : TxType(v)'
<1>1. pc' \in [Processor -> Phases] /\ tx' \in [Processor -> Transaction \cup {NoTx}]
  BY DEF Typed, Moves
<1>2. pc'[w] = phase /\ tx'[w] = t
  BY DEF Typed, Moves
<1>3. TxType(w)'
  BY <1>2, Busy DEF TxType, Moves
<1>4. ASSUME NEW v \in Processor, v # w PROVE TxType(v)'
  BY <1>4 DEF TxType, Typed, Moves
<1> QED
  BY <1>1, <1>3, <1>4

LEMMA FindRecordMoves ==
    ASSUME Typed, NEW w \in Processor, NEW again \in BOOLEAN, FindRecord(w, again)
    PROVE  \/ /\ cachedRecord[UserOf(w)] # Miss
              /\ Moves(w, Decide(w, cachedRecord[UserOf(w)], again),
                       [tx[w] EXCEPT !.old = cachedRecord[UserOf(w)]])
           \/ /\ cachedRecord[UserOf(w)] = Miss
              /\ Moves(w, IF again THEN "refillRecord" ELSE "fillRecord",
                       [tx[w] EXCEPT !.old = View(w).record[UserOf(w)],
                                     !.snap = {View(w)}])
<1>0. pc[w] # "idle"
  BY DEF FindRecord
<1>1. /\ tx[w] \in Transaction /\ UserOf(w) \in User /\ View(w) \in Snapshot
      /\ cachedRecord[UserOf(w)] \in Votes \cup {Miss}
  BY <1>0, Busy DEF Typed, StoreType
<1>2. CASE cachedRecord[UserOf(w)] # Miss
  <2>1. /\ tx' = [tx EXCEPT ![w] = [tx[w] EXCEPT !.old = cachedRecord[UserOf(w)]]]
        /\ pc' = [pc EXCEPT ![w] = Decide(w, cachedRecord[UserOf(w)], again)]
    BY <1>2 DEF FindRecord, Goto
  <2>2. [tx[w] EXCEPT !.old = cachedRecord[UserOf(w)]] \in Transaction
    BY <1>1, <1>2 DEF Transaction
  <2> QED
    BY <1>1, <1>2, <2>1, <2>2 DEF Moves, Phases, Decide, Transaction
<1>3. CASE cachedRecord[UserOf(w)] = Miss
  <2>1. /\ tx' = [tx EXCEPT ![w] = [tx[w] EXCEPT !.old = View(w).record[UserOf(w)],
                                                 !.snap = {View(w)}]]
        /\ pc' = [pc EXCEPT ![w] = IF again THEN "refillRecord" ELSE "fillRecord"]
    BY <1>3 DEF FindRecord, Goto, Typed
  <2>2. View(w).record[UserOf(w)] \in Votes
    BY <1>1 DEF Snapshot
  <2>3. [tx[w] EXCEPT !.old = View(w).record[UserOf(w)], !.snap = {View(w)}] \in Transaction
    BY <1>1, <2>2 DEF Transaction
  <2> QED
    BY <1>1, <1>3, <2>1, <2>3 DEF Moves, Phases, Transaction
<1> QED
  BY <1>2, <1>3

LEMMA FillRecordMoves ==
    ASSUME Typed, NEW w \in Processor, NEW again \in BOOLEAN, FillRecord(w, again)
    PROVE  Moves(w, Decide(w, tx[w].old, again), tx[w])
<1>1. pc[w] # "idle"
  BY DEF FillRecord
<1>2. tx[w] \in Transaction
  BY <1>1, Busy
<1>3. tx' = [tx EXCEPT ![w] = tx[w]]
  BY DEF FillRecord, Typed
<1> QED
  BY <1>2, <1>3 DEF FillRecord, Goto, Moves, Phases, Decide

LEMMA InsertRecordMoves ==
    ASSUME Typed, NEW w \in Processor, InsertRecord(w)
    PROVE  \/ /\ record[UserOf(w)] = NoVote
              /\ Moves(w, "uncacheRecord", [tx[w] EXCEPT !.record = TypeOf(w)])
           \/ record[UserOf(w)] # NoVote /\ Moves(w, "refindRecord", tx[w])
<1>1. pc[w] # "idle"
  BY DEF InsertRecord
<1>2. tx[w] \in Transaction /\ TypeOf(w) \in LikeTypes
  BY <1>1, Busy
<1>3. CASE record[UserOf(w)] = NoVote
  <2>1. tx' = [tx EXCEPT ![w] = [tx[w] EXCEPT !.record = TypeOf(w)]]
    BY <1>3 DEF InsertRecord
  <2>2. [tx[w] EXCEPT !.record = TypeOf(w)] \in Transaction
    BY <1>2 DEF Transaction
  <2> QED
    BY <1>2, <1>3, <2>1, <2>2 DEF InsertRecord, Goto, Moves, Phases, Transaction
<1>4. CASE record[UserOf(w)] # NoVote
  <2>1. tx' = [tx EXCEPT ![w] = tx[w]]
    BY <1>4 DEF InsertRecord, Typed
  <2> QED
    BY <1>2, <1>4, <2>1 DEF InsertRecord, Goto, Moves, Phases
<1> QED
  BY <1>3, <1>4

LEMMA LoadRecordMoves ==
    ASSUME Typed, NEW w \in Processor, LoadRecord(w)
    PROVE  \/ Moves(w, "updateRecord", tx[w])
           \/ Moves(w, IF View(w).record[UserOf(w)] = NoVote THEN "rollback" ELSE "storeRecord",
                    [tx[w] EXCEPT !.snap = {View(w)}])
<1>1. pc[w] # "idle"
  BY DEF LoadRecord
<1>2. tx[w] \in Transaction /\ View(w) \in Snapshot
  BY <1>1, Busy
<1>3. CASE Goto(w, "updateRecord") /\ UNCHANGED tx
  <2>1. tx' = [tx EXCEPT ![w] = tx[w]]
    BY <1>3 DEF Typed
  <2> QED
    BY <1>2, <1>3, <2>1 DEF Goto, Moves, Phases
<1>4. CASE /\ tx' = [tx EXCEPT ![w].snap = {View(w)}]
           /\ Goto(w, IF View(w).record[UserOf(w)] = NoVote THEN "rollback" ELSE "storeRecord")
  <2>1. tx' = [tx EXCEPT ![w] = [tx[w] EXCEPT !.snap = {View(w)}]]
    BY <1>4 DEF Typed
  <2>2. [tx[w] EXCEPT !.snap = {View(w)}] \in Transaction
    BY <1>2 DEF Transaction
  <2> QED
    BY <1>2, <1>4, <2>1, <2>2 DEF Goto, Moves, Phases, Transaction
<1> QED
  BY <1>3, <1>4 DEF LoadRecord

LEMMA StoreRecordMoves ==
    ASSUME Typed, NEW w \in Processor, StoreRecord(w)
    PROVE  /\ Moves(w, "updateRecord", tx[w])
           /\ cachedRecord' \in [User -> Votes \cup {Miss}]
           /\ \A u \in User : cachedRecord'[u] =
                IF u = UserOf(w) /\ cachedRecord[u] \in LikeTypes
                THEN View(w).record[u] ELSE cachedRecord[u]
<1>1. pc[w] # "idle"
  BY DEF StoreRecord
<1>2. tx[w] \in Transaction /\ View(w) \in Snapshot /\ UserOf(w) \in User
  BY <1>1, Busy
<1>3. tx' = [tx EXCEPT ![w] = tx[w]]
  BY DEF StoreRecord, Typed
<1>4. View(w).record[UserOf(w)] \in Votes
  BY <1>2 DEF Snapshot
<1>5. Moves(w, "updateRecord", tx[w])
  BY <1>1, <1>2, <1>3 DEF StoreRecord, Goto, Moves, Phases
<1> QED
  BY <1>2, <1>4, <1>5 DEF StoreRecord, Typed, StoreType

LEMMA UpdateRecordMoves ==
    ASSUME Typed, NEW w \in Processor, UpdateRecord(w)
    PROVE  Moves(w, "uncacheRecord", [tx[w] EXCEPT !.record = TypeOf(w)])
<1>1. pc[w] # "idle"
  BY DEF UpdateRecord
<1>2. tx[w] \in Transaction /\ TypeOf(w) \in LikeTypes
  BY <1>1, Busy
<1>3. tx' = [tx EXCEPT ![w] = [tx[w] EXCEPT !.record = TypeOf(w)]]
  BY DEF UpdateRecord
<1>4. [tx[w] EXCEPT !.record = TypeOf(w)] \in Transaction
  BY <1>2 DEF Transaction
<1> QED
  BY <1>2, <1>3, <1>4 DEF UpdateRecord, Goto, Moves, Phases, Transaction

\* A deletion of a row's keys removes the entry or leaves it, and notes which.
LEMMA DeletionTyped ==
    ASSUME Typed
    PROVE  /\ \A u \in User : DeleteRecord(u) =>
                /\ cachedRecord' \in [User -> Votes \cup {Miss}]
                /\ undeletedRecords' \in SUBSET User
                /\ \A v \in User : v # u => /\ cachedRecord'[v] = cachedRecord[v]
                                            /\ v \in undeletedRecords' <=> v \in undeletedRecords
                /\ \/ cachedRecord'[u] = Miss
                   \/ u \in undeletedRecords' /\ cachedRecord'[u] = cachedRecord[u]
           /\ DeleteRow =>
                /\ cachedRow' \in Rows \cup {MissRow} /\ undeletedRow' \in BOOLEAN
                /\ cachedRow' = MissRow \/ (undeletedRow' /\ cachedRow' = cachedRow)
<1>1. ASSUME NEW u \in User, DeleteRecord(u)
      PROVE  /\ cachedRecord' \in [User -> Votes \cup {Miss}]
             /\ undeletedRecords' \in SUBSET User
             /\ \A v \in User : v # u => /\ cachedRecord'[v] = cachedRecord[v]
                                         /\ v \in undeletedRecords' <=> v \in undeletedRecords
             /\ \/ cachedRecord'[u] = Miss
                \/ u \in undeletedRecords' /\ cachedRecord'[u] = cachedRecord[u]
  <2>1. /\ cachedRecord \in [User -> Votes \cup {Miss}]
        /\ undeletedRecords \in SUBSET User
    BY DEF Typed, StoreType
  <2>2. CASE /\ cachedRecord' = [cachedRecord EXCEPT ![u] = Miss]
             /\ undeletedRecords' = undeletedRecords \ {u}
    BY <2>1, <2>2
  <2>3. CASE /\ undeletedRecords' = IF cachedRecord[u] = Miss THEN undeletedRecords
                                     ELSE undeletedRecords \cup {u}
             /\ UNCHANGED cachedRecord
    BY <2>1, <2>3
  <2> QED
    BY <1>1, <2>2, <2>3 DEF DeleteRecord
<1>2. ASSUME DeleteRow
      PROVE  /\ cachedRow' \in Rows \cup {MissRow} /\ undeletedRow' \in BOOLEAN
             /\ cachedRow' = MissRow \/ (undeletedRow' /\ cachedRow' = cachedRow)
  <2>1. cachedRow \in Rows \cup {MissRow}
    BY DEF Typed, StoreType
  <2>2. CASE cachedRow' = MissRow /\ undeletedRow' = FALSE
    BY <2>2
  <2>3. CASE undeletedRow' = (undeletedRow \/ cachedRow # MissRow) /\ UNCHANGED cachedRow
    BY <2>1, <2>3
  <2> QED
    BY <1>2, <2>2, <2>3 DEF DeleteRow
<1> QED
  BY <1>1, <1>2

LEMMA UncacheRecordMoves ==
    ASSUME Typed, NEW w \in Processor, UncacheRecord(w)
    PROVE  Moves(w, "findRow", tx[w])
<1>1. pc[w] # "idle"
  BY DEF UncacheRecord
<1>2. tx' = [tx EXCEPT ![w] = tx[w]]
  BY DEF UncacheRecord, Typed
<1> QED
  BY <1>1, <1>2, Busy DEF UncacheRecord, Goto, Moves, Phases

LEMMA FindRowMoves ==
    ASSUME Typed, NEW w \in Processor, NEW again \in BOOLEAN, FindRow(w, again)
    PROVE  \/ /\ cachedRow # MissRow
              /\ Moves(w, DecideRow(cachedRow, again), [tx[w] EXCEPT !.base = cachedRow])
           \/ /\ cachedRow = MissRow
              /\ Moves(w, IF again THEN "refillRow" ELSE "fillRow",
                       [tx[w] EXCEPT !.base = View(w).row, !.snap = {View(w)}])
<1>0. pc[w] # "idle"
  BY DEF FindRow
<1>1. /\ tx[w] \in Transaction /\ View(w) \in Snapshot
      /\ cachedRow \in Rows \cup {MissRow}
  BY <1>0, Busy DEF Typed, StoreType
<1>2. CASE cachedRow # MissRow
  <2>1. /\ tx' = [tx EXCEPT ![w] = [tx[w] EXCEPT !.base = cachedRow]]
        /\ pc' = [pc EXCEPT ![w] = DecideRow(cachedRow, again)]
    BY <1>2 DEF FindRow, Goto
  <2>2. [tx[w] EXCEPT !.base = cachedRow] \in Transaction
    BY <1>1, <1>2 DEF Transaction
  <2> QED
    BY <1>1, <1>2, <2>1, <2>2 DEF Moves, Phases, DecideRow, Transaction
<1>3. CASE cachedRow = MissRow
  <2>1. /\ tx' = [tx EXCEPT ![w] = [tx[w] EXCEPT !.base = View(w).row, !.snap = {View(w)}]]
        /\ pc' = [pc EXCEPT ![w] = IF again THEN "refillRow" ELSE "fillRow"]
    BY <1>3 DEF FindRow, Goto, Typed
  <2>2. View(w).row \in Rows
    BY <1>1 DEF Snapshot
  <2>3. [tx[w] EXCEPT !.base = View(w).row, !.snap = {View(w)}] \in Transaction
    BY <1>1, <2>2 DEF Transaction
  <2> QED
    BY <1>1, <1>3, <2>1, <2>3 DEF Moves, Phases, Transaction
<1> QED
  BY <1>2, <1>3

LEMMA FillRowMoves ==
    ASSUME Typed, NEW w \in Processor, NEW again \in BOOLEAN, FillRow(w, again)
    PROVE  Moves(w, DecideRow(tx[w].base, again), tx[w])
<1>1. pc[w] # "idle"
  BY DEF FillRow
<1>2. tx' = [tx EXCEPT ![w] = tx[w]]
  BY DEF FillRow, Typed
<1> QED
  BY <1>1, <1>2, Busy DEF FillRow, Goto, Moves, Phases, DecideRow

\* Counts after a delta are natural numbers.
LEMMA ShiftTyped ==
    ASSUME NEW c \in Rows, NEW old \in Votes, NEW t \in LikeTypes
    PROVE  Shift(c, VoteDelta(old, t)) \in CachedCounts
<1>1. c.like \in Int /\ c.dislike \in Int
  BY DEF Rows, CachedCounts, NoRow, NoVote
<1>2. VoteDelta(old, t).like \in Int /\ VoteDelta(old, t).dislike \in Int
  BY DEF VoteDelta, CalcInsertDelta, CalcSwitchDelta
<1> HIDE DEF VoteDelta
<1>3. MaxInt64(c.like + VoteDelta(old, t).like, 0) \in Nat
  BY <1>1, <1>2 DEF MaxInt64
<1>4. MaxInt64(c.dislike + VoteDelta(old, t).dislike, 0) \in Nat
  BY <1>1, <1>2 DEF MaxInt64
<1> QED
  BY <1>3, <1>4 DEF Shift, CachedCounts

LEMMA InsertRowMoves ==
    ASSUME Typed, NEW w \in Processor, InsertRow(w)
    PROVE  \/ /\ row = NoRow
              /\ Moves(w, "uncacheRow", [tx[w] EXCEPT !.row = Shift(NoCounts, Delta(w))])
           \/ row # NoRow /\ Moves(w, "refindRow", tx[w])
<1>1. pc[w] # "idle"
  BY DEF InsertRow
<1>2. tx[w] \in Transaction /\ TypeOf(w) \in LikeTypes
  BY <1>1, Busy
<1>3. CASE row = NoRow
  <2>1. tx' = [tx EXCEPT ![w] = [tx[w] EXCEPT !.row = Shift(NoCounts, Delta(w))]]
    BY <1>3 DEF InsertRow
  <2>2. NoCounts \in Rows /\ tx[w].old \in Votes
    BY <1>2 DEF NoCounts, Rows, CachedCounts, Transaction
  <2>3. Shift(NoCounts, Delta(w)) \in CachedCounts
    BY <1>2, <2>2, ShiftTyped DEF Delta
  <2>4. [tx[w] EXCEPT !.row = Shift(NoCounts, Delta(w))] \in Transaction
    BY <1>2, <2>3 DEF Transaction
  <2> QED
    BY <1>2, <1>3, <2>1, <2>4 DEF InsertRow, Goto, Moves, Phases, Transaction
<1>4. CASE row # NoRow
  <2>1. tx' = [tx EXCEPT ![w] = tx[w]]
    BY <1>4 DEF InsertRow, Typed
  <2> QED
    BY <1>2, <1>4, <2>1 DEF InsertRow, Goto, Moves, Phases
<1> QED
  BY <1>3, <1>4

LEMMA LoadRowMoves ==
    ASSUME Typed, NEW w \in Processor, LoadRow(w)
    PROVE  \/ Moves(w, "updateRow", tx[w])
           \/ Moves(w, IF View(w).row = NoRow THEN "rollback" ELSE "storeRow",
                    [tx[w] EXCEPT !.snap = {View(w)}])
<1>1. pc[w] # "idle"
  BY DEF LoadRow
<1>2. tx[w] \in Transaction /\ View(w) \in Snapshot
  BY <1>1, Busy
<1>3. CASE Goto(w, "updateRow") /\ UNCHANGED tx
  <2>1. tx' = [tx EXCEPT ![w] = tx[w]]
    BY <1>3 DEF Typed
  <2> QED
    BY <1>2, <1>3, <2>1 DEF Goto, Moves, Phases
<1>4. CASE /\ tx' = [tx EXCEPT ![w].snap = {View(w)}]
           /\ Goto(w, IF View(w).row = NoRow THEN "rollback" ELSE "storeRow")
  <2>1. tx' = [tx EXCEPT ![w] = [tx[w] EXCEPT !.snap = {View(w)}]]
    BY <1>4 DEF Typed
  <2>2. [tx[w] EXCEPT !.snap = {View(w)}] \in Transaction
    BY <1>2 DEF Transaction
  <2> QED
    BY <1>2, <1>4, <2>1, <2>2 DEF Goto, Moves, Phases, Transaction
<1> QED
  BY <1>3, <1>4 DEF LoadRow

LEMMA StoreRowMoves ==
    ASSUME Typed, NEW w \in Processor, StoreRow(w)
    PROVE  /\ Moves(w, "updateRow", tx[w])
           /\ cachedRow' \in Rows \cup {MissRow}
<1>1. pc[w] # "idle"
  BY DEF StoreRow
<1>2. tx[w] \in Transaction /\ View(w) \in Snapshot
  BY <1>1, Busy
<1>3. tx' = [tx EXCEPT ![w] = tx[w]]
  BY DEF StoreRow, Typed
<1>4. View(w).row \in Rows
  BY <1>2 DEF Snapshot
<1>5. Moves(w, "updateRow", tx[w])
  BY <1>1, <1>2, <1>3 DEF StoreRow, Goto, Moves, Phases
<1> QED
  BY <1>4, <1>5 DEF StoreRow, Typed, StoreType

LEMMA UpdateRowMoves ==
    ASSUME Typed, NEW w \in Processor, UpdateRow(w)
    PROVE  Moves(w, "uncacheRow", [tx[w] EXCEPT !.row = Shift(tx[w].base, Delta(w))])
<1> DEFINE t == [tx[w] EXCEPT !.row = Shift(tx[w].base, Delta(w))]
<1>1. pc[w] # "idle"
  BY DEF UpdateRow
<1>2. tx[w] \in Transaction /\ TypeOf(w) \in LikeTypes
  BY <1>1, Busy
<1>3. tx' = [tx EXCEPT ![w] = t]
  BY DEF UpdateRow
<1>4. tx[w].base \in Rows /\ tx[w].old \in Votes
  BY <1>2 DEF Transaction
<1>5. Shift(tx[w].base, Delta(w)) \in CachedCounts
  BY <1>2, <1>4, ShiftTyped DEF Delta
<1>6. t \in Transaction /\ t.msg = tx[w].msg
  BY <1>2, <1>5 DEF Transaction
<1>7. pc' = [pc EXCEPT ![w] = "uncacheRow"] /\ "uncacheRow" \in Phases \ {"idle"}
  BY DEF UpdateRow, Goto, Phases
<1> HIDE DEF t
<1>8. Moves(w, "uncacheRow", t)
  BY <1>3, <1>6, <1>7 DEF Moves
<1> QED
  BY <1>8 DEF t

LEMMA UncacheRowMoves ==
    ASSUME Typed, NEW w \in Processor, UncacheRow(w)
    PROVE  Moves(w, "commit", tx[w])
<1>1. pc[w] # "idle"
  BY DEF UncacheRow
<1>2. tx' = [tx EXCEPT ![w] = tx[w]]
  BY DEF UncacheRow, Typed
<1> QED
  BY <1>1, <1>2, Busy DEF UncacheRow, Goto, Moves, Phases

LEMMA EndTyped ==
    ASSUME Typed, NEW w \in Processor, End(w)
    PROVE  /\ pc' \in [Processor -> Phases] /\ tx' \in [Processor -> Transaction \cup {NoTx}]
           /\ \A v \in Processor : TxType(v)'
<1>1. pc' \in [Processor -> Phases] /\ tx' \in [Processor -> Transaction \cup {NoTx}]
  BY DEF Typed, End, Goto, Phases
<1>2. pc'[w] = "idle" /\ tx'[w] = NoTx
  BY DEF Typed, End, Goto
<1>3. ASSUME NEW v \in Processor, v # w PROVE TxType(v)'
  BY <1>3 DEF TxType, Typed, End, Goto
<1> QED
  BY <1>1, <1>2, <1>3 DEF TxType

\* A fill leaves the cache well typed.
LEMMA CacheTyped ==
    ASSUME Typed
    PROVE  /\ \A u \in User, value \in Votes :
                CacheRecord(u, value) => cachedRecord' \in [User -> Votes \cup {Miss}]
           /\ \A value \in Rows : CacheRow(value) => cachedRow' \in Rows \cup {MissRow}
BY DEF Typed, StoreType, CacheRecord, CacheRow

LEMMA TakeTyped ==
    ASSUME Typed, NEW w \in Processor, NEW m \in Message, Take(w, m), Valid(m)
    PROVE  /\ pc' = [pc EXCEPT ![w] = "findRecord"] /\ tx' = [tx EXCEPT ![w] = Begun(m)]
           /\ Begun(m) \in Transaction
           /\ pc' \in [Processor -> Phases] /\ tx' \in [Processor -> Transaction \cup {NoTx}]
           /\ \A v \in Processor : TxType(v)'
<1>1. pc' = [pc EXCEPT ![w] = "findRecord"] /\ tx' = [tx EXCEPT ![w] = Begun(m)]
  BY DEF Take, Goto
<1>2. Begun(m) \in Transaction /\ Begun(m).msg = m
  BY DEF Begun, Transaction, Votes, Rows
<1>3. pc' \in [Processor -> Phases] /\ tx' \in [Processor -> Transaction \cup {NoTx}]
  BY <1>1, <1>2 DEF Typed, Phases
<1>4. ASSUME NEW v \in Processor PROVE TxType(v)'
  BY <1>1, <1>2, <1>4 DEF TxType, Typed
<1> QED
  BY <1>1, <1>2, <1>3, <1>4

LEMMA CommitTyped ==
    ASSUME Typed, NEW w \in Processor, Commit(w)
    PROVE  /\ record' \in [User -> Votes] /\ row' \in Rows /\ applied' \in CachedCounts
           /\ recorded' \in [User -> SUBSET LikeTypes]
<1>1. pc[w] # "idle"
  BY DEF Commit
<1>2. /\ tx[w].record \in LikeTypes \cup {Miss} /\ tx[w].row \in CachedCounts \cup {MissRow}
      /\ UserOf(w) \in User
  BY <1>1, Busy DEF Transaction
<1>3. record' \in [User -> Votes]
  BY <1>2 DEF Commit, Typed, StoreType, Votes
<1>4. row' \in Rows
  BY <1>2 DEF Commit, Typed, StoreType, Rows
<1>5. applied' \in CachedCounts
  BY DEF Commit, Typed, StoreType, CachedCounts
<1>6. recorded' \in [User -> SUBSET LikeTypes]
  BY <1>2 DEF Commit, Typed, StoreType
<1> QED
  BY <1>3, <1>4, <1>5, <1>6

LEMMA TypedStep == Typed /\ [Next]_vars => Typed'
<1> SUFFICES ASSUME Typed, [Next]_vars PROVE Typed'
  OBVIOUS
<1> USE DEF Database, Cache, Others
<1>1. ASSUME NEW w \in Processor, Work(w) PROVE Typed'
  <2>1. CASE \E again \in BOOLEAN : FindRecord(w, again)
    BY <2>1, FindRecordMoves, MovesTyped DEF FindRecord, Typed, StoreType
  <2>2. CASE \E again \in BOOLEAN : FillRecord(w, again)
    <3>1. PICK again \in BOOLEAN : FillRecord(w, again)
      BY <2>2
    <3>2. tx[w].old \in Votes /\ UserOf(w) \in User /\ pc[w] # "idle"
      BY <3>1, Busy DEF Transaction, FillRecord
    <3>3. cachedRecord' \in [User -> Votes \cup {Miss}]
      BY <3>1, <3>2, CacheTyped DEF FillRecord
    <3> QED
      BY <3>1, <3>2, <3>3, FillRecordMoves, MovesTyped DEF FillRecord, Typed, StoreType
  <2>3. CASE \E again \in BOOLEAN : FindRow(w, again)
    BY <2>3, FindRowMoves, MovesTyped DEF FindRow, Typed, StoreType
  <2>4. CASE \E again \in BOOLEAN : FillRow(w, again)
    <3>1. PICK again \in BOOLEAN : FillRow(w, again)
      BY <2>4
    <3>2. tx[w].base \in Rows /\ pc[w] # "idle"
      BY <3>1, Busy DEF Transaction, FillRow
    <3>3. cachedRow' \in Rows \cup {MissRow}
      BY <3>1, <3>2, CacheTyped DEF FillRow
    <3> QED
      BY <3>1, <3>2, <3>3, FillRowMoves, MovesTyped DEF FillRow, Typed, StoreType
  <2>5. CASE InsertRecord(w)
    BY <2>5, InsertRecordMoves, MovesTyped DEF InsertRecord, Typed, StoreType
  <2>6. CASE UpdateRecord(w)
    BY <2>6, UpdateRecordMoves, MovesTyped DEF UpdateRecord, Typed, StoreType
  <2>7. CASE UncacheRecord(w)
    <3>1. UserOf(w) \in User /\ DeleteRecord(UserOf(w)) /\ pc[w] # "idle"
      BY <2>7, Busy DEF UncacheRecord
    <3>2. cachedRecord' \in [User -> Votes \cup {Miss}] /\ undeletedRecords' \in SUBSET User
      BY <3>1, DeletionTyped
    <3> QED
      BY <2>7, <3>2, UncacheRecordMoves, MovesTyped DEF UncacheRecord, Typed, StoreType
  <2>8. CASE InsertRow(w)
    BY <2>8, InsertRowMoves, MovesTyped DEF InsertRow, Typed, StoreType
  <2>9. CASE UpdateRow(w)
    BY <2>9, UpdateRowMoves, MovesTyped DEF UpdateRow, Typed, StoreType
  <2>10. CASE UncacheRow(w)
    <3>1. cachedRow' \in Rows \cup {MissRow} /\ undeletedRow' \in BOOLEAN
      BY <2>10, DeletionTyped DEF UncacheRow
    <3> QED
      BY <2>10, <3>1, UncacheRowMoves, MovesTyped DEF UncacheRow, Typed, StoreType
  <2>13. CASE LoadRecord(w)
    BY <2>13, LoadRecordMoves, MovesTyped DEF LoadRecord, Typed, StoreType
  <2>14. CASE StoreRecord(w)
    BY <2>14, StoreRecordMoves, MovesTyped DEF StoreRecord, Typed, StoreType
  <2>15. CASE LoadRow(w)
    BY <2>15, LoadRowMoves, MovesTyped DEF LoadRow, Typed, StoreType
  <2>16. CASE StoreRow(w)
    BY <2>16, StoreRowMoves, MovesTyped DEF StoreRow, Typed, StoreType
  <2>11. CASE Commit(w)
    BY <2>11, CommitTyped, EndTyped DEF Commit, Typed, StoreType
  <2>12. CASE Rollback(w)
    BY <2>12, EndTyped DEF Rollback, Typed, StoreType
  <2> QED
    BY <1>1, <2>1, <2>2, <2>3, <2>4, <2>5, <2>6, <2>7, <2>8, <2>9, <2>10, <2>11, <2>12,
       <2>13, <2>14, <2>15, <2>16 DEF Work
<1>2. ASSUME NEW w \in Processor, Fail(w) PROVE Typed'
  BY <1>2, EndTyped DEF Fail, Typed, StoreType
<1>3. ASSUME NEW w \in Processor, NEW m \in Message, Take(w, m) PROVE Typed'
  <2>1. left' \in [Message -> 0 .. MaxDeliveries]
    BY <1>3 DEF Take, Typed
  <2>2. CASE Valid(m)
    BY <1>3, <2>1, <2>2, TakeTyped DEF Take, Typed, StoreType
  <2>3. CASE ~ Valid(m)
    BY <1>3, <2>1, <2>3 DEF Take, Typed, StoreType, TxType
  <2> QED
    BY <2>2, <2>3
<1>4. ASSUME NEW r \in Reader, NEW u \in User, ReadRecord(r, u) PROVE Typed'
  <2>1. [table |-> "record", user |-> u, value |-> record[u]] \in Fills
    BY DEF Typed, StoreType, Fills
  <2> QED
    BY <1>4, <2>1 DEF ReadRecord, Typed, StoreType, TxType
<1>5. ASSUME NEW r \in Reader, ReadRow(r) PROVE Typed'
  <2>1. [table |-> "row", value |-> row] \in Fills
    BY DEF Typed, StoreType, Fills
  <2> QED
    BY <1>5, <2>1 DEF ReadRow, Typed, StoreType, TxType
<1>6. ASSUME NEW r \in Reader, FillCache(r) PROVE Typed'
  <2>1. fill' \in [Reader -> Fills]
    BY <1>6 DEF FillCache, Typed, Fills
  <2>2. /\ fill[r].table = "row" => fill[r].value \in Rows
        /\ fill[r].table # "row" => fill[r].user \in User /\ fill[r].value \in Votes
    BY <1>6 DEF FillCache, Typed, Fills
  <2>3. StoreType'
    BY <1>6, <2>2, CacheTyped DEF FillCache, Typed, StoreType
  <2> QED
    BY <1>6, <2>1, <2>3 DEF FillCache, Typed, TxType
<1>7. ASSUME NEW u \in User, ExpireRecord(u) PROVE Typed'
  BY <1>7 DEF ExpireRecord, Typed, StoreType, TxType
<1>8. CASE ExpireRow
  BY <1>8 DEF ExpireRow, Typed, StoreType, TxType
<1>9. CASE UNCHANGED vars
  BY <1>9 DEF vars, Typed, StoreType, TxType
<1> QED
  BY <1>1, <1>2, <1>3, <1>4, <1>5, <1>6, <1>7, <1>8, <1>9 DEF Next

LEMMA TypedInit == Init => Typed
<1> SUFFICES ASSUME Init PROVE Typed
  OBVIOUS
<1>1. undeletedRow \in BOOLEAN /\ undeletedRecords \in SUBSET User
  BY DEF Init
<1>2. /\ left = [m \in Message |-> MaxDeliveries]
      /\ pc = [w \in Processor |-> "idle"]
      /\ tx = [w \in Processor |-> NoTx]
      /\ fill = [r \in Reader |-> NoFill]
  BY DEF Init
<1>3. /\ record \in [User -> Votes] /\ row \in Rows
      /\ cachedRecord \in [User -> Votes \cup {Miss}] /\ cachedRow \in Rows \cup {MissRow}
      /\ applied \in CachedCounts /\ recorded \in [User -> SUBSET LikeTypes]
  BY DEF Init, Rows, CachedCounts, NoCounts, Votes
<1> QED
  BY <1>1, <1>2, <1>3 DEF Typed, StoreType, TxType, Phases, Fills

LEMMA TypedHolds == Spec => []Typed
BY TypedInit, TypedStep, PTL DEF Spec

\* No deletion of a cached row has failed, or what it left is gone.
Clean == undeletedRecords = {} /\ undeletedRow = FALSE

\* What a failed deletion leaves is noted.
Noted == stale \in BOOLEAN /\ (stale = FALSE => Clean)

LEMMA NotedStep ==
    ASSUME Noted, [Next]_vars
    PROVE  Noted' /\ (stale' = FALSE => stale = FALSE)
<1> USE DEF Noted, Clean, Cache
<1> DEFINE Goal == Noted' /\ (stale' = FALSE => stale = FALSE)
<1>1. ASSUME NEW w \in Processor, Work(w) PROVE Goal
  <2>1. CASE UncacheRecord(w)
    <3>1. /\ DeleteRecord(UserOf(w))
          /\ undeletedRow' = undeletedRow
      BY <2>1 DEF UncacheRecord, rowCache
    <3>2. CASE /\ undeletedRecords' = undeletedRecords \ {UserOf(w)}
               /\ UNCHANGED stale
      BY <3>1, <3>2
    <3>3. CASE /\ undeletedRecords' = IF cachedRecord[UserOf(w)] = Miss THEN undeletedRecords
                                       ELSE undeletedRecords \cup {UserOf(w)}
               /\ stale' = (stale \/ cachedRecord[UserOf(w)] # Miss)
      BY <3>1, <3>3
    <3> QED
      BY <3>1, <3>2, <3>3 DEF DeleteRecord
  <2>2. CASE UncacheRow(w)
    <3>1. DeleteRow /\ undeletedRecords' = undeletedRecords
      BY <2>2 DEF UncacheRow, recordCache
    <3> QED
      BY <3>1 DEF DeleteRow
  <2> QED
    BY <1>1, <2>1, <2>2 DEF Work, FindRecord, FillRecord, FindRow, FillRow, InsertRecord,
       LoadRecord, StoreRecord, UpdateRecord, InsertRow, LoadRow, StoreRow, UpdateRow,
       Commit, Rollback, recordCache, rowCache
<1>2. ASSUME NEW w \in Processor, Fail(w) PROVE Goal
  BY <1>2 DEF Fail, recordCache, rowCache
<1>3. ASSUME NEW w \in Processor, NEW m \in Message, Take(w, m) PROVE Goal
  BY <1>3 DEF Take, recordCache, rowCache
<1>4. ASSUME NEW r \in Reader, ReadRow(r) \/ FillCache(r) PROVE Goal
  BY <1>4 DEF ReadRow, FillCache, recordCache, rowCache
<1>5. ASSUME NEW r \in Reader, NEW u \in User, ReadRecord(r, u) PROVE Goal
  BY <1>5 DEF ReadRecord, recordCache, rowCache
<1>6. ASSUME NEW u \in User, ExpireRecord(u) PROVE Goal
  BY <1>6 DEF ExpireRecord, rowCache
<1>7. CASE ExpireRow
  BY <1>7 DEF ExpireRow, recordCache
<1>8. CASE UNCHANGED vars
  BY <1>8 DEF vars, recordCache, rowCache
<1> QED
  BY <1>1, <1>2, <1>3, <1>4, <1>5, <1>6, <1>7, <1>8 DEF Next

LEMMA NotedHolds == Spec => []Noted
<1>1. Init => Noted
  BY DEF Init, Noted, Clean
<1> QED
  BY <1>1, NotedStep, PTL DEF Spec

\* The declared types, for any users, messages, processors and readers: a
\* processor between Take and End has a valid message and well-formed reads and
\* writes, and an idle one holds nothing.
THEOREM TypeCorrect == Spec => []TypeOK
<1>1. Typed /\ Noted => TypeOK
  BY DEF Typed, TxType, StoreType, TypeOK, Transaction, Noted
<1> QED
  BY <1>1, TypedHolds, NotedHolds, PTL

--------------------------------------------------------------------------------
(* No counted vote is invented.  Whatever counts are in sight - the row, the   *)
(* cache, a snapshot, a pending fill, what a transaction read - are within the *)
(* votes recorded so far; a transaction that will write counts will also       *)
(* record its own vote when it commits.                                        *)

Within(c) == c.like <= applied.like /\ c.dislike <= applied.dislike

\* Counts within the recorded votes and one more vote of type t.
WithinNext(c, t) ==
    /\ c.like <= applied.like + (IF t = LikeTypeThumbup THEN 1 ELSE 0)
    /\ c.dislike <= applied.dislike + (IF t = LikeTypeThumbup THEN 0 ELSE 1)

\* The phases between the statement on like_record and the commit.
Counting == {"uncacheRecord", "findRow", "fillRow", "insertRow", "refindRow",
             "refillRow", "loadRow", "storeRow", "updateRow", "uncacheRow"}

Cautious(phase, t) ==
    /\ \A s \in t.snap : Within(s.row)
    /\ Within(t.base)
    /\ phase \in Counting => t.record # Miss
    /\ t.row # MissRow => t.record # Miss /\ WithinNext(t.row, t.msg.type)

CacheWithin ==
    /\ Within(cachedRow)
    /\ \A r \in Reader : fill[r].table = "row" => Within(fill[r].value)

Sound ==
    /\ Within(row)
    /\ CacheWithin
    /\ \A w \in Processor : pc[w] # "idle" => Cautious(pc[w], tx[w])

\* A step of w that changes neither like_count nor the recorded votes.
LEMMA SoundMove ==
    ASSUME Typed, Sound, NEW w \in Processor, pc[w] # "idle", NEW phase, NEW t,
           Moves(w, phase, t), Cautious(phase, t), Database, UNCHANGED fill,
           Within(cachedRow')
    PROVE  Sound'
<1>1. pc'[w] = phase /\ tx'[w] = t /\ applied' = applied /\ row' = row
  BY DEF Typed, Moves, Database
<1>2. Within(row)' /\ CacheWithin'
  BY <1>1 DEF Sound, CacheWithin, Within
<1>3. ASSUME NEW v \in Processor, pc'[v] # "idle" PROVE Cautious(pc[v], tx[v])'
  <2>1. CASE v = w
    BY <1>1, <2>1 DEF Cautious, Within, WithinNext
  <2>2. CASE v # w
    <3>1. pc'[v] = pc[v] /\ tx'[v] = tx[v]
      BY <2>2 DEF Typed, Moves
    <3> QED
      BY <1>1, <1>3, <3>1 DEF Sound, Cautious, Within, WithinNext
  <2> QED
    BY <2>1, <2>2
<1> QED
  BY <1>2, <1>3 DEF Sound

\* A step that changes no processor's transaction, like_count or recorded vote.
LEMMA SoundElsewhere ==
    ASSUME Sound, UNCHANGED <<pc, tx>>, Database, CacheWithin'
    PROVE  Sound'
BY DEF Sound, Database, Cautious, Within, WithinNext

\* What w reads of the counts is within the recorded votes.
LEMMA ViewWithin ==
    ASSUME Typed, Sound, NEW w \in Processor, pc[w] # "idle"
    PROVE  Within(View(w).row)
<1>1. CASE tx[w].snap = {}
  BY <1>1 DEF View, Sound
<1>2. CASE tx[w].snap # {}
  <2>1. (CHOOSE s \in tx[w].snap : TRUE) \in tx[w].snap
    BY <1>2
  <2> QED
    BY <1>2, <2>1 DEF View, Sound, Cautious
<1> QED
  BY <1>1, <1>2

\* Counts that were within the recorded votes, moved by one vote's delta, are
\* within those votes and the one that is about to be recorded.
LEMMA ShiftWithin ==
    ASSUME NEW c \in Rows, NEW old \in Votes, NEW t \in LikeTypes, Typed, Within(c)
    PROVE  WithinNext(Shift(c, VoteDelta(old, t)), t)
<1>1. c.like \in Int /\ c.dislike \in Int
  BY DEF Rows, CachedCounts, NoRow, NoVote
<1>2. applied.like \in Nat /\ applied.dislike \in Nat
  BY DEF Typed, StoreType, CachedCounts
<1>3. /\ c.like <= applied.like /\ c.dislike <= applied.dislike
  BY DEF Within
<1> DEFINE d == VoteDelta(old, t)
<1>4. /\ d.like \in Int /\ d.dislike \in Int
      /\ d.like <= (IF t = LikeTypeThumbup THEN 1 ELSE 0)
      /\ d.dislike <= (IF t = LikeTypeThumbup THEN 0 ELSE 1)
  BY DEF VoteDelta, CalcInsertDelta, CalcSwitchDelta, Votes, LikeTypes, NoVote,
         LikeTypeThumbup, LikeTypeThumbdown
<1> HIDE DEF d
<1>5. Shift(c, d).like <= applied.like + (IF t = LikeTypeThumbup THEN 1 ELSE 0)
  BY <1>1, <1>2, <1>3, <1>4 DEF Shift, MaxInt64
<1>6. Shift(c, d).dislike <= applied.dislike + (IF t = LikeTypeThumbup THEN 0 ELSE 1)
  BY <1>1, <1>2, <1>3, <1>4 DEF Shift, MaxInt64
<1> QED
  BY <1>5, <1>6 DEF WithinNext, d

\* Committed: the recorded votes grow by the vote of w and nobody's counts do
\* except those w writes.
LEMMA SoundCommit ==
    ASSUME Typed, Sound, NEW w \in Processor, Commit(w)
    PROVE  Sound'
<1> USE DEF Cache, Others
<1>1. pc[w] # "idle" /\ Cautious(pc[w], tx[w])
  BY DEF Commit, Sound
<1>2. /\ tx[w] \in Transaction /\ TypeOf(w) \in LikeTypes
  BY <1>1, Busy
<1>3. applied.like \in Nat /\ applied.dislike \in Nat
  BY DEF Typed, StoreType, CachedCounts
<1>4. /\ applied'.like \in Nat /\ applied'.dislike \in Nat
      /\ applied'.like >= applied.like /\ applied'.dislike >= applied.dislike
  BY <1>3 DEF Commit, Typed, StoreType, CachedCounts
<1>5. ASSUME NEW c \in Rows \cup {MissRow}, Within(c)
      PROVE  c.like <= applied'.like /\ c.dislike <= applied'.dislike
  <2>1. c.like \in Int /\ c.dislike \in Int
    BY DEF Rows, CachedCounts, NoRow, NoVote, MissRow, Miss
  <2> QED
    BY <1>3, <1>4, <1>5, <2>1 DEF Within
<1>6. Within(row)'
  <2>1. CASE tx[w].row = MissRow
    <3>1. row' = row /\ row \in Rows
      BY <2>1 DEF Commit, Typed, StoreType
    <3> QED
      BY <1>5, <3>1 DEF Sound, Within
  <2>2. CASE tx[w].row # MissRow
    <3>1. tx[w].record # Miss /\ WithinNext(tx[w].row, TypeOf(w)) /\ row' = tx[w].row
      BY <1>1, <2>2 DEF Cautious, TypeOf, Commit
    <3>2. /\ applied'.like = applied.like + (IF TypeOf(w) = LikeTypeThumbup THEN 1 ELSE 0)
          /\ applied'.dislike = applied.dislike + (IF TypeOf(w) = LikeTypeThumbup THEN 0 ELSE 1)
      BY <1>3, <3>1 DEF Commit, Typed, StoreType, CachedCounts
    <3> QED
      BY <3>1, <3>2 DEF WithinNext, Within
  <2> QED
    BY <2>1, <2>2
<1>7. CacheWithin'
  <2>1. cachedRow' = cachedRow /\ cachedRow \in Rows \cup {MissRow} /\ fill' = fill
    BY DEF Commit, Typed, StoreType
  <2>2. Within(cachedRow)'
    BY <1>5, <2>1 DEF Sound, CacheWithin, Within
  <2>3. ASSUME NEW r \in Reader, fill[r].table = "row" PROVE Within(fill[r].value)'
    <3>1. fill[r].value \in Rows
      BY <2>3 DEF Typed, Fills, NoFill
    <3>2. Within(fill[r].value)
      BY <2>3 DEF Sound, CacheWithin
    <3> QED
      BY <1>5, <2>1, <3>1, <3>2 DEF Within
  <2> QED
    BY <2>1, <2>2, <2>3 DEF CacheWithin
<1>8. ASSUME NEW v \in Processor, pc'[v] # "idle" PROVE Cautious(pc[v], tx[v])'
  <2>1. pc'[v] = pc[v] /\ tx'[v] = tx[v] /\ pc[v] # "idle"
    BY <1>8 DEF Commit, End, Goto, Typed
  <2>2. tx[v] \in Transaction /\ Cautious(pc[v], tx[v]) /\ tx[v].msg.type \in LikeTypes
    BY <2>1, Busy DEF Sound, TypeOf
  <2>3. \A s \in tx[v].snap : Within(s.row)'
    <3>1. ASSUME NEW s \in tx[v].snap PROVE s.row \in Rows /\ Within(s.row)
      BY <2>2 DEF Transaction, Snapshot, Cautious
    <3> QED
      BY <1>5, <3>1 DEF Within
  <2>4. Within(tx[v].base)'
    BY <1>5, <2>1, <2>2 DEF Cautious, Transaction, Within
  <2>5. ASSUME tx[v].row # MissRow
        PROVE  /\ tx[v].row.like <= applied'.like
                    + (IF tx[v].msg.type = LikeTypeThumbup THEN 1 ELSE 0)
               /\ tx[v].row.dislike <= applied'.dislike
                    + (IF tx[v].msg.type = LikeTypeThumbup THEN 0 ELSE 1)
    <3>1. tx[v].row.like \in Nat /\ tx[v].row.dislike \in Nat
      BY <2>2, <2>5 DEF Transaction, CachedCounts
    <3>2. WithinNext(tx[v].row, tx[v].msg.type)
      BY <2>2, <2>5 DEF Cautious
    <3> QED
      BY <1>3, <1>4, <3>1, <3>2 DEF WithinNext
  <2> QED
    BY <2>1, <2>2, <2>3, <2>4, <2>5 DEF Cautious, WithinNext
<1> QED
  BY <1>6, <1>7, <1>8 DEF Sound

LEMMA SoundEnd ==
    ASSUME Typed, Sound, NEW w \in Processor, End(w), Database, Cache, UNCHANGED fill
    PROVE  Sound'
<1>1. Within(row)' /\ CacheWithin'
  BY DEF Sound, CacheWithin, Within, Database, Cache
<1>2. ASSUME NEW v \in Processor, pc'[v] # "idle" PROVE Cautious(pc[v], tx[v])'
  <2>1. pc'[v] = pc[v] /\ tx'[v] = tx[v] /\ pc[v] # "idle"
    BY <1>2 DEF End, Goto, Typed
  <2> QED
    BY <2>1 DEF Sound, Cautious, Within, WithinNext, Database
<1> QED
  BY <1>1, <1>2 DEF Sound

LEMMA SoundWork ==
    ASSUME Typed, Sound, NEW w \in Processor, Work(w)
    PROVE  Sound'
<1> USE DEF Others, Cache
<1>0. Within(cachedRow) /\ (pc[w] # "idle" => Cautious(pc[w], tx[w]))
  BY DEF Sound, CacheWithin
<1>1. CASE \E again \in BOOLEAN : FindRecord(w, again)
  <2>1. PICK again \in BOOLEAN : FindRecord(w, again)
    BY <1>1
  <2>2. /\ pc[w] # "idle" /\ pc[w] \notin Counting /\ Database
        /\ cachedRow' = cachedRow /\ fill' = fill
    BY <2>1 DEF FindRecord, Counting
  <2>3. tx[w] \in Transaction /\ Within(View(w).row)
    BY <2>2, Busy, ViewWithin
  <2>4. CASE cachedRecord[UserOf(w)] # Miss
    <3> DEFINE phase == Decide(w, cachedRecord[UserOf(w)], again)
               t == [tx[w] EXCEPT !.old = cachedRecord[UserOf(w)]]
    <3>1. Moves(w, phase, t)
      BY <2>1, <2>4, FindRecordMoves
    <3>2. t.snap = tx[w].snap /\ t.base = tx[w].base /\ t.row = tx[w].row
          /\ t.record = tx[w].record /\ t.msg = tx[w].msg
      BY <2>3 DEF Transaction
    <3>3. phase \notin Counting
      BY DEF Decide, Counting
    <3> HIDE DEF phase, t
    <3>4. Cautious(phase, t)
      BY <1>0, <2>2, <3>2, <3>3 DEF Cautious
    <3> QED
      BY <1>0, <2>2, <3>1, <3>4, SoundMove
  <2>5. CASE cachedRecord[UserOf(w)] = Miss
    <3> DEFINE phase == IF again THEN "refillRecord" ELSE "fillRecord"
               t == [tx[w] EXCEPT !.old = View(w).record[UserOf(w)], !.snap = {View(w)}]
    <3>1. Moves(w, phase, t)
      BY <2>1, <2>5, FindRecordMoves
    <3>2. t.snap = {View(w)} /\ t.base = tx[w].base /\ t.row = tx[w].row
          /\ t.record = tx[w].record /\ t.msg = tx[w].msg
      BY <2>3 DEF Transaction
    <3>3. phase \notin Counting
      BY DEF Counting
    <3> HIDE DEF phase, t
    <3>4. Cautious(phase, t)
      BY <1>0, <2>2, <2>3, <3>2, <3>3 DEF Cautious
    <3> QED
      BY <1>0, <2>2, <3>1, <3>4, SoundMove
  <2> QED
    BY <2>4, <2>5
<1>2. CASE \E again \in BOOLEAN : FillRecord(w, again)
  <2>1. PICK again \in BOOLEAN : FillRecord(w, again)
    BY <1>2
  <2>2. /\ pc[w] # "idle" /\ pc[w] \notin Counting /\ Database
        /\ cachedRow' = cachedRow /\ fill' = fill
    BY <2>1 DEF FillRecord, Counting
  <2>3. Moves(w, Decide(w, tx[w].old, again), tx[w])
    BY <2>1, FillRecordMoves
  <2>4. Cautious(Decide(w, tx[w].old, again), tx[w])
    BY <1>0, <2>2 DEF Cautious, Decide, Counting
  <2> QED
    BY <1>0, <2>2, <2>3, <2>4, SoundMove
<1>3. CASE \E again \in BOOLEAN : FindRow(w, again)
  <2>1. PICK again \in BOOLEAN : FindRow(w, again)
    BY <1>3
  <2>2. /\ pc[w] # "idle" /\ pc[w] \in Counting /\ Database
        /\ cachedRow' = cachedRow /\ fill' = fill
    BY <2>1 DEF FindRow, Counting
  <2>3. tx[w] \in Transaction /\ Within(View(w).row)
    BY <2>2, Busy, ViewWithin
  <2>4. CASE cachedRow # MissRow
    <3> DEFINE phase == DecideRow(cachedRow, again)
               t == [tx[w] EXCEPT !.base = cachedRow]
    <3>1. Moves(w, phase, t)
      BY <2>1, <2>4, FindRowMoves
    <3>2. t.snap = tx[w].snap /\ t.base = cachedRow /\ t.row = tx[w].row
          /\ t.record = tx[w].record /\ t.msg = tx[w].msg
      BY <2>3 DEF Transaction
    <3> HIDE DEF phase, t
    <3>4. Cautious(phase, t)
      BY <1>0, <2>2, <3>2 DEF Cautious
    <3> QED
      BY <1>0, <2>2, <3>1, <3>4, SoundMove
  <2>5. CASE cachedRow = MissRow
    <3> DEFINE phase == IF again THEN "refillRow" ELSE "fillRow"
               t == [tx[w] EXCEPT !.base = View(w).row, !.snap = {View(w)}]
    <3>1. Moves(w, phase, t)
      BY <2>1, <2>5, FindRowMoves
    <3>2. t.snap = {View(w)} /\ t.base = View(w).row /\ t.row = tx[w].row
          /\ t.record = tx[w].record /\ t.msg = tx[w].msg
      BY <2>3 DEF Transaction
    <3> HIDE DEF phase, t
    <3>4. Cautious(phase, t)
      BY <1>0, <2>2, <2>3, <3>2 DEF Cautious
    <3> QED
      BY <1>0, <2>2, <3>1, <3>4, SoundMove
  <2> QED
    BY <2>4, <2>5
<1>4. CASE \E again \in BOOLEAN : FillRow(w, again)
  <2>1. PICK again \in BOOLEAN : FillRow(w, again)
    BY <1>4
  <2>2. /\ pc[w] # "idle" /\ pc[w] \in Counting /\ Database /\ fill' = fill
    BY <2>1 DEF FillRow, Counting
  <2>3. Moves(w, DecideRow(tx[w].base, again), tx[w])
    BY <2>1, FillRowMoves
  <2>4. Cautious(DecideRow(tx[w].base, again), tx[w])
    BY <1>0, <2>2 DEF Cautious
  <2>5. Within(cachedRow')
    BY <1>0, <2>1, <2>2 DEF FillRow, CacheRow, Cautious
  <2> QED
    BY <2>2, <2>3, <2>4, <2>5, SoundMove
<1>5. CASE InsertRecord(w)
  <2>1. /\ pc[w] # "idle" /\ pc[w] \notin Counting /\ Database
        /\ cachedRow' = cachedRow /\ fill' = fill /\ tx[w] \in Transaction
        /\ TypeOf(w) # Miss
    BY <1>5, Busy DEF InsertRecord, Counting, LikeTypes, Miss, LikeTypeThumbup,
                      LikeTypeThumbdown
  <2> DEFINE t == [tx[w] EXCEPT !.record = TypeOf(w)]
  <2>2. t.snap = tx[w].snap /\ t.base = tx[w].base /\ t.row = tx[w].row
        /\ t.record = TypeOf(w) /\ t.msg = tx[w].msg
    BY <2>1 DEF Transaction
  <2>3. Moves(w, "uncacheRecord", t) \/ Moves(w, "refindRecord", tx[w])
    BY <1>5, InsertRecordMoves
  <2> HIDE DEF t
  <2>4. Cautious("uncacheRecord", t) /\ Cautious("refindRecord", tx[w])
    BY <1>0, <2>1, <2>2 DEF Cautious, Counting
  <2> QED
    BY <1>0, <2>1, <2>3, <2>4, SoundMove
<1>6. CASE UpdateRecord(w)
  <2>1. /\ pc[w] # "idle" /\ pc[w] \notin Counting /\ Database
        /\ cachedRow' = cachedRow /\ fill' = fill /\ tx[w] \in Transaction
        /\ TypeOf(w) # Miss
    BY <1>6, Busy DEF UpdateRecord, Counting, LikeTypes, Miss, LikeTypeThumbup,
                      LikeTypeThumbdown
  <2> DEFINE t == [tx[w] EXCEPT !.record = TypeOf(w)]
  <2>2. t.snap = tx[w].snap /\ t.base = tx[w].base /\ t.row = tx[w].row
        /\ t.record = TypeOf(w) /\ t.msg = tx[w].msg
    BY <2>1 DEF Transaction
  <2>3. Moves(w, "uncacheRecord", t)
    BY <1>6, UpdateRecordMoves
  <2> HIDE DEF t
  <2>4. Cautious("uncacheRecord", t)
    BY <1>0, <2>1, <2>2 DEF Cautious, Counting
  <2> QED
    BY <1>0, <2>1, <2>3, <2>4, SoundMove
<1>13. CASE LoadRecord(w)
  <2>1. /\ pc[w] # "idle" /\ pc[w] \notin Counting /\ Database
        /\ cachedRow' = cachedRow /\ fill' = fill
    BY <1>13 DEF LoadRecord, Counting
  <2>2. CASE Moves(w, "updateRecord", tx[w])
    <3>1. Cautious("updateRecord", tx[w])
      BY <1>0, <2>1 DEF Cautious, Counting
    <3> QED
      BY <1>0, <2>1, <2>2, <3>1, SoundMove
  <2> DEFINE phase == IF View(w).record[UserOf(w)] = NoVote THEN "rollback" ELSE "storeRecord"
             t == [tx[w] EXCEPT !.snap = {View(w)}]
  <2>3. CASE Moves(w, phase, t)
    <3>1. tx[w] \in Transaction /\ Within(View(w).row)
      BY <2>1, Busy, ViewWithin
    <3>2. t.snap = {View(w)} /\ t.base = tx[w].base /\ t.row = tx[w].row
          /\ t.record = tx[w].record /\ t.msg = tx[w].msg
      BY <3>1 DEF Transaction
    <3>3. phase \notin Counting
      BY DEF Counting
    <3>4. Moves(w, phase, t)
      BY <2>3
    <3> HIDE DEF phase, t
    <3>5. Cautious(phase, t)
      BY <1>0, <2>1, <3>1, <3>2, <3>3 DEF Cautious
    <3> QED
      BY <1>0, <2>1, <3>4, <3>5, SoundMove
  <2> QED
    BY <1>13, <2>2, <2>3, LoadRecordMoves
<1>14. CASE StoreRecord(w)
  <2>1. /\ pc[w] # "idle" /\ pc[w] \notin Counting /\ Database
        /\ cachedRow' = cachedRow /\ fill' = fill
    BY <1>14 DEF StoreRecord, Counting
  <2>2. Cautious("updateRecord", tx[w])
    BY <1>0, <2>1 DEF Cautious, Counting
  <2> QED
    BY <1>0, <1>14, <2>1, <2>2, StoreRecordMoves, SoundMove
<1>7. CASE UncacheRecord(w)
  <2>1. /\ pc[w] # "idle" /\ pc[w] \in Counting /\ Database
        /\ cachedRow' = cachedRow /\ fill' = fill
    BY <1>7 DEF UncacheRecord, Counting
  <2> QED
    BY <1>0, <1>7, <2>1, UncacheRecordMoves, SoundMove DEF Cautious
<1>8. CASE InsertRow(w)
  <2>1. /\ pc[w] # "idle" /\ pc[w] \in Counting /\ Database
        /\ cachedRow' = cachedRow /\ fill' = fill
        /\ tx[w] \in Transaction /\ TypeOf(w) \in LikeTypes
    BY <1>8, Busy DEF InsertRow, Counting
  <2> DEFINE t == [tx[w] EXCEPT !.row = Shift(NoCounts, Delta(w))]
  <2>2. t.snap = tx[w].snap /\ t.base = tx[w].base /\ t.row = Shift(NoCounts, Delta(w))
        /\ t.record = tx[w].record /\ t.msg = tx[w].msg
    BY <2>1 DEF Transaction
  <2>3. Moves(w, "uncacheRow", t) \/ Moves(w, "refindRow", tx[w])
    BY <1>8, InsertRowMoves
  <2>4. WithinNext(Shift(NoCounts, Delta(w)), TypeOf(w))
    <3>1. NoCounts \in Rows /\ Within(NoCounts) /\ tx[w].old \in Votes
      BY <2>1 DEF NoCounts, Rows, CachedCounts, Within, Typed, StoreType, Transaction
    <3> QED
      BY <2>1, <3>1, ShiftWithin DEF Delta
  <2> HIDE DEF t
  <2>5. Cautious("uncacheRow", t) /\ Cautious("refindRow", tx[w])
    BY <1>0, <2>1, <2>2, <2>4 DEF Cautious, TypeOf
  <2> QED
    BY <1>0, <2>1, <2>3, <2>5, SoundMove
<1>9. CASE UpdateRow(w)
  <2>1. /\ pc[w] # "idle" /\ pc[w] \in Counting /\ Database
        /\ cachedRow' = cachedRow /\ fill' = fill
        /\ tx[w] \in Transaction /\ TypeOf(w) \in LikeTypes
    BY <1>9, Busy DEF UpdateRow, Counting
  <2> DEFINE t == [tx[w] EXCEPT !.row = Shift(tx[w].base, Delta(w))]
  <2>2. t.snap = tx[w].snap /\ t.base = tx[w].base /\ t.row = Shift(tx[w].base, Delta(w))
        /\ t.record = tx[w].record /\ t.msg = tx[w].msg
    BY <2>1 DEF Transaction
  <2>3. Moves(w, "uncacheRow", t)
    BY <1>9, UpdateRowMoves
  <2>4. WithinNext(Shift(tx[w].base, Delta(w)), TypeOf(w))
    <3>1. tx[w].base \in Rows /\ Within(tx[w].base) /\ tx[w].old \in Votes
      BY <1>0, <2>1 DEF Transaction, Cautious
    <3> QED
      BY <2>1, <3>1, ShiftWithin DEF Delta
  <2> HIDE DEF t
  <2>5. Cautious("uncacheRow", t)
    BY <1>0, <2>1, <2>2, <2>4 DEF Cautious, TypeOf
  <2> QED
    BY <1>0, <2>1, <2>3, <2>5, SoundMove
<1>15. CASE LoadRow(w)
  <2>1. /\ pc[w] # "idle" /\ pc[w] \in Counting /\ Database
        /\ cachedRow' = cachedRow /\ fill' = fill
    BY <1>15 DEF LoadRow, Counting
  <2>2. CASE Moves(w, "updateRow", tx[w])
    <3>1. Cautious("updateRow", tx[w])
      BY <1>0, <2>1 DEF Cautious
    <3> QED
      BY <1>0, <2>1, <2>2, <3>1, SoundMove
  <2> DEFINE phase == IF View(w).row = NoRow THEN "rollback" ELSE "storeRow"
             t == [tx[w] EXCEPT !.snap = {View(w)}]
  <2>3. CASE Moves(w, phase, t)
    <3>1. tx[w] \in Transaction /\ Within(View(w).row)
      BY <2>1, Busy, ViewWithin
    <3>2. t.snap = {View(w)} /\ t.base = tx[w].base /\ t.row = tx[w].row
          /\ t.record = tx[w].record /\ t.msg = tx[w].msg
      BY <3>1 DEF Transaction
    <3>3. Moves(w, phase, t)
      BY <2>3
    <3> HIDE DEF phase, t
    <3>4. Cautious(phase, t)
      BY <1>0, <2>1, <3>1, <3>2 DEF Cautious
    <3> QED
      BY <1>0, <2>1, <3>3, <3>4, SoundMove
  <2> QED
    BY <1>15, <2>2, <2>3, LoadRowMoves
<1>16. CASE StoreRow(w)
  <2>1. /\ pc[w] # "idle" /\ pc[w] \in Counting /\ Database /\ fill' = fill
    BY <1>16 DEF StoreRow, Counting
  <2>2. Cautious("updateRow", tx[w])
    BY <1>0, <2>1 DEF Cautious
  <2>3. Within(cachedRow')
    BY <1>0, <1>16, <2>1, ViewWithin DEF StoreRow
  <2> QED
    BY <1>16, <2>1, <2>2, <2>3, StoreRowMoves, SoundMove
<1>10. CASE UncacheRow(w)
  <2>1. /\ pc[w] # "idle" /\ Database /\ fill' = fill
        /\ cachedRow' \in {MissRow, cachedRow}
    BY <1>10, DeletionTyped DEF UncacheRow
  <2>2. Within(cachedRow')
    BY <1>0, <2>1 DEF Within, MissRow, Miss, Typed, StoreType, CachedCounts
  <2>3. Cautious("commit", tx[w])
    BY <1>0, <2>1 DEF Cautious, Counting
  <2> QED
    BY <1>10, <2>1, <2>2, <2>3, UncacheRowMoves, SoundMove
<1>11. CASE Commit(w)
  BY <1>11, SoundCommit
<1>12. CASE Rollback(w)
  BY <1>12, SoundEnd DEF Rollback
<1> QED
  BY <1>1, <1>2, <1>3, <1>4, <1>5, <1>6, <1>7, <1>8, <1>9, <1>10, <1>11, <1>12,
     <1>13, <1>14, <1>15, <1>16 DEF Work

LEMMA SoundStep == Typed /\ Sound /\ [Next]_vars => Sound'
<1> SUFFICES ASSUME Typed, Sound, [Next]_vars PROVE Sound'
  OBVIOUS
<1>0. applied.like \in Nat /\ applied.dislike \in Nat
  BY DEF Typed, StoreType, CachedCounts
<1>1. ASSUME NEW w \in Processor, Work(w) PROVE Sound'
  BY <1>1, SoundWork
<1>2. ASSUME NEW w \in Processor, Fail(w) PROVE Sound'
  BY <1>2, SoundEnd DEF Fail, Others
<1>3. ASSUME NEW w \in Processor, NEW m \in Message, Take(w, m) PROVE Sound'
  <2>1. CacheWithin' /\ Within(row)'
    BY <1>3 DEF Take, Cache, Database, Sound, CacheWithin, Within
  <2>2. CASE Valid(m)
    <3>1. pc' = [pc EXCEPT ![w] = "findRecord"] /\ tx' = [tx EXCEPT ![w] = Begun(m)]
      BY <1>3, <2>2, TakeTyped
    <3>2. Cautious("findRecord", Begun(m))
      BY <1>0 DEF Cautious, Begun, Within, NoRow, NoVote, Counting
    <3>3. ASSUME NEW v \in Processor, pc'[v] # "idle" PROVE Cautious(pc[v], tx[v])'
      <4>1. CASE v = w
        BY <1>3, <3>1, <3>2, <4>1 DEF Typed, Take, Database, Cautious, Within, WithinNext
      <4>2. CASE v # w
        <5>1. pc'[v] = pc[v] /\ tx'[v] = tx[v]
          BY <3>1, <4>2 DEF Typed
        <5> QED
          BY <1>3, <3>3, <5>1 DEF Take, Database, Sound, Cautious, Within, WithinNext
      <4> QED
        BY <4>1, <4>2
    <3> QED
      BY <2>1, <3>3 DEF Sound
  <2>3. CASE ~ Valid(m)
    BY <1>3, <2>1, <2>3, SoundElsewhere DEF Take
  <2> QED
    BY <2>2, <2>3
<1>4. ASSUME NEW r \in Reader, NEW u \in User, ReadRecord(r, u) PROVE Sound'
  BY <1>4, SoundElsewhere DEF ReadRecord, Typed, Sound, CacheWithin, Within, Database, Cache
<1>5. ASSUME NEW r \in Reader, ReadRow(r) PROVE Sound'
  BY <1>5, SoundElsewhere DEF ReadRow, Typed, Sound, CacheWithin, Within, Database, Cache
<1>6. ASSUME NEW r \in Reader, FillCache(r) PROVE Sound'
  <2>1. Within(cachedRow)'
    BY <1>6 DEF FillCache, CacheRow, Sound, CacheWithin, Within, Database
  <2>2. ASSUME NEW q \in Reader, fill'[q].table = "row" PROVE Within(fill[q].value)'
    <3>1. q # r
      BY <1>6, <2>2 DEF FillCache, Typed, NoFill
    <3> QED
      BY <1>6, <2>2, <3>1 DEF FillCache, Typed, Sound, CacheWithin, Within, Database
  <2> QED
    BY <1>6, <2>1, <2>2, SoundElsewhere DEF FillCache, CacheWithin
<1>7. ASSUME NEW u \in User, ExpireRecord(u) PROVE Sound'
  BY <1>7, SoundElsewhere DEF ExpireRecord, Sound, CacheWithin, Within, Database
<1>8. CASE ExpireRow
  BY <1>0, <1>8, SoundElsewhere DEF ExpireRow, Sound, CacheWithin, Within, Database,
                                    MissRow, Miss
<1>9. CASE UNCHANGED vars
  BY <1>9, SoundElsewhere DEF vars, Sound, CacheWithin, Within, Database
<1> QED
  BY <1>1, <1>2, <1>3, <1>4, <1>5, <1>6, <1>7, <1>8, <1>9 DEF Next

\* However processors and readers interleave, through redeliveries, failed
\* statements and stale caches, like_count never holds more votes of a type
\* than commits have recorded.
THEOREM NeverInvented == Spec => []CountsNeverInvented
<1>1. Init => Sound
  BY DEF Init, Sound, CacheWithin, Within, NoRow, NoVote, NoCounts, MissRow, Miss, NoFill
<1>2. Sound => CountsNeverInvented
  BY DEF Sound, Within, CountsNeverInvented
<1> QED
  BY <1>1, <1>2, SoundStep, TypedHolds, PTL DEF Spec

--------------------------------------------------------------------------------
(* An acknowledged vote was on record.  Whatever vote of a user is in sight -  *)
(* the record, the cache, a snapshot, a pending fill, what a transaction read  *)
(* - is one the user's record has had, or none.                                *)

Was(u, vote) == vote \in recorded[u] \cup {NoVote}

Honest(phase, t) ==
    /\ \A s \in t.snap : \A u \in User : Was(u, s.record[u])
    /\ Was(t.msg.user, t.old)
    /\ t.record \in {Miss, t.msg.type}
    /\ phase \in Counting => t.record = t.msg.type
    /\ phase = "commit" => t.msg.type \in {t.old, t.record}

CacheKnown == \A u \in User : cachedRecord[u] = Miss \/ Was(u, cachedRecord[u])

Known ==
    /\ \A u \in User : Was(u, record[u])
    /\ CacheKnown
    /\ \A r \in Reader : fill[r].table = "record" => Was(fill[r].user, fill[r].value)
    /\ \A w \in Processor : pc[w] # "idle" => Honest(pc[w], tx[w])

\* A step of w that changes no record.
LEMMA KnownMove ==
    ASSUME Typed, Known, NEW w \in Processor, pc[w] # "idle", NEW phase, NEW t,
           Moves(w, phase, t), Honest(phase, t), Database, UNCHANGED fill, CacheKnown'
    PROVE  Known'
<1>1. pc'[w] = phase /\ tx'[w] = t /\ record' = record /\ recorded' = recorded
  BY DEF Typed, Moves, Database
<1>2. /\ \A u \in User : Was(u, record[u])'
      /\ \A r \in Reader : fill'[r].table = "record" => Was(fill[r].user, fill[r].value)'
  BY <1>1 DEF Known, Was
<1>3. ASSUME NEW v \in Processor, pc'[v] # "idle" PROVE Honest(pc[v], tx[v])'
  <2>1. CASE v = w
    BY <1>1, <2>1 DEF Honest, Was
  <2>2. CASE v # w
    <3>1. pc'[v] = pc[v] /\ tx'[v] = tx[v]
      BY <2>2 DEF Typed, Moves
    <3> QED
      BY <1>1, <1>3, <3>1 DEF Known, Honest, Was
  <2> QED
    BY <2>1, <2>2
<1> QED
  BY <1>2, <1>3 DEF Known

\* What w reads of a record is a vote it has had.
LEMMA ViewKnown ==
    ASSUME Typed, Known, NEW w \in Processor, pc[w] # "idle", NEW u \in User
    PROVE  Was(u, View(w).record[u])
<1>1. CASE tx[w].snap = {}
  BY <1>1 DEF View, Known
<1>2. CASE tx[w].snap # {}
  <2>1. (CHOOSE s \in tx[w].snap : TRUE) \in tx[w].snap
    BY <1>2
  <2> QED
    BY <1>2, <2>1 DEF View, Known, Honest
<1> QED
  BY <1>1, <1>2

\* Steps on the count row keep the vote the transaction has written.
LEMMA KnownCounting ==
    ASSUME Typed, Known, NEW w \in Processor, pc[w] \in Counting,
           NEW phase \in Counting \cup {"rollback", "commit"}, NEW t, Moves(w, phase, t),
           t.snap \in {tx[w].snap, {View(w)}}, t.old = tx[w].old, t.record = tx[w].record,
           Database, UNCHANGED <<fill, cachedRecord>>
    PROVE  Known'
<1>1. pc[w] # "idle" /\ Honest(pc[w], tx[w]) /\ t.msg = tx[w].msg
  BY DEF Counting, Known, Moves
<1>2. CacheKnown'
  BY DEF Known, CacheKnown, Was, Database
<1>3. Honest(phase, t)
  BY <1>1, ViewKnown DEF Honest
<1> QED
  BY <1>1, <1>2, <1>3, KnownMove

LEMMA KnownRecord ==
    ASSUME Typed, Known, NEW w \in Processor,
           \/ \E again \in BOOLEAN : FindRecord(w, again) \/ FillRecord(w, again)
           \/ InsertRecord(w) \/ LoadRecord(w) \/ StoreRecord(w) \/ UpdateRecord(w)
           \/ UncacheRecord(w)
    PROVE  Known'
<1> USE DEF Others, Cache
<1>0. pc[w] # "idle" /\ Database /\ fill' = fill
  BY DEF FindRecord, FillRecord, InsertRecord, LoadRecord, StoreRecord, UpdateRecord,
         UncacheRecord
<1>1. /\ tx[w] \in Transaction /\ UserOf(w) \in User
      /\ tx[w].msg.user = UserOf(w) /\ tx[w].msg.type = TypeOf(w)
      /\ Honest(pc[w], tx[w]) /\ CacheKnown /\ recorded' = recorded
  BY <1>0, Busy DEF UserOf, TypeOf, Known, Database
<1>2. cachedRecord' = cachedRecord => CacheKnown'
  BY <1>1 DEF CacheKnown, Was
<1>3. ASSUME NEW again \in BOOLEAN, FindRecord(w, again) PROVE Known'
  <2>1. cachedRecord' = cachedRecord
    BY <1>3 DEF FindRecord
  <2>2. CASE cachedRecord[UserOf(w)] # Miss
    <3> DEFINE phase == Decide(w, cachedRecord[UserOf(w)], again)
               t == [tx[w] EXCEPT !.old = cachedRecord[UserOf(w)]]
    <3>1. Moves(w, phase, t)
      BY <1>3, <2>2, FindRecordMoves
    <3>2. t.snap = tx[w].snap /\ t.old = cachedRecord[UserOf(w)]
          /\ t.record = tx[w].record /\ t.msg = tx[w].msg
      BY <1>1 DEF Transaction
    <3>3. phase \notin Counting /\ (phase = "commit" => t.old = TypeOf(w))
      BY <3>2 DEF Decide, Counting
    <3>4. Was(UserOf(w), t.old)
      BY <1>1, <2>2, <3>2 DEF CacheKnown
    <3> HIDE DEF phase, t
    <3>5. Honest(phase, t)
      BY <1>1, <3>2, <3>3, <3>4 DEF Honest
    <3> QED
      BY <1>0, <1>2, <2>1, <3>1, <3>5, KnownMove
  <2>3. CASE cachedRecord[UserOf(w)] = Miss
    <3> DEFINE phase == IF again THEN "refillRecord" ELSE "fillRecord"
               t == [tx[w] EXCEPT !.old = View(w).record[UserOf(w)], !.snap = {View(w)}]
    <3>1. Moves(w, phase, t)
      BY <1>3, <2>3, FindRecordMoves
    <3>2. t.snap = {View(w)} /\ t.old = View(w).record[UserOf(w)]
          /\ t.record = tx[w].record /\ t.msg = tx[w].msg
      BY <1>1 DEF Transaction
    <3>3. phase \notin Counting /\ phase # "commit"
      BY DEF Counting
    <3> HIDE DEF phase, t
    <3>4. Honest(phase, t)
      BY <1>0, <1>1, <3>2, <3>3, ViewKnown DEF Honest
    <3> QED
      BY <1>0, <1>2, <2>1, <3>1, <3>4, KnownMove
  <2> QED
    BY <2>2, <2>3
<1>4. ASSUME NEW again \in BOOLEAN, FillRecord(w, again) PROVE Known'
  <2> DEFINE phase == Decide(w, tx[w].old, again)
  <2>1. Moves(w, phase, tx[w])
    BY <1>4, FillRecordMoves
  <2>2. phase \notin Counting /\ (phase = "commit" => tx[w].old = TypeOf(w))
    BY DEF Decide, Counting
  <2> HIDE DEF phase
  <2>3. Honest(phase, tx[w])
    BY <1>1, <2>2 DEF Honest
  <2>4. CacheRecord(UserOf(w), tx[w].old) /\ Was(UserOf(w), tx[w].old)
    BY <1>1, <1>4 DEF FillRecord, Honest
  <2>5. CacheKnown'
    BY <1>1, <2>4 DEF CacheRecord, CacheKnown, Was, Typed, StoreType
  <2> QED
    BY <1>0, <2>1, <2>3, <2>5, KnownMove
<1>5. ASSUME InsertRecord(w) \/ UpdateRecord(w) PROVE Known'
  <2>1. cachedRecord' = cachedRecord /\ pc[w] \notin Counting
    BY <1>5 DEF InsertRecord, UpdateRecord, Counting
  <2> DEFINE t == [tx[w] EXCEPT !.record = TypeOf(w)]
  <2>2. t.snap = tx[w].snap /\ t.old = tx[w].old /\ t.record = TypeOf(w) /\ t.msg = tx[w].msg
    BY <1>1 DEF Transaction
  <2>3. Moves(w, "uncacheRecord", t) \/ Moves(w, "refindRecord", tx[w])
    BY <1>5, InsertRecordMoves, UpdateRecordMoves
  <2> HIDE DEF t
  <2>4. Honest("uncacheRecord", t) /\ Honest("refindRecord", tx[w])
    BY <1>1, <2>2 DEF Honest, Counting
  <2> QED
    BY <1>0, <1>2, <2>1, <2>3, <2>4, KnownMove
<1>6. ASSUME LoadRecord(w) PROVE Known'
  <2>1. cachedRecord' = cachedRecord
    BY <1>6 DEF LoadRecord
  <2> DEFINE phase == IF View(w).record[UserOf(w)] = NoVote THEN "rollback" ELSE "storeRecord"
             t == [tx[w] EXCEPT !.snap = {View(w)}]
  <2>2. t.snap = {View(w)} /\ t.old = tx[w].old /\ t.record = tx[w].record
        /\ t.msg = tx[w].msg
    BY <1>1 DEF Transaction
  <2>3. Moves(w, "updateRecord", tx[w]) \/ Moves(w, phase, t)
    BY <1>6, LoadRecordMoves
  <2>4. phase \notin Counting \cup {"commit"}
    BY DEF Counting
  <2> HIDE DEF phase, t
  <2>5. Honest("updateRecord", tx[w]) /\ Honest(phase, t)
    BY <1>0, <1>1, <2>2, <2>4, ViewKnown DEF Honest, Counting
  <2> QED
    BY <1>0, <1>2, <2>1, <2>3, <2>5, KnownMove
<1>7. ASSUME StoreRecord(w) PROVE Known'
  <2>1. /\ Moves(w, "updateRecord", tx[w])
        /\ \A u \in User : cachedRecord'[u] =
             IF u = UserOf(w) /\ cachedRecord[u] \in LikeTypes
             THEN View(w).record[u] ELSE cachedRecord[u]
    BY <1>7, StoreRecordMoves
  <2>2. CacheKnown'
    BY <1>0, <1>1, <2>1, ViewKnown DEF CacheKnown, Was
  <2>3. Honest("updateRecord", tx[w])
    BY <1>1 DEF Honest, Counting
  <2> QED
    BY <1>0, <2>1, <2>2, <2>3, KnownMove
<1>8. ASSUME UncacheRecord(w) PROVE Known'
  <2>1. /\ Moves(w, "findRow", tx[w]) /\ pc[w] \in Counting
        /\ DeleteRecord(UserOf(w))
    BY <1>8, UncacheRecordMoves DEF UncacheRecord, Counting
  <2>2. \A u \in User : cachedRecord'[u] \in {Miss, cachedRecord[u]}
    BY <1>1, <2>1, DeletionTyped
  <2>3. CacheKnown'
    BY <1>1, <2>2 DEF CacheKnown, Was
  <2>4. Honest("findRow", tx[w])
    BY <1>1, <2>1 DEF Honest
  <2> QED
    BY <1>0, <2>1, <2>3, <2>4, KnownMove
<1> QED
  BY <1>3, <1>4, <1>5, <1>6, <1>7, <1>8

LEMMA KnownCounts ==
    ASSUME Typed, Known, NEW w \in Processor,
           \/ \E again \in BOOLEAN : FindRow(w, again) \/ FillRow(w, again)
           \/ InsertRow(w) \/ LoadRow(w) \/ StoreRow(w) \/ UpdateRow(w) \/ UncacheRow(w)
    PROVE  Known'
<1> USE DEF Others, Cache
<1>0. pc[w] \in Counting /\ Database /\ fill' = fill /\ cachedRecord' = cachedRecord
  BY DEF FindRow, FillRow, InsertRow, LoadRow, StoreRow, UpdateRow, UncacheRow, Counting
<1>1. tx[w] \in Transaction
  BY <1>0, Busy DEF Counting
<1>2. ASSUME NEW phase \in Counting \cup {"rollback", "commit"}, Moves(w, phase, tx[w])
      PROVE  Known'
  BY <1>0, <1>2, KnownCounting
<1>3. ASSUME NEW phase \in Counting \cup {"rollback", "commit"},
             Moves(w, phase, [tx[w] EXCEPT !.snap = {View(w)}])
      PROVE  Known'
  <2> DEFINE t == [tx[w] EXCEPT !.snap = {View(w)}]
  <2>1. t.snap = {View(w)} /\ t.old = tx[w].old /\ t.record = tx[w].record
    BY <1>1 DEF Transaction
  <2>2. Moves(w, phase, t)
    BY <1>3
  <2> HIDE DEF t
  <2> QED
    BY <1>0, <2>1, <2>2, KnownCounting
<1>4. ASSUME NEW phase \in Counting \cup {"rollback", "commit"}, NEW c,
             Moves(w, phase, [tx[w] EXCEPT !.row = c])
      PROVE  Known'
  <2> DEFINE t == [tx[w] EXCEPT !.row = c]
  <2>1. t.snap = tx[w].snap /\ t.old = tx[w].old /\ t.record = tx[w].record
    BY <1>1 DEF Transaction
  <2>2. Moves(w, phase, t)
    BY <1>4
  <2> HIDE DEF t
  <2> QED
    BY <1>0, <2>1, <2>2, KnownCounting
<1>5. ASSUME NEW again \in BOOLEAN, FindRow(w, again) PROVE Known'
  <2>1. CASE cachedRow # MissRow
    <3> DEFINE phase == DecideRow(cachedRow, again)
               t == [tx[w] EXCEPT !.base = cachedRow]
    <3>1. Moves(w, phase, t) /\ phase \in Counting \cup {"rollback"}
      BY <1>5, <2>1, FindRowMoves DEF DecideRow, Counting
    <3>2. t.snap = tx[w].snap /\ t.old = tx[w].old /\ t.record = tx[w].record
      BY <1>1 DEF Transaction
    <3> HIDE DEF phase, t
    <3> QED
      BY <1>0, <3>1, <3>2, KnownCounting
  <2>2. CASE cachedRow = MissRow
    <3> DEFINE phase == IF again THEN "refillRow" ELSE "fillRow"
               t == [tx[w] EXCEPT !.base = View(w).row, !.snap = {View(w)}]
    <3>1. Moves(w, phase, t) /\ phase \in Counting
      BY <1>5, <2>2, FindRowMoves DEF Counting
    <3>2. t.snap = {View(w)} /\ t.old = tx[w].old /\ t.record = tx[w].record
      BY <1>1 DEF Transaction
    <3> HIDE DEF phase, t
    <3> QED
      BY <1>0, <3>1, <3>2, KnownCounting
  <2> QED
    BY <2>1, <2>2
<1>6. ASSUME NEW again \in BOOLEAN, FillRow(w, again) PROVE Known'
  <2>1. DecideRow(tx[w].base, again) \in Counting \cup {"rollback", "commit"}
    BY DEF DecideRow, Counting
  <2> QED
    BY <1>2, <1>6, <2>1, FillRowMoves
<1>7. ASSUME InsertRow(w) PROVE Known'
  <2>1. "uncacheRow" \in Counting /\ "refindRow" \in Counting
    BY DEF Counting
  <2>2. \/ Moves(w, "uncacheRow", [tx[w] EXCEPT !.row = Shift(NoCounts, Delta(w))])
        \/ Moves(w, "refindRow", tx[w])
    BY <1>7, InsertRowMoves
  <2> QED
    BY <1>2, <1>4, <2>1, <2>2
<1>8. ASSUME LoadRow(w) PROVE Known'
  <2>1. "updateRow" \in Counting /\ "storeRow" \in Counting
    BY DEF Counting
  <2>2. (IF View(w).row = NoRow THEN "rollback" ELSE "storeRow")
          \in Counting \cup {"rollback", "commit"}
    BY <2>1
  <2>3. \/ Moves(w, "updateRow", tx[w])
        \/ Moves(w, IF View(w).row = NoRow THEN "rollback" ELSE "storeRow",
                 [tx[w] EXCEPT !.snap = {View(w)}])
    BY <1>8, LoadRowMoves
  <2>4. CASE Moves(w, "updateRow", tx[w])
    BY <1>2, <2>1, <2>4
  <2>5. CASE Moves(w, IF View(w).row = NoRow THEN "rollback" ELSE "storeRow",
                   [tx[w] EXCEPT !.snap = {View(w)}])
    BY <1>3, <2>2, <2>5
  <2> QED
    BY <2>3, <2>4, <2>5
<1>9. ASSUME StoreRow(w) PROVE Known'
  <2>1. "updateRow" \in Counting
    BY DEF Counting
  <2> QED
    BY <1>2, <1>9, <2>1, StoreRowMoves
<1>10. ASSUME UpdateRow(w) PROVE Known'
  <2>1. "uncacheRow" \in Counting
    BY DEF Counting
  <2> QED
    BY <1>4, <1>10, <2>1, UpdateRowMoves
<1>11. ASSUME UncacheRow(w) PROVE Known'
  BY <1>2, <1>11, UncacheRowMoves
<1> QED
  BY <1>5, <1>6, <1>7, <1>8, <1>9, <1>10, <1>11

\* A commit puts its vote on the list of the user's votes, or found it there.
LEMMA CommitWas ==
    ASSUME Typed, Known, NEW w \in Processor, Commit(w)
    PROVE  /\ TypeOf(w) \in recorded'[UserOf(w)]
           /\ \A u \in User : recorded[u] \subseteq recorded'[u]
           /\ \A u \in User : Was(u, record[u])'
<1>1. pc[w] = "commit" /\ pc[w] # "idle"
  BY DEF Commit
<1>2. /\ UserOf(w) \in User /\ TypeOf(w) \in LikeTypes
      /\ Honest("commit", tx[w]) /\ tx[w].msg.user = UserOf(w) /\ tx[w].msg.type = TypeOf(w)
  BY <1>1, Busy DEF UserOf, TypeOf, Known
<1>3. TypeOf(w) # Miss /\ TypeOf(w) # NoVote
  BY <1>2 DEF LikeTypes, LikeTypeThumbup, LikeTypeThumbdown, Miss, NoVote
<1>4. CASE tx[w].record = Miss
  <2>1. recorded' = recorded /\ record' = record
    BY <1>4 DEF Commit
  <2>2. tx[w].old = TypeOf(w) /\ Was(UserOf(w), tx[w].old)
    BY <1>2, <1>3, <1>4 DEF Honest
  <2> QED
    BY <1>3, <2>1, <2>2 DEF Was, Known
<1>5. CASE tx[w].record # Miss
  <2>1. tx[w].record = TypeOf(w)
    BY <1>2, <1>5 DEF Honest
  <2>2. /\ recorded' = [recorded EXCEPT ![UserOf(w)] = @ \cup {TypeOf(w)}]
        /\ record' = [record EXCEPT ![UserOf(w)] = TypeOf(w)]
    BY <1>5, <2>1 DEF Commit
  <2> QED
    BY <1>2, <2>2 DEF Was, Known, Typed, StoreType
<1> QED
  BY <1>4, <1>5

LEMMA KnownCommit ==
    ASSUME Typed, Known, NEW w \in Processor, Commit(w)
    PROVE  Known'
<1> USE DEF Others, Cache
<1>1. /\ \A u \in User : recorded[u] \subseteq recorded'[u]
      /\ \A u \in User : Was(u, record[u])'
  BY CommitWas
<1>2. \A u \in User : \A vote : Was(u, vote) => Was(u, vote)'
  BY <1>1 DEF Was
<1>3. CacheKnown'
  BY <1>2 DEF Commit, Known, CacheKnown
<1>4. ASSUME NEW r \in Reader, fill'[r].table = "record"
      PROVE  Was(fill[r].user, fill[r].value)'
  <2>1. fill'[r] = fill[r] /\ fill[r].user \in User /\ Was(fill[r].user, fill[r].value)
    BY <1>4 DEF Commit, Typed, Fills, NoFill, Known
  <2> QED
    BY <1>2, <2>1 DEF Was
<1>5. ASSUME NEW v \in Processor, pc'[v] # "idle" PROVE Honest(pc[v], tx[v])'
  <2>1. pc'[v] = pc[v] /\ tx'[v] = tx[v] /\ pc[v] # "idle"
    BY <1>5 DEF Commit, End, Goto, Typed
  <2>2. tx[v].msg.user \in User /\ Honest(pc[v], tx[v])
    BY <2>1, Busy DEF UserOf, Known
  <2> QED
    BY <1>2, <2>1, <2>2 DEF Honest, Was
<1> QED
  BY <1>1, <1>3, <1>4, <1>5 DEF Known

LEMMA KnownEnd ==
    ASSUME Typed, Known, NEW w \in Processor, End(w), Database, Cache, UNCHANGED fill
    PROVE  Known'
<1>1. ASSUME NEW v \in Processor, pc'[v] # "idle" PROVE Honest(pc[v], tx[v])'
  <2>1. pc'[v] = pc[v] /\ tx'[v] = tx[v] /\ pc[v] # "idle"
    BY <1>1 DEF End, Goto, Typed
  <2> QED
    BY <2>1 DEF Known, Honest, Was, Database
<1> QED
  BY <1>1 DEF Known, CacheKnown, Was, Database, Cache

LEMMA KnownStep == Typed /\ Known /\ [Next]_vars => Known'
<1> SUFFICES ASSUME Typed, Known, [Next]_vars PROVE Known'
  OBVIOUS
<1>1. ASSUME NEW w \in Processor, Work(w) PROVE Known'
  <2>1. CASE Rollback(w)
    BY <2>1, KnownEnd DEF Rollback, Others
  <2> QED
    BY <1>1, <2>1, KnownRecord, KnownCounts, KnownCommit DEF Work
<1>2. ASSUME NEW w \in Processor, Fail(w) PROVE Known'
  BY <1>2, KnownEnd DEF Fail, Others
<1>3. ASSUME NEW w \in Processor, NEW m \in Message, Take(w, m) PROVE Known'
  <2>1. /\ UNCHANGED <<record, recorded, cachedRecord, fill>>
    BY <1>3 DEF Take, Database, Cache
  <2>2. CASE Valid(m)
    <3>1. pc' = [pc EXCEPT ![w] = "findRecord"] /\ tx' = [tx EXCEPT ![w] = Begun(m)]
      BY <1>3, <2>2, TakeTyped
    <3>2. Honest("findRecord", Begun(m))
      BY DEF Honest, Begun, Was, Counting
    <3>3. ASSUME NEW v \in Processor, pc'[v] # "idle" PROVE Honest(pc[v], tx[v])'
      <4>1. CASE v = w
        BY <2>1, <3>1, <3>2, <4>1 DEF Typed, Honest, Was
      <4>2. CASE v # w
        <5>1. pc'[v] = pc[v] /\ tx'[v] = tx[v]
          BY <3>1, <4>2 DEF Typed
        <5> QED
          BY <2>1, <3>3, <5>1 DEF Known, Honest, Was
      <4> QED
        BY <4>1, <4>2
    <3> QED
      BY <2>1, <3>3 DEF Known, CacheKnown, Was
  <2>3. CASE ~ Valid(m)
    BY <1>3, <2>1, <2>3 DEF Take, Known, CacheKnown, Honest, Was
  <2> QED
    BY <2>2, <2>3
<1>4. ASSUME UNCHANGED <<pc, tx, record, recorded>>, CacheKnown',
             \A r \in Reader : fill'[r].table = "record" => Was(fill[r].user, fill[r].value)'
      PROVE  Known'
  BY <1>4 DEF Known, Honest, Was
<1>5. ASSUME NEW r \in Reader, NEW u \in User, ReadRecord(r, u) PROVE Known'
  BY <1>4, <1>5 DEF ReadRecord, Typed, Known, CacheKnown, Was, Database, Cache
<1>6. ASSUME NEW r \in Reader, ReadRow(r) PROVE Known'
  BY <1>4, <1>6 DEF ReadRow, Typed, Known, CacheKnown, Was, Database, Cache
<1>7. ASSUME NEW r \in Reader, FillCache(r) PROVE Known'
  <2>1. /\ fill[r] \in Fills /\ fill[r] # NoFill
        /\ fill[r].table = "record" => Was(fill[r].user, fill[r].value)
    BY <1>7 DEF FillCache, Typed, Known
  <2>2. CacheKnown'
    <3>1. CASE fill[r].table = "row"
      BY <1>7, <3>1 DEF FillCache, Known, CacheKnown, Was, Database
    <3>2. CASE fill[r].table # "row"
      <4>1. /\ fill[r].user \in User /\ Was(fill[r].user, fill[r].value)
            /\ CacheRecord(fill[r].user, fill[r].value)
        BY <1>7, <2>1, <3>2 DEF FillCache, Fills
      <4> QED
        BY <1>7, <4>1 DEF FillCache, CacheRecord, Typed, StoreType, Known, CacheKnown, Was,
                          Database
    <3> QED
      BY <3>1, <3>2
  <2>3. ASSUME NEW q \in Reader, fill'[q].table = "record"
        PROVE  Was(fill[q].user, fill[q].value)'
    <3>1. q # r
      BY <1>7, <2>3 DEF FillCache, Typed, NoFill
    <3> QED
      BY <1>7, <2>3, <3>1 DEF FillCache, Typed, Known, Was, Database
  <2> QED
    BY <1>4, <1>7, <2>2, <2>3 DEF FillCache, Database
<1>8. ASSUME NEW u \in User, ExpireRecord(u) PROVE Known'
  <2>1. CacheKnown'
    BY <1>8 DEF ExpireRecord, Known, CacheKnown, Was, Database, Typed, StoreType
  <2> QED
    BY <1>4, <1>8, <2>1 DEF ExpireRecord, Known, Was, Database
<1>9. CASE ExpireRow
  BY <1>4, <1>9 DEF ExpireRow, Known, CacheKnown, Was, Database
<1>10. CASE UNCHANGED vars
  BY <1>4, <1>10 DEF vars, Known, CacheKnown, Was
<1> QED
  BY <1>1, <1>2, <1>3, <1>5, <1>6, <1>7, <1>8, <1>9, <1>10 DEF Next

\* With any number of processors and readers, through redeliveries, duplicate
\* entries, stale caches, failed statements and failed deletions, no message is
\* acknowledged whose type the user's record has never had.
THEOREM AckedVoteWasRecorded == Spec => AckedWasOnRecord
<1>1. Init => Known
  BY DEF Init, Known, CacheKnown, Was, NoFill
<1>2. Spec => []Known
  BY <1>1, KnownStep, TypedHolds, PTL DEF Spec
<1>3. Typed /\ Known /\ [Next]_vars
        => [\A w \in Processor : Commit(w) => TypeOf(w) \in recorded'[UserOf(w)]]_vars
  BY CommitWas
<1> QED
  BY <1>2, <1>3, TypedHolds, PTL DEF Spec, AckedWasOnRecord

--------------------------------------------------------------------------------
(* One message at a time.  As long as no two processors work on the object at  *)
(* once, and no reader fills the cache meanwhile, the cache holds what is      *)
(* committed, except the entries whose deletion failed.                        *)

\* One at a time: what a single consumer of the object's messages gives, and
\* what nothing enforces when several processors drain the topic.
Alone ==
    /\ \A v, w \in Processor : pc[v] # "idle" /\ pc[w] # "idle" => v = w
    /\ \A r \in Reader, w \in Processor : fill[r] # NoFill => pc[w] = "idle"

\* Cached rows are the committed rows, except those a failed deletion left.
CacheTrue(cRecord, lost, cRow, lostRow) ==
    /\ \A u \in User : u \in lost \/ cRecord[u] \in {Miss, record[u]}
    /\ lostRow \/ cRow \in {MissRow, row}

\* Pending fills are the committed rows.
FillsTrue ==
    \A r \in Reader : /\ fill[r].table = "record" => fill[r].value = record[fill[r].user]
                      /\ fill[r].table = "row" => fill[r].value = row

\* The phases before the statement on like_record.
Deciding == {"findRecord", "fillRecord", "insertRecord", "refindRecord",
             "refillRecord", "loadRecord", "storeRecord", "updateRecord"}

\* What a transaction fills the cache with is committed, and once it has written
\* a row and deleted its keys, the entry is gone or noted as left.
Tidy(phase, t, cRecord, lost, cRow, lostRow) ==
    LET u == t.msg.user IN
    /\ t.snap \subseteq {[record |-> record, row |-> row]}
    /\ phase \in Deciding => t.record = Miss
    /\ phase \in {"fillRecord", "refillRecord"} => t.old = record[u]
    /\ phase \in {"fillRow", "refillRow"} => t.base = row
    /\ t.record # Miss /\ phase # "uncacheRecord" => cRecord[u] = Miss \/ u \in lost
    /\ phase \notin {"uncacheRow", "commit"} => t.row = MissRow
    /\ t.row # MissRow /\ phase # "uncacheRow" => cRow = MissRow \/ lostRow

TidyNow(w) ==
    Tidy(pc[w], tx[w], cachedRecord, undeletedRecords, cachedRow, undeletedRow)

CacheTrueNow == CacheTrue(cachedRecord, undeletedRecords, cachedRow, undeletedRow)

Neat ==
    /\ CacheTrueNow
    /\ FillsTrue
    /\ \A w \in Processor : pc[w] # "idle" => TidyNow(w)

\* The snapshot of the only transaction is what is committed.
LEMMA NeatView ==
    ASSUME Typed, NEW w \in Processor, pc[w] # "idle",
           tx[w].snap \subseteq {[record |-> record, row |-> row]}
    PROVE  View(w) = [record |-> record, row |-> row]
<1>1. CASE tx[w].snap = {}
  BY <1>1 DEF View
<1>2. CASE tx[w].snap # {}
  <2>1. (CHOOSE s \in tx[w].snap : TRUE) \in tx[w].snap
    BY <1>2
  <2> QED
    BY <1>2, <2>1 DEF View
<1> QED
  BY <1>1, <1>2

\* A step of the only busy processor that commits nothing.
LEMMA NeatMove ==
    ASSUME Typed, Alone, Neat, NEW w \in Processor, pc[w] # "idle", NEW phase, NEW t,
           Moves(w, phase, t), Database, UNCHANGED fill, CacheTrueNow',
           Tidy(phase, t, cachedRecord', undeletedRecords', cachedRow', undeletedRow')
    PROVE  Neat'
<1>1. pc'[w] = phase /\ tx'[w] = t /\ record' = record /\ row' = row
  BY DEF Typed, Moves, Database
<1>2. FillsTrue'
  BY <1>1 DEF Neat, FillsTrue
<1>3. ASSUME NEW v \in Processor, pc'[v] # "idle" PROVE TidyNow(v)'
  <2>1. v = w
    BY <1>3 DEF Typed, Moves, Alone
  <2> QED
    BY <1>1, <2>1 DEF Tidy, TidyNow
<1> QED
  BY <1>2, <1>3 DEF Neat

LEMMA NeatRecord ==
    ASSUME Typed, Alone, Neat, NEW w \in Processor,
           \/ \E again \in BOOLEAN : FindRecord(w, again) \/ FillRecord(w, again)
           \/ InsertRecord(w) \/ LoadRecord(w) \/ StoreRecord(w) \/ UpdateRecord(w)
           \/ UncacheRecord(w)
    PROVE  Neat'
<1> USE DEF Others, Cache
<1>0. /\ pc[w] # "idle" /\ Database /\ UNCHANGED <<fill, rowCache>>
      /\ pc[w] \in Deciding \cup {"uncacheRecord"}
  BY DEF FindRecord, FillRecord, InsertRecord, LoadRecord, StoreRecord, UpdateRecord,
         UncacheRecord, Deciding
<1>1. /\ tx[w] \in Transaction /\ UserOf(w) \in User /\ TypeOf(w) \in LikeTypes
      /\ tx[w].msg.user = UserOf(w) /\ record' = record /\ row' = row
      /\ Tidy(pc[w], tx[w], cachedRecord, undeletedRecords, cachedRow, undeletedRow)
      /\ CacheTrue(cachedRecord, undeletedRecords, cachedRow, undeletedRow)
  BY <1>0, Busy DEF UserOf, Neat, TidyNow, CacheTrueNow, Database
<1>2. /\ tx[w].row = MissRow
      /\ pc[w] \in Deciding => tx[w].record = Miss
      /\ tx[w].snap \subseteq {[record |-> record, row |-> row]}
  BY <1>0, <1>1 DEF Tidy, Deciding
<1>3. View(w) = [record |-> record, row |-> row]
  BY <1>0, <1>2, NeatView
<1>4. recordCache' = recordCache => CacheTrueNow'
  BY <1>0, <1>1 DEF CacheTrue, CacheTrueNow
<1>5. ASSUME NEW again \in BOOLEAN, FindRecord(w, again) PROVE Neat'
  <2>1. recordCache' = recordCache /\ pc[w] \in Deciding
    BY <1>5 DEF FindRecord, Deciding
  <2>2. CASE cachedRecord[UserOf(w)] # Miss
    <3> DEFINE phase == Decide(w, cachedRecord[UserOf(w)], again)
               t == [tx[w] EXCEPT !.old = cachedRecord[UserOf(w)]]
    <3>1. Moves(w, phase, t)
      BY <1>5, <2>2, FindRecordMoves
    <3>2. t.snap = tx[w].snap /\ t.record = Miss /\ t.row = MissRow
      BY <1>1, <1>2, <2>1 DEF Transaction
    <3>3. phase \notin {"fillRecord", "refillRecord", "fillRow", "refillRow"}
      BY DEF Decide
    <3> HIDE DEF phase, t
    <3>4. Tidy(phase, t, cachedRecord', undeletedRecords', cachedRow', undeletedRow')
      BY <1>2, <3>2, <3>3 DEF Tidy
    <3> QED
      BY <1>0, <1>4, <2>1, <3>1, <3>4, NeatMove
  <2>3. CASE cachedRecord[UserOf(w)] = Miss
    <3> DEFINE phase == IF again THEN "refillRecord" ELSE "fillRecord"
               t == [tx[w] EXCEPT !.old = View(w).record[UserOf(w)], !.snap = {View(w)}]
    <3>1. Moves(w, phase, t)
      BY <1>5, <2>3, FindRecordMoves
    <3>2. /\ t.snap = {View(w)} /\ t.record = Miss /\ t.row = MissRow
          /\ t.old = record[UserOf(w)] /\ t.msg = tx[w].msg
      BY <1>1, <1>2, <1>3, <2>1 DEF Transaction
    <3>3. phase \notin {"fillRow", "refillRow"}
      OBVIOUS
    <3> HIDE DEF phase, t
    <3>4. Tidy(phase, t, cachedRecord', undeletedRecords', cachedRow', undeletedRow')
      BY <1>1, <1>3, <3>2, <3>3 DEF Tidy
    <3> QED
      BY <1>0, <1>4, <2>1, <3>1, <3>4, NeatMove
  <2> QED
    BY <2>2, <2>3
<1>6. ASSUME NEW again \in BOOLEAN, FillRecord(w, again) PROVE Neat'
  <2>1. /\ pc[w] \in {"fillRecord", "refillRecord"} /\ CacheRecord(UserOf(w), tx[w].old)
        /\ undeletedRecords' = undeletedRecords
    BY <1>6 DEF FillRecord
  <2>2. tx[w].old = record[UserOf(w)] /\ tx[w].record = Miss
    BY <1>1, <1>2, <2>1 DEF Tidy, Deciding
  <2>3. CacheTrueNow'
    BY <1>0, <1>1, <2>1, <2>2 DEF CacheRecord, CacheTrue, CacheTrueNow, Typed, StoreType
  <2> DEFINE phase == Decide(w, tx[w].old, again)
  <2>4. Moves(w, phase, tx[w])
    BY <1>6, FillRecordMoves
  <2>5. phase \notin {"fillRecord", "refillRecord", "fillRow", "refillRow"}
    BY DEF Decide
  <2> HIDE DEF phase
  <2>6. Tidy(phase, tx[w], cachedRecord', undeletedRecords', cachedRow', undeletedRow')
    BY <1>2, <2>2, <2>5 DEF Tidy
  <2> QED
    BY <1>0, <2>3, <2>4, <2>6, NeatMove
<1>7. ASSUME InsertRecord(w) \/ UpdateRecord(w) PROVE Neat'
  <2>1. recordCache' = recordCache /\ pc[w] \in Deciding
    BY <1>7 DEF InsertRecord, UpdateRecord, Deciding
  <2> DEFINE t == [tx[w] EXCEPT !.record = TypeOf(w)]
  <2>2. t.snap = tx[w].snap /\ t.row = MissRow
    BY <1>1, <1>2 DEF Transaction
  <2>3. Moves(w, "uncacheRecord", t) \/ Moves(w, "refindRecord", tx[w])
    BY <1>7, InsertRecordMoves, UpdateRecordMoves
  <2> HIDE DEF t
  <2>4. /\ Tidy("uncacheRecord", t, cachedRecord', undeletedRecords', cachedRow', undeletedRow')
        /\ Tidy("refindRecord", tx[w], cachedRecord', undeletedRecords', cachedRow',
                undeletedRow')
    BY <1>2, <2>1, <2>2 DEF Tidy, Deciding
  <2> QED
    BY <1>0, <1>4, <2>1, <2>3, <2>4, NeatMove
<1>8. ASSUME LoadRecord(w) PROVE Neat'
  <2>1. recordCache' = recordCache /\ pc[w] \in Deciding
    BY <1>8 DEF LoadRecord, Deciding
  <2> DEFINE phase == IF View(w).record[UserOf(w)] = NoVote THEN "rollback" ELSE "storeRecord"
             t == [tx[w] EXCEPT !.snap = {View(w)}]
  <2>2. t.snap = {View(w)} /\ t.record = Miss /\ t.row = MissRow
    BY <1>1, <1>2, <2>1 DEF Transaction
  <2>3. Moves(w, "updateRecord", tx[w]) \/ Moves(w, phase, t)
    BY <1>8, LoadRecordMoves
  <2>4. phase \in {"rollback", "storeRecord"}
    OBVIOUS
  <2> HIDE DEF phase, t
  <2>5. /\ Tidy("updateRecord", tx[w], cachedRecord', undeletedRecords', cachedRow',
                undeletedRow')
        /\ Tidy(phase, t, cachedRecord', undeletedRecords', cachedRow', undeletedRow')
    BY <1>2, <1>3, <2>1, <2>2, <2>4 DEF Tidy
  <2> QED
    BY <1>0, <1>4, <2>1, <2>3, <2>5, NeatMove
<1>9. ASSUME StoreRecord(w) PROVE Neat'
  <2>1. /\ Moves(w, "updateRecord", tx[w])
        /\ \A u \in User : cachedRecord'[u] =
             IF u = UserOf(w) /\ cachedRecord[u] \in LikeTypes
             THEN View(w).record[u] ELSE cachedRecord[u]
        /\ undeletedRecords' = undeletedRecords /\ pc[w] \in Deciding
    BY <1>9, StoreRecordMoves DEF StoreRecord, Deciding
  <2>2. CacheTrueNow'
    BY <1>0, <1>1, <1>3, <2>1 DEF CacheTrue, CacheTrueNow
  <2>3. Tidy("updateRecord", tx[w], cachedRecord', undeletedRecords', cachedRow',
             undeletedRow')
    BY <1>2, <2>1 DEF Tidy
  <2> QED
    BY <1>0, <2>1, <2>2, <2>3, NeatMove
<1>10. ASSUME UncacheRecord(w) PROVE Neat'
  <2>1. Moves(w, "findRow", tx[w]) /\ DeleteRecord(UserOf(w))
    BY <1>10, UncacheRecordMoves DEF UncacheRecord
  <2>2. /\ \A v \in User : v # UserOf(w) =>
             /\ cachedRecord'[v] = cachedRecord[v]
             /\ v \in undeletedRecords' <=> v \in undeletedRecords
        /\ cachedRecord'[UserOf(w)] = Miss \/ UserOf(w) \in undeletedRecords'
    BY <1>1, <2>1, DeletionTyped
  <2>3. CacheTrueNow'
    BY <1>0, <1>1, <2>2 DEF CacheTrue, CacheTrueNow
  <2>4. Tidy("findRow", tx[w], cachedRecord', undeletedRecords', cachedRow', undeletedRow')
    BY <1>1, <1>2, <2>2 DEF Tidy, Deciding
  <2> QED
    BY <1>0, <2>1, <2>3, <2>4, NeatMove
<1> QED
  BY <1>5, <1>6, <1>7, <1>8, <1>9, <1>10

LEMMA NeatCounts ==
    ASSUME Typed, Alone, Neat, NEW w \in Processor,
           \/ \E again \in BOOLEAN : FindRow(w, again) \/ FillRow(w, again)
           \/ InsertRow(w) \/ LoadRow(w) \/ StoreRow(w) \/ UpdateRow(w) \/ UncacheRow(w)
    PROVE  Neat'
<1> USE DEF Others, Cache
<1>0. /\ pc[w] # "idle" /\ Database /\ UNCHANGED <<fill, recordCache>>
      /\ pc[w] \in Counting \ {"uncacheRecord"}
  BY DEF FindRow, FillRow, InsertRow, LoadRow, StoreRow, UpdateRow, UncacheRow, Counting
<1>1. /\ tx[w] \in Transaction /\ record' = record /\ row' = row
      /\ Tidy(pc[w], tx[w], cachedRecord, undeletedRecords, cachedRow, undeletedRow)
      /\ CacheTrue(cachedRecord, undeletedRecords, cachedRow, undeletedRow)
  BY <1>0, Busy DEF Neat, TidyNow, CacheTrueNow, Database
<1>2. /\ pc[w] # "uncacheRow" => tx[w].row = MissRow
      /\ tx[w].snap \subseteq {[record |-> record, row |-> row]}
      /\ tx[w].record # Miss => \/ cachedRecord[tx[w].msg.user] = Miss
                                \/ tx[w].msg.user \in undeletedRecords
  BY <1>0, <1>1 DEF Tidy, Counting
<1>3. View(w) = [record |-> record, row |-> row]
  BY <1>0, <1>2, NeatView
<1>4. rowCache' = rowCache => CacheTrueNow'
  BY <1>0, <1>1 DEF CacheTrue, CacheTrueNow
\* A step that ends in a phase of its own, with the counts not yet written.
<1>5. ASSUME NEW phase, phase \notin Deciding, NEW t, Moves(w, phase, t), CacheTrueNow',
             t.snap \in {tx[w].snap, {View(w)}}, t.record = tx[w].record,
             phase \in {"fillRow", "refillRow"} => t.base = row,
             \/ t.row = MissRow
             \/ phase = "uncacheRow"
             \/ phase = "commit" /\ (cachedRow' = MissRow \/ undeletedRow'),
             phase \notin {"fillRecord", "refillRecord", "uncacheRecord"}
      PROVE  Neat'
  <2>1. t.msg = tx[w].msg
    BY <1>5 DEF Moves
  <2>2. Tidy(phase, t, cachedRecord', undeletedRecords', cachedRow', undeletedRow')
    BY <1>0, <1>2, <1>3, <1>5, <2>1 DEF Tidy
  <2> QED
    BY <1>0, <1>5, <2>2, NeatMove
<1>6. ASSUME NEW again \in BOOLEAN, FindRow(w, again) PROVE Neat'
  <2>1. rowCache' = rowCache /\ pc[w] # "uncacheRow"
    BY <1>6 DEF FindRow
  <2>2. CASE cachedRow # MissRow
    <3> DEFINE phase == DecideRow(cachedRow, again)
               t == [tx[w] EXCEPT !.base = cachedRow]
    <3>1. Moves(w, phase, t)
      BY <1>6, <2>2, FindRowMoves
    <3>2. t.snap = tx[w].snap /\ t.record = tx[w].record /\ t.row = MissRow
      BY <1>1, <1>2, <2>1 DEF Transaction
    <3>3. phase \in {"loadRow", "rollback", "insertRow"}
      BY DEF DecideRow
    <3> HIDE DEF phase, t
    <3> QED
      BY <1>4, <1>5, <2>1, <3>1, <3>2, <3>3 DEF Deciding
  <2>3. CASE cachedRow = MissRow
    <3> DEFINE phase == IF again THEN "refillRow" ELSE "fillRow"
               t == [tx[w] EXCEPT !.base = View(w).row, !.snap = {View(w)}]
    <3>1. Moves(w, phase, t)
      BY <1>6, <2>3, FindRowMoves
    <3>2. /\ t.snap = {View(w)} /\ t.record = tx[w].record /\ t.row = MissRow
          /\ t.base = row
      BY <1>1, <1>2, <1>3, <2>1 DEF Transaction
    <3>3. phase \in {"refillRow", "fillRow"}
      OBVIOUS
    <3> HIDE DEF phase, t
    <3> QED
      BY <1>4, <1>5, <2>1, <3>1, <3>2, <3>3 DEF Deciding
  <2> QED
    BY <2>2, <2>3
<1>7. ASSUME NEW again \in BOOLEAN, FillRow(w, again) PROVE Neat'
  <2>1. /\ pc[w] \in {"fillRow", "refillRow"} /\ CacheRow(tx[w].base)
        /\ undeletedRow' = undeletedRow
    BY <1>7 DEF FillRow
  <2>2. tx[w].base = row
    BY <1>1, <2>1 DEF Tidy
  <2>3. CacheTrueNow'
    BY <1>0, <1>1, <2>1, <2>2 DEF CacheRow, CacheTrue, CacheTrueNow
  <2> DEFINE phase == DecideRow(tx[w].base, again)
  <2>4. Moves(w, phase, tx[w])
    BY <1>7, FillRowMoves
  <2>5. phase \in {"loadRow", "rollback", "insertRow"}
    BY DEF DecideRow
  <2> HIDE DEF phase
  <2> QED
    BY <1>2, <1>5, <2>1, <2>3, <2>4, <2>5 DEF Deciding
<1>8. ASSUME InsertRow(w) PROVE Neat'
  <2>1. rowCache' = rowCache /\ pc[w] # "uncacheRow"
    BY <1>8 DEF InsertRow
  <2> DEFINE t == [tx[w] EXCEPT !.row = Shift(NoCounts, Delta(w))]
  <2>2. t.snap = tx[w].snap /\ t.record = tx[w].record
    BY <1>1 DEF Transaction
  <2>3. Moves(w, "uncacheRow", t) \/ Moves(w, "refindRow", tx[w])
    BY <1>8, InsertRowMoves
  <2> HIDE DEF t
  <2>4. CASE Moves(w, "uncacheRow", t)
    BY <1>4, <1>5, <2>1, <2>2, <2>4 DEF Deciding
  <2>5. CASE Moves(w, "refindRow", tx[w])
    BY <1>2, <1>4, <1>5, <2>1, <2>5 DEF Deciding
  <2> QED
    BY <2>3, <2>4, <2>5
<1>9. ASSUME LoadRow(w) PROVE Neat'
  <2>1. rowCache' = rowCache /\ pc[w] # "uncacheRow"
    BY <1>9 DEF LoadRow
  <2> DEFINE phase == IF View(w).row = NoRow THEN "rollback" ELSE "storeRow"
             t == [tx[w] EXCEPT !.snap = {View(w)}]
  <2>2. t.snap = {View(w)} /\ t.record = tx[w].record /\ t.row = MissRow
    BY <1>1, <1>2, <2>1 DEF Transaction
  <2>3. Moves(w, "updateRow", tx[w]) \/ Moves(w, phase, t)
    BY <1>9, LoadRowMoves
  <2>4. phase \in {"rollback", "storeRow"}
    OBVIOUS
  <2> HIDE DEF phase, t
  <2>5. CASE Moves(w, "updateRow", tx[w])
    BY <1>2, <1>4, <1>5, <2>1, <2>5 DEF Deciding
  <2>6. CASE Moves(w, phase, t)
    BY <1>4, <1>5, <2>1, <2>2, <2>4, <2>6 DEF Deciding
  <2> QED
    BY <2>3, <2>5, <2>6
<1>10. ASSUME StoreRow(w) PROVE Neat'
  <2>1. /\ cachedRow' = IF cachedRow \in {MissRow, NoRow} THEN cachedRow ELSE View(w).row
        /\ undeletedRow' = undeletedRow /\ pc[w] # "uncacheRow"
    BY <1>10 DEF StoreRow
  <2>2. CacheTrueNow'
    BY <1>0, <1>1, <1>3, <2>1 DEF CacheTrue, CacheTrueNow
  <2>3. Moves(w, "updateRow", tx[w])
    BY <1>10, StoreRowMoves
  <2> QED
    BY <1>2, <1>5, <2>1, <2>2, <2>3 DEF Deciding
<1>11. ASSUME UpdateRow(w) PROVE Neat'
  <2>1. rowCache' = rowCache
    BY <1>11 DEF UpdateRow
  <2> DEFINE t == [tx[w] EXCEPT !.row = Shift(tx[w].base, Delta(w))]
  <2>2. t.snap = tx[w].snap /\ t.record = tx[w].record
    BY <1>1 DEF Transaction
  <2>3. Moves(w, "uncacheRow", t)
    BY <1>11, UpdateRowMoves
  <2> HIDE DEF t
  <2> QED
    BY <1>4, <1>5, <2>1, <2>2, <2>3 DEF Deciding
<1>12. ASSUME UncacheRow(w) PROVE Neat'
  <2>1. cachedRow' = MissRow \/ (undeletedRow' /\ cachedRow' = cachedRow)
    BY <1>12, DeletionTyped DEF UncacheRow
  <2>2. CacheTrueNow'
    BY <1>0, <1>1, <2>1 DEF CacheTrue, CacheTrueNow
  <2>3. Moves(w, "commit", tx[w])
    BY <1>12, UncacheRowMoves
  <2> QED
    BY <1>5, <2>1, <2>2, <2>3 DEF Deciding
<1> QED
  BY <1>6, <1>7, <1>8, <1>9, <1>10, <1>11, <1>12

\* Rows a commit changes are not cached, unless their deletion failed.
LEMMA NeatCommit ==
    ASSUME Typed, Alone, Neat, NEW w \in Processor, Commit(w)
    PROVE  CacheTrueNow'
<1>1. /\ pc[w] = "commit" /\ pc[w] # "idle" /\ UNCHANGED <<recordCache, rowCache>>
  BY DEF Commit, Cache
<1>2. /\ UserOf(w) \in User /\ tx[w].msg.user = UserOf(w)
      /\ Tidy("commit", tx[w], cachedRecord, undeletedRecords, cachedRow, undeletedRow)
      /\ CacheTrue(cachedRecord, undeletedRecords, cachedRow, undeletedRow)
  BY <1>1, Busy DEF UserOf, Neat, TidyNow, CacheTrueNow
<1>3. \A u \in User : u \in undeletedRecords \/ cachedRecord[u] \in {Miss, record'[u]}
  <2>1. CASE tx[w].record = Miss
    BY <1>2, <2>1 DEF Commit, CacheTrue
  <2>2. CASE tx[w].record # Miss
    <3>1. cachedRecord[UserOf(w)] = Miss \/ UserOf(w) \in undeletedRecords
      BY <1>2, <2>2 DEF Tidy
    <3>2. \A u \in User : u # UserOf(w) => record'[u] = record[u]
      BY <2>2 DEF Commit, Typed, StoreType
    <3> QED
      BY <1>2, <3>1, <3>2 DEF CacheTrue
  <2> QED
    BY <2>1, <2>2
<1>4. undeletedRow \/ cachedRow \in {MissRow, row'}
  BY <1>2 DEF Commit, CacheTrue, Tidy
<1> QED
  BY <1>1, <1>3, <1>4 DEF CacheTrueNow, CacheTrue

\* A step that leaves no processor busy.
LEMMA NeatIdle ==
    ASSUME Typed, Alone, NEW w \in Processor, pc[w] # "idle", End(w), UNCHANGED fill,
           CacheTrueNow'
    PROVE  Neat'
<1>1. \A v \in Processor : pc'[v] = "idle"
  BY DEF End, Goto, Typed, Alone
<1>2. \A r \in Reader : fill'[r] = NoFill
  BY DEF Alone
<1>3. FillsTrue'
  BY <1>2 DEF FillsTrue, NoFill
<1> QED
  BY <1>1, <1>3 DEF Neat

LEMMA NeatStep == Typed /\ Alone /\ Neat /\ [Next]_vars /\ Alone' => Neat'
<1> SUFFICES ASSUME Typed, Alone, Neat, [Next]_vars, Alone' PROVE Neat'
  OBVIOUS
<1> USE DEF Others, Cache, Database
<1>1. ASSUME NEW w \in Processor, Work(w) PROVE Neat'
  <2>1. CASE Commit(w)
    BY <2>1, NeatCommit, NeatIdle DEF Commit
  <2>2. CASE Rollback(w)
    BY <2>2, NeatIdle DEF Rollback, Neat, CacheTrueNow, CacheTrue
  <2> QED
    BY <1>1, <2>1, <2>2, NeatRecord, NeatCounts DEF Work
<1>2. ASSUME NEW w \in Processor, Fail(w) PROVE Neat'
  BY <1>2, NeatIdle DEF Fail, Neat, CacheTrueNow, CacheTrue
<1>3. ASSUME NEW w \in Processor, NEW m \in Message, Take(w, m) PROVE Neat'
  <2>1. CacheTrueNow' /\ FillsTrue'
    BY <1>3 DEF Take, Neat, CacheTrueNow, CacheTrue, FillsTrue
  <2>2. CASE Valid(m)
    <3>1. pc' = [pc EXCEPT ![w] = "findRecord"] /\ tx' = [tx EXCEPT ![w] = Begun(m)]
      BY <1>3, <2>2, TakeTyped
    <3>2. ASSUME NEW v \in Processor, pc'[v] # "idle" PROVE TidyNow(v)'
      <4>1. v = w
        BY <3>1, <3>2 DEF Alone, Typed
      <4>2. pc'[v] = "findRecord" /\ tx'[v] = Begun(m)
        BY <3>1, <4>1 DEF Typed
      <4> QED
        BY <4>2 DEF TidyNow, Tidy, Begun, Deciding
    <3> QED
      BY <2>1, <3>2 DEF Neat
  <2>3. CASE ~ Valid(m)
    BY <1>3, <2>1, <2>3 DEF Take, Neat, TidyNow, Tidy
  <2> QED
    BY <2>2, <2>3
<1>4. ASSUME \E r \in Reader : ReadRow(r) \/ FillCache(r) \/ \E u \in User : ReadRecord(r, u)
      PROVE  \A w \in Processor : pc'[w] = "idle"
  <2>1. PICK r \in Reader : ReadRow(r) \/ FillCache(r) \/ \E u \in User : ReadRecord(r, u)
    BY <1>4
  <2>2. fill[r] # NoFill \/ fill'[r] # NoFill
    BY <2>1 DEF ReadRow, FillCache, ReadRecord, Typed, NoFill
  <2>3. pc' = pc
    BY <2>1 DEF ReadRow, FillCache, ReadRecord
  <2> QED
    BY <2>2, <2>3 DEF Alone
<1>5. ASSUME NEW r \in Reader, NEW u \in User, ReadRecord(r, u) PROVE Neat'
  <2>1. FillsTrue'
    BY <1>5 DEF ReadRecord, Typed, Neat, FillsTrue
  <2>2. CacheTrueNow'
    BY <1>5 DEF ReadRecord, Neat, CacheTrueNow, CacheTrue
  <2> QED
    BY <1>4, <1>5, <2>1, <2>2 DEF Neat
<1>6. ASSUME NEW r \in Reader, ReadRow(r) PROVE Neat'
  <2>1. FillsTrue'
    BY <1>6 DEF ReadRow, Typed, Neat, FillsTrue
  <2>2. CacheTrueNow'
    BY <1>6 DEF ReadRow, Neat, CacheTrueNow, CacheTrue
  <2> QED
    BY <1>4, <1>6, <2>1, <2>2 DEF Neat
<1>7. ASSUME NEW r \in Reader, FillCache(r) PROVE Neat'
  <2>1. FillsTrue'
    BY <1>7 DEF FillCache, Typed, NoFill, Neat, FillsTrue
  <2>2. fill[r] \in Fills /\ fill[r] # NoFill
    BY <1>7 DEF FillCache, Typed
  <2>3. CASE fill[r].table # "row"
    <3>1. /\ fill[r].user \in User /\ fill[r].value = record[fill[r].user]
          /\ CacheRecord(fill[r].user, fill[r].value)
          /\ UNCHANGED <<undeletedRecords, rowCache, record, row>>
      BY <1>7, <2>2, <2>3 DEF FillCache, Fills, Neat, FillsTrue
    <3>2. CacheTrueNow'
      BY <3>1 DEF CacheRecord, Neat, CacheTrueNow, CacheTrue, Typed, StoreType
    <3> QED
      BY <1>4, <1>7, <2>1, <3>2 DEF Neat
  <2>4. CASE fill[r].table = "row"
    <3>1. /\ fill[r].value = row /\ CacheRow(fill[r].value)
          /\ UNCHANGED <<undeletedRow, recordCache, record, row>>
      BY <1>7, <2>4 DEF FillCache, Neat, FillsTrue
    <3>2. CacheTrueNow'
      BY <3>1 DEF CacheRow, Neat, CacheTrueNow, CacheTrue
    <3> QED
      BY <1>4, <1>7, <2>1, <3>2 DEF Neat
  <2> QED
    BY <2>3, <2>4
<1>8. ASSUME NEW u \in User, ExpireRecord(u) PROVE Neat'
  <2>1. UNCHANGED <<pc, tx, record, row, rowCache, fill>>
    BY <1>8 DEF ExpireRecord
  <2>2. /\ \A v \in User : v # u => /\ cachedRecord'[v] = cachedRecord[v]
                                    /\ v \in undeletedRecords' <=> v \in undeletedRecords
        /\ cachedRecord'[u] = Miss
    BY <1>8 DEF ExpireRecord, Typed, StoreType
  <2>3. CacheTrueNow' /\ FillsTrue'
    <3>1. ASSUME NEW v \in User
          PROVE  v \in undeletedRecords' \/ cachedRecord'[v] \in {Miss, record'[v]}
      BY <2>1, <2>2 DEF Neat, CacheTrueNow, CacheTrue
    <3>2. undeletedRow' \/ cachedRow' \in {MissRow, row'}
      BY <2>1 DEF Neat, CacheTrueNow, CacheTrue
    <3>3. FillsTrue'
      BY <2>1 DEF Neat, FillsTrue
    <3> QED
      BY <3>1, <3>2, <3>3 DEF CacheTrueNow, CacheTrue
  <2>4. ASSUME NEW w \in Processor, pc'[w] # "idle" PROVE TidyNow(w)'
    <3>1. tx[w].msg.user \in User /\ TidyNow(w)
      BY <2>1, <2>4, Busy DEF UserOf, Neat
    <3>2. UNCHANGED <<pc, tx, record, row, cachedRow, undeletedRow>>
      BY <2>1
    <3>3. (cachedRecord[tx[w].msg.user] = Miss \/ tx[w].msg.user \in undeletedRecords)
            => (cachedRecord'[tx[w].msg.user] = Miss \/ tx[w].msg.user \in undeletedRecords')
      BY <2>2, <3>1
    <3> QED
      BY <3>1, <3>2, <3>3 DEF TidyNow, Tidy
  <2> QED
    BY <2>3, <2>4 DEF Neat
<1>9. CASE ExpireRow
  <2>1. CacheTrueNow' /\ FillsTrue'
    BY <1>9 DEF ExpireRow, Neat, CacheTrueNow, CacheTrue, FillsTrue
  <2>2. ASSUME NEW w \in Processor, pc'[w] # "idle" PROVE TidyNow(w)'
    BY <1>9, <2>2 DEF ExpireRow, Neat, TidyNow, Tidy
  <2> QED
    BY <2>1, <2>2 DEF Neat
<1>10. CASE UNCHANGED vars
  BY <1>10 DEF vars, Neat, CacheTrueNow, CacheTrue, FillsTrue, TidyNow, Tidy
<1> QED
  BY <1>1, <1>2, <1>3, <1>5, <1>6, <1>7, <1>8, <1>9, <1>10 DEF Next

\* While an object's messages are handled one at a time the cache, when nothing
\* is in progress, holds only committed rows, whatever failed transactions read,
\* filled and deleted - except the very entries that a failed deletion left.
THEOREM CacheStaysCoherent == Spec /\ []Alone => []CacheCoherent
<1>1. Init => Neat
  BY DEF Init, Neat, CacheTrueNow, CacheTrue, FillsTrue, NoFill
<1>2. Neat => CacheCoherent
  BY DEF Neat, CacheTrueNow, CacheTrue, CacheCoherent
<1> QED
  BY <1>1, <1>2, NeatStep, TypedHolds, PTL DEF Spec

--------------------------------------------------------------------------------
(* The ledger.  As long as, besides, no deletion has left a row in the cache,  *)
(* every commit is a step of LikeLedger.                                       *)

\* The records and counts as they will be when t commits.
Voted(t) == [record EXCEPT ![t.msg.user] = t.msg.type]

\* How far a transaction has come, given the cached rows.
Progress(phase, t, cRecord, cRow) ==
    LET u == t.msg.user IN
    /\ t.snap \subseteq {[record |-> record, row |-> row]}
    /\ phase \in {"findRecord", "fillRecord", "insertRecord", "loadRecord", "storeRecord",
                  "updateRecord", "commit"}
                 \cup (Counting \ {"refindRow", "refillRow"})
    /\ phase # "findRecord" => t.old = record[u]
    /\ phase = "insertRecord" => t.old = NoVote
    /\ phase \in {"loadRecord", "storeRecord", "updateRecord"} => t.old # NoVote
    /\ phase \in Deciding => t.record = Miss /\ t.row = MissRow
    /\ phase \in Counting => t.record = t.msg.type
    /\ phase \in Counting \ {"uncacheRecord"} => cRecord[u] = Miss
    /\ phase \in Counting \ {"uncacheRow"} => t.row = MissRow
    /\ phase \in {"fillRow", "insertRow", "loadRow", "storeRow", "updateRow"} => t.base = row
    /\ phase = "insertRow" => row = NoRow
    /\ phase \in {"loadRow", "storeRow", "updateRow"} => row # NoRow
    /\ phase = "uncacheRow" => t.row = CountsOf(Voted(t))
    /\ phase = "commit" =>
         \/ t.record = Miss /\ t.row = MissRow /\ record[u] = t.msg.type
         \/ /\ t.record = t.msg.type /\ t.row = CountsOf(Voted(t))
            /\ cRecord[u] = Miss /\ cRow = MissRow

\* Cached rows are the committed rows.
Coherent(cRecord, cRow) ==
    /\ \A u \in User : cRecord[u] \in {Miss, record[u]}
    /\ cRow \in {MissRow, row}

Counts == IF row = NoRow THEN NoCounts ELSE row

Serial ==
    /\ Coherent(cachedRecord, cachedRow)
    /\ FillsTrue
    /\ Counts = CountsOf(record)
    /\ \A w \in Processor : pc[w] # "idle" => Progress(pc[w], tx[w], cachedRecord, cachedRow)

\* A step of the only busy processor that commits nothing.
LEMMA SerialMove ==
    ASSUME Typed, Alone, Serial, NEW w \in Processor, pc[w] # "idle", NEW phase, NEW t,
           Moves(w, phase, t), Database, UNCHANGED fill,
           Coherent(cachedRecord', cachedRow'),
           Progress(phase, t, cachedRecord', cachedRow')
    PROVE  Serial'
<1>1. pc'[w] = phase /\ tx'[w] = t /\ record' = record /\ row' = row
  BY DEF Typed, Moves, Database
<1>2. Coherent(cachedRecord, cachedRow)' /\ FillsTrue' /\ (Counts = CountsOf(record))'
  BY <1>1 DEF Serial, Coherent, FillsTrue, Counts
<1>3. ASSUME NEW v \in Processor, pc'[v] # "idle"
      PROVE  Progress(pc[v], tx[v], cachedRecord, cachedRow)'
  <2>1. v = w
    BY <1>3 DEF Typed, Moves, Alone
  <2>2. pc'[v] = phase /\ tx'[v] = t
    BY <1>1, <2>1
  <2>3. Progress(phase, t, cachedRecord, cachedRow)' <=> Progress(phase, t, cachedRecord', cachedRow')
    BY <1>1 DEF Progress, Voted
  <2> QED
    BY <2>2, <2>3 DEF Progress, Voted
<1> QED
  BY <1>2, <1>3 DEF Serial

\* A step that leaves no processor busy.
LEMMA SerialIdle ==
    ASSUME Typed, Alone, Serial, NEW w \in Processor, pc[w] # "idle", End(w), UNCHANGED fill,
           Coherent(cachedRecord, cachedRow)', FillsTrue', (Counts = CountsOf(record))'
    PROVE  Serial'
<1>1. \A v \in Processor : pc'[v] = "idle"
  BY DEF End, Goto, Typed, Alone
<1> QED
  BY <1>1 DEF Serial

\* The snapshot of the only transaction is what is committed.
LEMMA ViewCommitted ==
    ASSUME Typed, Serial, NEW w \in Processor, pc[w] # "idle"
    PROVE  View(w) = [record |-> record, row |-> row]
<1>1. tx[w].snap \subseteq {[record |-> record, row |-> row]}
  BY DEF Serial, Progress
<1>2. CASE tx[w].snap = {}
  BY <1>2 DEF View
<1>3. CASE tx[w].snap # {}
  <2>1. (CHOOSE s \in tx[w].snap : TRUE) \in tx[w].snap
    BY <1>3
  <2> QED
    BY <1>1, <1>3, <2>1 DEF View
<1> QED
  BY <1>2, <1>3

\* The counts a transaction computes are those of the records after its vote.
LEMMA DeltaOfRecords ==
    ASSUME IsFiniteSet(User), Typed, Serial, NEW w \in Processor, pc[w] # "idle",
           tx[w].old = record[UserOf(w)]
    PROVE  Shift(Counts, Delta(w)) = CountsOf(Voted(tx[w]))
<1>1. record \in [User -> Votes] /\ UserOf(w) \in User /\ TypeOf(w) \in LikeTypes
  BY Busy DEF Typed, StoreType
<1>2. Revote(User, record, Voted(tx[w]), UserOf(w), TypeOf(w))
  BY <1>1 DEF Revote, Voted, UserOf, TypeOf, Votes
<1>3. Counts = CountsOf(record)
  BY DEF Serial
<1>4. Delta(w) = VoteDelta(record[UserOf(w)], TypeOf(w))
  BY DEF Delta
<1> QED
  BY <1>1, <1>2, <1>3, <1>4, DeltaOfRevote

\* The counts of any records are natural numbers, so never NoRow.
LEMMA CountsOfTyped ==
    ASSUME IsFiniteSet(User), NEW votes \in [User -> Votes]
    PROVE  CountsOf(votes) \in CachedCounts /\ CountsOf(votes) # NoRow
<1>1. /\ Cardinality(Voters(votes, LikeTypeThumbup)) \in Nat
      /\ Cardinality(Voters(votes, LikeTypeThumbdown)) \in Nat
  BY VotersFinite
<1> QED
  BY <1>1 DEF CountsOf, CachedCounts, NoRow, NoVote

LEMMA SerialRecord ==
    ASSUME Typed, Alone, Serial, Clean', NEW w \in Processor,
           \/ \E again \in BOOLEAN : FindRecord(w, again) \/ FillRecord(w, again)
           \/ InsertRecord(w) \/ LoadRecord(w) \/ StoreRecord(w) \/ UpdateRecord(w)
           \/ UncacheRecord(w)
    PROVE  Serial'
<1> USE DEF Others, Cache
<1>0. pc[w] # "idle"
  BY DEF FindRecord, FillRecord, InsertRecord, LoadRecord, StoreRecord, UpdateRecord,
         UncacheRecord
<1>1. /\ tx[w] \in Transaction /\ UserOf(w) \in User /\ TypeOf(w) \in LikeTypes
      /\ View(w) = [record |-> record, row |-> row]
  BY <1>0, Busy, ViewCommitted
<1>2. /\ tx[w].msg.user = UserOf(w) /\ tx[w].msg.type = TypeOf(w)
      /\ Miss \notin LikeTypes /\ Miss # NoVote /\ NoVote \notin LikeTypes
  BY DEF UserOf, TypeOf, LikeTypes, LikeTypeThumbup, LikeTypeThumbdown, Miss, NoVote
<1>3. /\ Progress(pc[w], tx[w], cachedRecord, cachedRow)
      /\ Coherent(cachedRecord, cachedRow)
  BY <1>0 DEF Serial
<1>4. cachedRecord[UserOf(w)] \in {Miss, record[UserOf(w)]}
  BY <1>1, <1>3 DEF Coherent
<1>5. pc[w] \notin {"refindRecord", "refillRecord"}
  BY <1>3 DEF Progress, Counting, Deciding
<1>6. ASSUME NEW again \in BOOLEAN, FindRecord(w, again) PROVE Serial'
  <2>1. /\ pc[w] = "findRecord" /\ again = FALSE /\ Database
        /\ cachedRecord' = cachedRecord /\ cachedRow' = cachedRow /\ fill' = fill
    BY <1>5, <1>6 DEF FindRecord
  <2>2. CASE cachedRecord[UserOf(w)] # Miss
    <3> DEFINE phase == Decide(w, cachedRecord[UserOf(w)], again)
               t == [tx[w] EXCEPT !.old = cachedRecord[UserOf(w)]]
    <3>1. Moves(w, phase, t)
      BY <1>6, <2>2, FindRecordMoves
    <3>2. /\ t.snap = tx[w].snap /\ t.row = tx[w].row /\ t.record = tx[w].record
          /\ t.msg = tx[w].msg /\ t.old = record[UserOf(w)]
      BY <1>1, <1>4, <2>2 DEF Transaction
    <3>3. /\ phase \in {"commit", "loadRecord", "insertRecord"}
          /\ phase = "commit" => record[UserOf(w)] = TypeOf(w)
          /\ phase = "loadRecord" => record[UserOf(w)] # NoVote
          /\ phase = "insertRecord" => record[UserOf(w)] = NoVote
      BY <1>4, <2>1, <2>2 DEF Decide
    <3> HIDE DEF phase, t
    <3>4. Progress(phase, t, cachedRecord', cachedRow')
      BY <1>2, <1>3, <2>1, <3>2, <3>3 DEF Progress, Counting, Deciding
    <3> QED
      BY <1>0, <1>3, <2>1, <3>1, <3>4, SerialMove
  <2>3. CASE cachedRecord[UserOf(w)] = Miss
    <3> DEFINE t == [tx[w] EXCEPT !.old = View(w).record[UserOf(w)], !.snap = {View(w)}]
    <3>1. Moves(w, "fillRecord", t)
      BY <1>6, <2>1, <2>3, FindRecordMoves
    <3>2. /\ t.snap = {[record |-> record, row |-> row]} /\ t.row = tx[w].row
          /\ t.record = tx[w].record /\ t.msg = tx[w].msg /\ t.old = record[UserOf(w)]
      BY <1>1 DEF Transaction
    <3> HIDE DEF t
    <3>3. Progress("fillRecord", t, cachedRecord', cachedRow')
      BY <1>2, <1>3, <2>1, <3>2 DEF Progress, Counting, Deciding
    <3> QED
      BY <1>0, <1>3, <2>1, <3>1, <3>3, SerialMove
  <2> QED
    BY <2>2, <2>3
<1>7. ASSUME NEW again \in BOOLEAN, FillRecord(w, again) PROVE Serial'
  <2>1. /\ pc[w] = "fillRecord" /\ again = FALSE /\ Database
        /\ cachedRow' = cachedRow /\ fill' = fill /\ CacheRecord(UserOf(w), tx[w].old)
    BY <1>5, <1>7 DEF FillRecord
  <2> DEFINE phase == Decide(w, tx[w].old, again)
  <2>2. tx[w].old = record[UserOf(w)]
    BY <1>2, <1>3, <2>1 DEF Progress
  <2>3. /\ phase \in {"commit", "loadRecord", "insertRecord"}
        /\ phase = "commit" => record[UserOf(w)] = TypeOf(w)
        /\ phase = "loadRecord" => record[UserOf(w)] # NoVote
        /\ phase = "insertRecord" => record[UserOf(w)] = NoVote
    BY <2>1, <2>2 DEF Decide
  <2>4. Moves(w, phase, tx[w])
    BY <1>7, FillRecordMoves
  <2> HIDE DEF phase
  <2>5. Coherent(cachedRecord', cachedRow')
    BY <1>1, <1>3, <2>1, <2>2 DEF Coherent, CacheRecord, Typed, StoreType
  <2>6. Progress(phase, tx[w], cachedRecord', cachedRow')
    BY <1>2, <1>3, <2>1, <2>2, <2>3 DEF Progress, Counting, Deciding
  <2> QED
    BY <1>0, <2>1, <2>4, <2>5, <2>6, SerialMove
<1>8. ASSUME InsertRecord(w) PROVE Serial'
  <2>1. /\ pc[w] = "insertRecord" /\ Database
        /\ cachedRecord' = cachedRecord /\ cachedRow' = cachedRow /\ fill' = fill
    BY <1>8 DEF InsertRecord
  <2>2. record[UserOf(w)] = NoVote
    BY <1>2, <1>3, <2>1 DEF Progress
  <2> DEFINE t == [tx[w] EXCEPT !.record = TypeOf(w)]
  <2>3. Moves(w, "uncacheRecord", t)
    BY <1>8, <2>2, InsertRecordMoves
  <2>4. /\ t.snap = tx[w].snap /\ t.row = tx[w].row /\ t.record = TypeOf(w)
        /\ t.msg = tx[w].msg /\ t.old = tx[w].old
    BY <1>1 DEF Transaction
  <2> HIDE DEF t
  <2>5. Progress("uncacheRecord", t, cachedRecord', cachedRow')
    BY <1>2, <1>3, <2>1, <2>4 DEF Progress, Counting, Deciding
  <2> QED
    BY <1>0, <1>3, <2>1, <2>3, <2>5, SerialMove
<1>9. ASSUME UpdateRecord(w) PROVE Serial'
  <2>1. /\ pc[w] = "updateRecord" /\ Database
        /\ cachedRecord' = cachedRecord /\ cachedRow' = cachedRow /\ fill' = fill
    BY <1>9 DEF UpdateRecord
  <2> DEFINE t == [tx[w] EXCEPT !.record = TypeOf(w)]
  <2>2. Moves(w, "uncacheRecord", t)
    BY <1>9, UpdateRecordMoves
  <2>3. /\ t.snap = tx[w].snap /\ t.row = tx[w].row /\ t.record = TypeOf(w)
        /\ t.msg = tx[w].msg /\ t.old = tx[w].old
    BY <1>1 DEF Transaction
  <2> HIDE DEF t
  <2>4. Progress("uncacheRecord", t, cachedRecord', cachedRow')
    BY <1>2, <1>3, <2>1, <2>3 DEF Progress, Counting, Deciding
  <2> QED
    BY <1>0, <1>3, <2>1, <2>2, <2>4, SerialMove
<1>11. ASSUME LoadRecord(w) PROVE Serial'
  <2>1. /\ pc[w] = "loadRecord" /\ Database
        /\ cachedRecord' = cachedRecord /\ cachedRow' = cachedRow /\ fill' = fill
    BY <1>11 DEF LoadRecord
  <2>2. View(w).record[UserOf(w)] # NoVote
    BY <1>1, <1>2, <1>3, <2>1 DEF Progress
  <2> DEFINE t == [tx[w] EXCEPT !.snap = {View(w)}]
  <2>3. Moves(w, "updateRecord", tx[w]) \/ Moves(w, "storeRecord", t)
    BY <1>11, <2>2, LoadRecordMoves
  <2>4. /\ t.snap = {[record |-> record, row |-> row]} /\ t.row = tx[w].row
        /\ t.record = tx[w].record /\ t.msg = tx[w].msg /\ t.old = tx[w].old
    BY <1>1 DEF Transaction
  <2> HIDE DEF t
  <2>5. /\ Progress("updateRecord", tx[w], cachedRecord', cachedRow')
        /\ Progress("storeRecord", t, cachedRecord', cachedRow')
    BY <1>2, <1>3, <2>1, <2>4 DEF Progress, Counting, Deciding
  <2> QED
    BY <1>0, <1>3, <2>1, <2>3, <2>5, SerialMove
<1>12. ASSUME StoreRecord(w) PROVE Serial'
  <2>1. /\ pc[w] = "storeRecord" /\ Database /\ cachedRow' = cachedRow /\ fill' = fill
    BY <1>12 DEF StoreRecord
  <2>2. /\ Moves(w, "updateRecord", tx[w])
        /\ \A u \in User : cachedRecord'[u] =
             IF u = UserOf(w) /\ cachedRecord[u] \in LikeTypes
             THEN View(w).record[u] ELSE cachedRecord[u]
    BY <1>12, StoreRecordMoves
  <2>3. Coherent(cachedRecord', cachedRow')
    BY <1>1, <1>3, <2>1, <2>2 DEF Coherent
  <2>4. Progress("updateRecord", tx[w], cachedRecord', cachedRow')
    BY <1>2, <1>3, <2>1 DEF Progress, Counting, Deciding
  <2> QED
    BY <1>0, <2>1, <2>2, <2>3, <2>4, SerialMove
<1>10. ASSUME UncacheRecord(w) PROVE Serial'
  <2>1. /\ pc[w] = "uncacheRecord" /\ Database /\ cachedRow' = cachedRow /\ fill' = fill
        /\ DeleteRecord(UserOf(w))
    BY <1>10 DEF UncacheRecord
  <2>2. Coherent(cachedRecord', cachedRow') /\ cachedRecord'[UserOf(w)] = Miss
    <3>1. /\ \A v \in User : v # UserOf(w) => cachedRecord'[v] = cachedRecord[v]
          /\ cachedRecord'[UserOf(w)] = Miss
      BY <1>1, <2>1, DeletionTyped DEF Clean
    <3> QED
      BY <1>1, <1>3, <2>1, <3>1 DEF Coherent
  <2>3. Progress("findRow", tx[w], cachedRecord', cachedRow')
    BY <1>2, <1>3, <2>1, <2>2 DEF Progress, Counting, Deciding
  <2> QED
    BY <1>0, <1>10, <2>1, <2>2, <2>3, UncacheRecordMoves, SerialMove
<1> QED
  BY <1>6, <1>7, <1>8, <1>9, <1>10, <1>11, <1>12

LEMMA SerialCounts ==
    ASSUME IsFiniteSet(User), Typed, Alone, Serial, Clean', NEW w \in Processor,
           \/ \E again \in BOOLEAN : FindRow(w, again) \/ FillRow(w, again)
           \/ InsertRow(w) \/ LoadRow(w) \/ StoreRow(w) \/ UpdateRow(w) \/ UncacheRow(w)
    PROVE  Serial'
<1> USE DEF Others, Cache
<1>0. pc[w] # "idle"
  BY DEF FindRow, FillRow, InsertRow, LoadRow, StoreRow, UpdateRow, UncacheRow
<1>1. /\ tx[w] \in Transaction /\ UserOf(w) \in User /\ TypeOf(w) \in LikeTypes
      /\ View(w) = [record |-> record, row |-> row]
  BY <1>0, Busy, ViewCommitted
<1>2. /\ tx[w].msg.user = UserOf(w) /\ tx[w].msg.type = TypeOf(w)
      /\ Miss \notin LikeTypes /\ NoRow # MissRow
  BY DEF UserOf, TypeOf, LikeTypes, LikeTypeThumbup, LikeTypeThumbdown, Miss, NoRow,
         MissRow, NoVote
<1>3. /\ Progress(pc[w], tx[w], cachedRecord, cachedRow)
      /\ Coherent(cachedRecord, cachedRow)
  BY <1>0 DEF Serial
<1>4. cachedRow \in {MissRow, row} /\ row \in Rows
  BY <1>3 DEF Coherent, Typed, StoreType
<1>5. pc[w] \notin {"refindRow", "refillRow"}
  BY <1>3 DEF Progress, Counting, Deciding
<1>6. ASSUME NEW again \in BOOLEAN, FindRow(w, again) PROVE Serial'
  <2>1. /\ pc[w] = "findRow" /\ again = FALSE /\ Database
        /\ cachedRecord' = cachedRecord /\ cachedRow' = cachedRow /\ fill' = fill
    BY <1>5, <1>6 DEF FindRow
  <2>2. CASE cachedRow # MissRow
    <3> DEFINE phase == DecideRow(cachedRow, again)
               t == [tx[w] EXCEPT !.base = cachedRow]
    <3>1. Moves(w, phase, t)
      BY <1>6, <2>2, FindRowMoves
    <3>2. /\ t.snap = tx[w].snap /\ t.row = tx[w].row /\ t.record = tx[w].record
          /\ t.msg = tx[w].msg /\ t.old = tx[w].old /\ t.base = row
      BY <1>1, <1>4, <2>2 DEF Transaction
    <3>3. /\ phase \in {"loadRow", "insertRow"}
          /\ phase = "loadRow" => row # NoRow
          /\ phase = "insertRow" => row = NoRow
      BY <1>4, <2>1, <2>2 DEF DecideRow
    <3> HIDE DEF phase, t
    <3>4. Progress(phase, t, cachedRecord', cachedRow')
      BY <1>2, <1>3, <2>1, <3>2, <3>3 DEF Progress, Counting, Deciding
    <3> QED
      BY <1>0, <1>3, <2>1, <3>1, <3>4, SerialMove
  <2>3. CASE cachedRow = MissRow
    <3> DEFINE t == [tx[w] EXCEPT !.base = View(w).row, !.snap = {View(w)}]
    <3>1. Moves(w, "fillRow", t)
      BY <1>6, <2>1, <2>3, FindRowMoves
    <3>2. /\ t.snap = {[record |-> record, row |-> row]} /\ t.row = tx[w].row
          /\ t.record = tx[w].record /\ t.msg = tx[w].msg /\ t.old = tx[w].old
          /\ t.base = row
      BY <1>1 DEF Transaction
    <3> HIDE DEF t
    <3>3. Progress("fillRow", t, cachedRecord', cachedRow')
      BY <1>2, <1>3, <2>1, <3>2 DEF Progress, Counting, Deciding
    <3> QED
      BY <1>0, <1>3, <2>1, <3>1, <3>3, SerialMove
  <2> QED
    BY <2>2, <2>3
<1>7. ASSUME NEW again \in BOOLEAN, FillRow(w, again) PROVE Serial'
  <2>1. /\ pc[w] = "fillRow" /\ again = FALSE /\ Database
        /\ cachedRecord' = cachedRecord /\ fill' = fill /\ CacheRow(tx[w].base)
    BY <1>5, <1>7 DEF FillRow
  <2> DEFINE phase == DecideRow(tx[w].base, again)
  <2>2. tx[w].base = row
    BY <1>3, <2>1 DEF Progress
  <2>3. /\ phase \in {"loadRow", "insertRow"}
        /\ phase = "loadRow" => row # NoRow
        /\ phase = "insertRow" => row = NoRow
    BY <2>1, <2>2 DEF DecideRow
  <2>4. Moves(w, phase, tx[w])
    BY <1>7, FillRowMoves
  <2> HIDE DEF phase
  <2>5. Coherent(cachedRecord', cachedRow')
    BY <1>3, <2>1, <2>2 DEF Coherent, CacheRow
  <2>6. Progress(phase, tx[w], cachedRecord', cachedRow')
    BY <1>2, <1>3, <2>1, <2>2, <2>3 DEF Progress, Counting, Deciding
  <2> QED
    BY <1>0, <2>1, <2>4, <2>5, <2>6, SerialMove
<1>8. ASSUME pc[w] \in {"insertRow", "updateRow"}
      PROVE  /\ tx[w].old = record[UserOf(w)]
             /\ Shift(Counts, Delta(w)) = CountsOf(Voted(tx[w]))
  <2>1. tx[w].old = record[UserOf(w)]
    BY <1>2, <1>3, <1>8 DEF Progress
  <2> QED
    BY <1>0, <2>1, DeltaOfRecords
<1>9. ASSUME InsertRow(w) PROVE Serial'
  <2>1. /\ pc[w] = "insertRow" /\ Database
        /\ cachedRecord' = cachedRecord /\ cachedRow' = cachedRow /\ fill' = fill
    BY <1>9 DEF InsertRow
  <2>2. row = NoRow /\ Counts = NoCounts
    BY <1>3, <2>1 DEF Progress, Counts
  <2> DEFINE t == [tx[w] EXCEPT !.row = Shift(NoCounts, Delta(w))]
  <2>3. Moves(w, "uncacheRow", t)
    BY <1>9, <2>2, InsertRowMoves
  <2>4. /\ t.snap = tx[w].snap /\ t.record = tx[w].record /\ t.msg = tx[w].msg
        /\ t.old = tx[w].old /\ t.row = CountsOf(Voted(tx[w]))
    BY <1>1, <1>8, <2>1, <2>2 DEF Transaction
  <2> HIDE DEF t
  <2>5. t.row = CountsOf(Voted(t))
    BY <2>4 DEF Voted
  <2>6. Progress("uncacheRow", t, cachedRecord', cachedRow')
    BY <1>2, <1>3, <2>1, <2>4, <2>5 DEF Progress, Counting, Deciding
  <2> QED
    BY <1>0, <1>3, <2>1, <2>3, <2>6, SerialMove
<1>10. ASSUME UpdateRow(w) PROVE Serial'
  <2>1. /\ pc[w] = "updateRow" /\ Database
        /\ cachedRecord' = cachedRecord /\ cachedRow' = cachedRow /\ fill' = fill
    BY <1>10 DEF UpdateRow
  <2>2. tx[w].base = Counts
    BY <1>3, <2>1 DEF Progress, Counts
  <2> DEFINE t == [tx[w] EXCEPT !.row = Shift(tx[w].base, Delta(w))]
  <2>3. Moves(w, "uncacheRow", t)
    BY <1>10, UpdateRowMoves
  <2>4. /\ t.snap = tx[w].snap /\ t.record = tx[w].record /\ t.msg = tx[w].msg
        /\ t.old = tx[w].old /\ t.row = CountsOf(Voted(tx[w]))
    BY <1>1, <1>8, <2>1, <2>2 DEF Transaction
  <2> HIDE DEF t
  <2>5. t.row = CountsOf(Voted(t))
    BY <2>4 DEF Voted
  <2>6. Progress("uncacheRow", t, cachedRecord', cachedRow')
    BY <1>2, <1>3, <2>1, <2>4, <2>5 DEF Progress, Counting, Deciding
  <2> QED
    BY <1>0, <1>3, <2>1, <2>3, <2>6, SerialMove
<1>12. ASSUME LoadRow(w) PROVE Serial'
  <2>1. /\ pc[w] = "loadRow" /\ Database
        /\ cachedRecord' = cachedRecord /\ cachedRow' = cachedRow /\ fill' = fill
    BY <1>12 DEF LoadRow
  <2>2. View(w).row # NoRow
    BY <1>1, <1>3, <2>1 DEF Progress
  <2> DEFINE t == [tx[w] EXCEPT !.snap = {View(w)}]
  <2>3. Moves(w, "updateRow", tx[w]) \/ Moves(w, "storeRow", t)
    BY <1>12, <2>2, LoadRowMoves
  <2>4. /\ t.snap = {[record |-> record, row |-> row]} /\ t.row = tx[w].row
        /\ t.record = tx[w].record /\ t.msg = tx[w].msg /\ t.old = tx[w].old
        /\ t.base = tx[w].base
    BY <1>1 DEF Transaction
  <2> HIDE DEF t
  <2>5. /\ Progress("updateRow", tx[w], cachedRecord', cachedRow')
        /\ Progress("storeRow", t, cachedRecord', cachedRow')
    BY <1>2, <1>3, <2>1, <2>4 DEF Progress, Counting, Deciding
  <2> QED
    BY <1>0, <1>3, <2>1, <2>3, <2>5, SerialMove
<1>13. ASSUME StoreRow(w) PROVE Serial'
  <2>1. /\ pc[w] = "storeRow" /\ Database /\ cachedRecord' = cachedRecord /\ fill' = fill
        /\ cachedRow' = IF cachedRow \in {MissRow, NoRow} THEN cachedRow ELSE View(w).row
    BY <1>13 DEF StoreRow
  <2>2. Coherent(cachedRecord', cachedRow')
    BY <1>1, <1>3, <2>1 DEF Coherent
  <2>3. Progress("updateRow", tx[w], cachedRecord', cachedRow')
    BY <1>2, <1>3, <2>1 DEF Progress, Counting, Deciding
  <2> QED
    BY <1>0, <1>13, <2>1, <2>2, <2>3, StoreRowMoves, SerialMove
<1>11. ASSUME UncacheRow(w) PROVE Serial'
  <2>1. /\ pc[w] = "uncacheRow" /\ Database /\ cachedRow' = MissRow /\ fill' = fill
        /\ cachedRecord' = cachedRecord
    BY <1>11, DeletionTyped DEF UncacheRow, Clean
  <2>2. Coherent(cachedRecord', cachedRow')
    BY <1>3, <2>1 DEF Coherent
  <2>3. Progress("commit", tx[w], cachedRecord', cachedRow')
    BY <1>2, <1>3, <2>1 DEF Progress, Counting, Deciding
  <2> QED
    BY <1>0, <1>11, <2>1, <2>2, <2>3, UncacheRowMoves, SerialMove
<1> QED
  BY <1>6, <1>7, <1>9, <1>10, <1>11, <1>12, <1>13

\* A commit records the vote of its message and leaves the counts of the records.
LEMMA CommitCounts ==
    ASSUME IsFiniteSet(User), Typed, Alone, Serial, NEW w \in Processor, Commit(w)
    PROVE  /\ UserOf(w) \in User /\ TypeOf(w) \in LikeTypes
           /\ record' = [record EXCEPT ![UserOf(w)] = TypeOf(w)]
           /\ Counts' = CountsOf(record')
           /\ Coherent(cachedRecord, cachedRow)'
<1>0. pc[w] = "commit" /\ pc[w] # "idle" /\ cachedRecord' = cachedRecord /\ cachedRow' = cachedRow
  BY DEF Commit, Cache
<1>1. /\ UserOf(w) \in User /\ TypeOf(w) \in LikeTypes
      /\ tx[w].msg.user = UserOf(w) /\ tx[w].msg.type = TypeOf(w)
      /\ Miss \notin LikeTypes
      /\ record \in [User -> Votes] /\ row \in Rows
  BY <1>0, Busy DEF UserOf, TypeOf, LikeTypes, LikeTypeThumbup, LikeTypeThumbdown, Miss,
                    Typed, StoreType
<1>2. /\ Progress("commit", tx[w], cachedRecord, cachedRow)
      /\ Coherent(cachedRecord, cachedRow) /\ Counts = CountsOf(record)
  BY <1>0 DEF Serial
<1>3. CASE tx[w].record = Miss
  <2>1. tx[w].row = MissRow /\ record[UserOf(w)] = TypeOf(w)
    BY <1>1, <1>2, <1>3 DEF Progress
  <2>2. record' = record /\ row' = row
    BY <1>3, <2>1 DEF Commit
  <2>3. record = [record EXCEPT ![UserOf(w)] = TypeOf(w)]
    BY <1>1, <2>1
  <2> QED
    BY <1>0, <1>1, <1>2, <2>2, <2>3 DEF Counts, Coherent
<1>4. CASE tx[w].record # Miss
  <2>1. /\ tx[w].record = TypeOf(w) /\ tx[w].row = CountsOf(Voted(tx[w]))
        /\ cachedRecord[UserOf(w)] = Miss /\ cachedRow = MissRow
    BY <1>1, <1>2, <1>4 DEF Progress
  <2>2. Voted(tx[w]) = [record EXCEPT ![UserOf(w)] = TypeOf(w)]
    BY <1>1 DEF Voted
  <2>3. record' = Voted(tx[w])
    BY <1>4, <2>1, <2>2 DEF Commit
  <2>4. Voted(tx[w]) \in [User -> Votes]
    BY <1>1, <2>2 DEF Votes
  <2>5. CountsOf(Voted(tx[w])) \in CachedCounts /\ CountsOf(Voted(tx[w])) # NoRow
    BY <2>4, CountsOfTyped
  <2>6. tx[w].row # MissRow
    BY <2>1, <2>5 DEF CachedCounts, MissRow, Miss
  <2>7. row' = CountsOf(record')
    BY <2>1, <2>3, <2>6 DEF Commit
  <2>8. Counts' = CountsOf(record')
    BY <2>3, <2>5, <2>7 DEF Counts
  <2>9. Coherent(cachedRecord, cachedRow)'
    BY <1>0, <1>1, <1>2, <2>1, <2>2, <2>3 DEF Coherent
  <2> QED
    BY <1>1, <2>2, <2>3, <2>8, <2>9
<1> QED
  BY <1>3, <1>4

LEMMA SerialStep ==
    ASSUME IsFiniteSet(User), Typed, Alone, Serial, [Next]_vars, Alone', Clean'
    PROVE  Serial'
<1> USE DEF Others, Cache, Database
<1>1. ASSUME NEW w \in Processor, Work(w) PROVE Serial'
  <2>1. CASE Commit(w)
    <3>1. pc[w] # "idle" /\ End(w) /\ fill' = fill
      BY <2>1 DEF Commit
    <3>2. Coherent(cachedRecord, cachedRow)' /\ (Counts = CountsOf(record))'
      BY <2>1, CommitCounts
    <3>3. FillsTrue'
      BY <3>1 DEF Alone, FillsTrue, NoFill
    <3> QED
      BY <3>1, <3>2, <3>3, SerialIdle
  <2>2. CASE Rollback(w)
    <3>1. pc[w] # "idle" /\ End(w) /\ UNCHANGED <<fill, record, row, cachedRecord, cachedRow>>
      BY <2>2 DEF Rollback
    <3>2. /\ Coherent(cachedRecord, cachedRow)' /\ (Counts = CountsOf(record))' /\ FillsTrue'
      BY <3>1 DEF Serial, Coherent, Counts, FillsTrue
    <3> QED
      BY <3>1, <3>2, SerialIdle
  <2> QED
    BY <1>1, <2>1, <2>2, SerialRecord, SerialCounts DEF Work
<1>2. ASSUME NEW w \in Processor, Fail(w) PROVE Serial'
  <2>1. pc[w] # "idle" /\ End(w) /\ UNCHANGED <<fill, record, row, cachedRecord, cachedRow>>
    BY <1>2 DEF Fail
  <2>2. /\ Coherent(cachedRecord, cachedRow)' /\ (Counts = CountsOf(record))' /\ FillsTrue'
    BY <2>1 DEF Serial, Coherent, Counts, FillsTrue
  <2> QED
    BY <2>1, <2>2, SerialIdle
<1>3. ASSUME NEW w \in Processor, NEW m \in Message, Take(w, m) PROVE Serial'
  <2>1. /\ Coherent(cachedRecord, cachedRow)' /\ (Counts = CountsOf(record))' /\ FillsTrue'
    BY <1>3 DEF Take, Serial, Coherent, Counts, FillsTrue
  <2>2. CASE Valid(m)
    <3>1. pc' = [pc EXCEPT ![w] = "findRecord"] /\ tx' = [tx EXCEPT ![w] = Begun(m)]
      BY <1>3, <2>2, TakeTyped
    <3>2. Progress("findRecord", Begun(m), cachedRecord, cachedRow)
      BY DEF Progress, Begun, Counting
    <3>3. ASSUME NEW v \in Processor, pc'[v] # "idle"
          PROVE  Progress(pc[v], tx[v], cachedRecord, cachedRow)'
      <4>1. v = w
        BY <3>1, <3>3 DEF Alone, Typed
      <4>2. pc'[v] = "findRecord" /\ tx'[v] = Begun(m)
        BY <3>1, <4>1 DEF Typed
      <4> QED
        BY <1>3, <3>2, <4>2 DEF Take, Progress, Voted
    <3> QED
      BY <2>1, <3>3 DEF Serial
  <2>3. CASE ~ Valid(m)
    BY <1>3, <2>1, <2>3 DEF Take, Serial, Progress, Voted
  <2> QED
    BY <2>2, <2>3
<1>4. ASSUME \E r \in Reader : ReadRow(r) \/ FillCache(r) \/ \E u \in User : ReadRecord(r, u)
      PROVE  \A w \in Processor : pc[w] = "idle" /\ pc'[w] = "idle"
  <2>1. PICK r \in Reader : ReadRow(r) \/ FillCache(r) \/ \E u \in User : ReadRecord(r, u)
    BY <1>4
  <2>2. fill[r] # NoFill \/ fill'[r] # NoFill
    BY <2>1 DEF ReadRow, FillCache, ReadRecord, Typed, NoFill
  <2>3. pc' = pc
    BY <2>1 DEF ReadRow, FillCache, ReadRecord
  <2> QED
    BY <2>2, <2>3 DEF Alone
<1>5. ASSUME NEW r \in Reader, NEW u \in User, ReadRecord(r, u) PROVE Serial'
  <2>1. FillsTrue'
    BY <1>5 DEF ReadRecord, Typed, Serial, FillsTrue
  <2>2. Coherent(cachedRecord, cachedRow)' /\ (Counts = CountsOf(record))'
    BY <1>5 DEF ReadRecord, Serial, Coherent, Counts
  <2> QED
    BY <1>4, <1>5, <2>1, <2>2 DEF Serial
<1>6. ASSUME NEW r \in Reader, ReadRow(r) PROVE Serial'
  <2>1. FillsTrue'
    BY <1>6 DEF ReadRow, Typed, Serial, FillsTrue
  <2>2. Coherent(cachedRecord, cachedRow)' /\ (Counts = CountsOf(record))'
    BY <1>6 DEF ReadRow, Serial, Coherent, Counts
  <2> QED
    BY <1>4, <1>6, <2>1, <2>2 DEF Serial
<1>7. ASSUME NEW r \in Reader, FillCache(r) PROVE Serial'
  <2>1. FillsTrue'
    BY <1>7 DEF FillCache, Typed, NoFill, Serial, FillsTrue
  <2>2. (Counts = CountsOf(record))'
    BY <1>7 DEF FillCache, Serial, Counts
  <2>3. fill[r] \in Fills /\ fill[r] # NoFill
    BY <1>7 DEF FillCache, Typed
  <2>4. CASE fill[r].table # "row"
    <3>1. /\ fill[r].user \in User /\ fill[r].value = record[fill[r].user]
          /\ CacheRecord(fill[r].user, fill[r].value)
          /\ cachedRow' = cachedRow /\ record' = record /\ row' = row
      BY <1>7, <2>3, <2>4 DEF FillCache, Fills, Serial, FillsTrue
    <3>2. Coherent(cachedRecord, cachedRow)'
      BY <3>1 DEF CacheRecord, Serial, Coherent, Typed, StoreType
    <3> QED
      BY <1>4, <1>7, <2>1, <2>2, <3>2 DEF Serial
  <2>5. CASE fill[r].table = "row"
    <3>1. Coherent(cachedRecord, cachedRow)'
      BY <1>7, <2>5 DEF FillCache, CacheRow, Serial, Coherent, FillsTrue
    <3> QED
      BY <1>4, <1>7, <2>1, <2>2, <3>1 DEF Serial
  <2> QED
    BY <2>4, <2>5
<1>8. ASSUME NEW u \in User, ExpireRecord(u) PROVE Serial'
  <2>1. /\ UNCHANGED <<pc, tx, record, row, cachedRow, fill>>
        /\ cachedRecord' = [cachedRecord EXCEPT ![u] = Miss]
    BY <1>8 DEF ExpireRecord
  <2>2. \A v \in User : cachedRecord'[v] \in {Miss, cachedRecord[v]}
    BY <2>1 DEF Typed, StoreType
  <2>3. Coherent(cachedRecord, cachedRow)' /\ (Counts = CountsOf(record))' /\ FillsTrue'
    BY <2>1, <2>2 DEF Serial, Coherent, Counts, FillsTrue
  <2>4. ASSUME NEW w \in Processor, pc'[w] # "idle"
        PROVE  Progress(pc[w], tx[w], cachedRecord, cachedRow)'
    <3>1. tx[w].msg.user \in User /\ Progress(pc[w], tx[w], cachedRecord, cachedRow)
      BY <2>1, <2>4, Busy DEF UserOf, Serial
    <3>2. cachedRecord[tx[w].msg.user] = Miss => cachedRecord'[tx[w].msg.user] = Miss
      BY <2>2, <3>1
    <3> QED
      BY <2>1, <3>1, <3>2 DEF Progress, Voted
  <2> QED
    BY <2>3, <2>4 DEF Serial
<1>9. CASE ExpireRow
  BY <1>9 DEF ExpireRow, Serial, Coherent, Counts, FillsTrue, Progress, Voted
<1>10. CASE UNCHANGED vars
  BY <1>10 DEF vars, Serial, Coherent, Counts, FillsTrue, Progress, Voted
<1> QED
  BY <1>1, <1>2, <1>3, <1>5, <1>6, <1>7, <1>8, <1>9, <1>10 DEF Next

LEMMA SerialInit == ASSUME IsFiniteSet(User), Init PROVE Serial
<1>1. record = [u \in User |-> NoVote] /\ row = NoRow
  BY DEF Init
<1>2. Voters(record, LikeTypeThumbup) = {} /\ Voters(record, LikeTypeThumbdown) = {}
  BY <1>1 DEF Voters, NoVote, LikeTypeThumbup, LikeTypeThumbdown
<1>3. Counts = CountsOf(record)
  BY <1>1, <1>2, FS_EmptySet DEF Counts, NoCounts, CountsOf
<1>4. Coherent(cachedRecord, cachedRow) /\ FillsTrue
  BY DEF Init, Coherent, FillsTrue, NoFill
<1>5. \A w \in Processor : pc[w] = "idle"
  BY DEF Init
<1> QED
  BY <1>3, <1>4, <1>5 DEF Serial

SerialSoFar == stale = FALSE => Serial

LEMMA SerialHolds ==
    ASSUME IsFiniteSet(User) PROVE Spec /\ []Alone => []SerialSoFar
<1>1. Init => SerialSoFar
  BY SerialInit DEF SerialSoFar
<1>2. Typed /\ Noted /\ Alone /\ SerialSoFar /\ [Next]_vars /\ Alone' => SerialSoFar'
  BY SerialStep, NotedStep DEF Noted, SerialSoFar
<1>3. Spec => []Typed /\ []Noted
  BY TypedHolds, NotedHolds
<1> QED
  BY <1>1, <1>2, <1>3, PTL DEF Spec

\* A step other than a commit leaves the database alone.
LEMMA OnlyCommits ==
    ASSUME [Next]_vars, \A w \in Processor : ~ Commit(w)
    PROVE  UNCHANGED <<record, row>>
<1>1. ASSUME NEW w \in Processor, Work(w) PROVE UNCHANGED <<record, row>>
  BY <1>1 DEF Work, FindRecord, FillRecord, FindRow, FillRow, InsertRecord, LoadRecord,
              StoreRecord, UpdateRecord, UncacheRecord, InsertRow, LoadRow, StoreRow,
              UpdateRow, UncacheRow, Rollback, Database
<1>2. ASSUME NEW w \in Processor, Fail(w) PROVE UNCHANGED <<record, row>>
  BY <1>2 DEF Fail, Database
<1>3. ASSUME NEW w \in Processor, NEW m \in Message, Take(w, m)
      PROVE  UNCHANGED <<record, row>>
  BY <1>3 DEF Take, Database
<1>4. ASSUME NEW r \in Reader, NEW u \in User,
             ReadRow(r) \/ FillCache(r) \/ ReadRecord(r, u)
      PROVE  UNCHANGED <<record, row>>
  BY <1>4 DEF ReadRow, FillCache, ReadRecord, Database
<1>5. ASSUME NEW r \in Reader, ReadRow(r) \/ FillCache(r) PROVE UNCHANGED <<record, row>>
  BY <1>5 DEF ReadRow, FillCache, Database
<1>6. ASSUME NEW u \in User, ExpireRecord(u) PROVE UNCHANGED <<record, row>>
  BY <1>6 DEF ExpireRecord, Database
<1>7. ASSUME ExpireRow PROVE UNCHANGED <<record, row>>
  BY <1>7 DEF ExpireRow, Database
<1>8. ASSUME UNCHANGED vars PROVE UNCHANGED <<record, row>>
  BY <1>8 DEF vars
<1> QED
  BY <1>1, <1>2, <1>3, <1>4, <1>5, <1>6, <1>7, <1>8 DEF Next

\* The refinement: while the messages of the object are handled one at a time, through
\* redeliveries, failed statements, deaths, cache expiry and readers' fills, what like-mq
\* leaves in MySQL is the ledger - each commit records one vote and makes the two columns
\* the numbers of likes and dislikes on record - until a deletion that fails leaves an
\* old row in the cache.
THEOREM ImplementsLedger ==
    ASSUME IsFiniteSet(User) PROVE Spec /\ []Alone => LedgerSpec
<1>1. Init => Ledger!Init
  BY DEF Init, Ledger!Init, Ledger!NoVote, Ledger!NoCounts, NoVote, NoCounts
<1>2. Typed /\ Noted /\ Alone /\ SerialSoFar /\ [Next]_vars
        => [Ledger!Next]_<<record, Counts, stale>>
  <2> SUFFICES ASSUME Typed, Noted, Alone, stale = FALSE => Serial, [Next]_vars
               PROVE  [Ledger!Next]_<<record, Counts, stale>>
    BY DEF SerialSoFar
  <2>0. Noted' /\ (stale' = FALSE => stale = FALSE)
    BY NotedStep
  <2>1. CASE stale' = TRUE
    BY <2>1 DEF Ledger!Next, Ledger!LeaveStale
  <2>2. ASSUME stale' = FALSE, NEW w \in Processor, Commit(w) PROVE Ledger!Next
    <3>1. /\ UserOf(w) \in User /\ TypeOf(w) \in LikeTypes
          /\ record' = [record EXCEPT ![UserOf(w)] = TypeOf(w)]
          /\ Counts' = CountsOf(record')
      BY <2>0, <2>2, CommitCounts
    <3>2. Ledger!CountsOf(record') = CountsOf(record')
      <4>1. \A t : Ledger!Voters(record', t) = Voters(record', t)
        BY DEF Ledger!Voters, Voters
      <4>2. Ledger!LikeTypeThumbup = LikeTypeThumbup /\ Ledger!LikeTypeThumbdown = LikeTypeThumbdown
        BY DEF Ledger!LikeTypeThumbup, Ledger!LikeTypeThumbdown, LikeTypeThumbup,
               LikeTypeThumbdown
      <4>3. \A S : Ledger!Cardinality(S) = Cardinality(S)
        BY DEF Ledger!Cardinality, Cardinality
      <4> QED
        BY <4>1, <4>2, <4>3 DEF Ledger!CountsOf, CountsOf
    <3>3. Ledger!LikeTypes = LikeTypes
      BY DEF Ledger!LikeTypes, Ledger!LikeTypeThumbup, Ledger!LikeTypeThumbdown,
             LikeTypes, LikeTypeThumbup, LikeTypeThumbdown
    <3>4. Ledger!Vote(UserOf(w), TypeOf(w))
      BY <2>0, <2>2, <3>1, <3>2 DEF Ledger!Vote, Counts
    <3> QED
      BY <3>1, <3>3, <3>4 DEF Ledger!Next
  <2>3. CASE stale' = FALSE /\ \A w \in Processor : ~ Commit(w)
    BY <2>0, <2>3, OnlyCommits DEF Counts
  <2> QED
    BY <2>0, <2>1, <2>2, <2>3 DEF Noted
<1>3. Counts = IF row = NoRow THEN NoCounts ELSE row
  BY DEF Counts
<1>4. Spec => []Typed /\ []Noted
  BY TypedHolds, NotedHolds
<1> QED
  BY <1>1, <1>2, <1>3, <1>4, SerialHolds, PTL DEF Spec, LedgerSpec, Ledger!Spec, Counts

\* Under the same conditions a committed message is the vote on record: neither
\* the same-type return nor the duplicate-entry path makes Consume drop it.
THEOREM AckRecords ==
    ASSUME IsFiniteSet(User) PROVE Spec /\ []Alone => AckMeansRecorded
<1>1. Typed /\ Noted /\ Alone /\ SerialSoFar /\ [Next]_vars
        => [\A w \in Processor : Commit(w) => stale' \/ record'[UserOf(w)] = TypeOf(w)]_vars
  <2> SUFFICES ASSUME Typed, Noted, Alone, stale = FALSE => Serial, [Next]_vars,
                      stale' = FALSE, NEW w \in Processor, Commit(w)
               PROVE  record'[UserOf(w)] = TypeOf(w)
    BY NotedStep DEF Noted, SerialSoFar
  <2>1. Serial
    BY NotedStep
  <2> QED
    BY <2>1, CommitCounts DEF Typed, StoreType
<1>2. Spec => []Typed /\ []Noted
  BY TypedHolds, NotedHolds
<1> QED
  BY <1>1, <1>2, SerialHolds, PTL DEF Spec, AckMeansRecorded

\* One processor and no readers are always alone.
LEMMA OneProcessorAlone ==
    ASSUME Reader = {}, \A v, w \in Processor : v = w PROVE Spec => []Alone
<1>1. Alone
  BY DEF Alone
<1> QED
  BY <1>1, PTL

\* A single consumer, for every set of users and messages, whatever is redelivered,
\* fails or dies: the cache keeps to the committed rows, apart from entries a failed
\* deletion left, and until there is such an entry the consumer is the ledger and
\* acknowledges only what it recorded.
THEOREM SingleConsumer ==
    ASSUME IsFiniteSet(User), Reader = {}, \A v, w \in Processor : v = w
    PROVE  Spec => []CacheCoherent /\ LedgerSpec /\ AckMeansRecorded
<1>1. Spec => []Alone
  BY OneProcessorAlone
<1>2. Spec => []CacheCoherent
  BY <1>1, CacheStaysCoherent, PTL
<1>3. Spec => LedgerSpec
  BY <1>1, ImplementsLedger, PTL
<1>4. Spec => AckMeansRecorded
  BY <1>1, AckRecords, PTL
<1> QED
  BY <1>2, <1>3, <1>4
================================================================================

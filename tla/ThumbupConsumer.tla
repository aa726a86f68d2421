---------------------------- MODULE ThumbupConsumer ----------------------------
(* like-mq, Consume: processors drain the topic concurrently, each message in  *)
(* one MySQL transaction that reads like_record and like_count through the     *)
(* row cache (sqlc) and writes them back.  One object; its users' records and  *)
(* its one count row.                                                          *)
(*                                                                             *)
(* The generated models read through Redis: a miss queries MySQL and fills the *)
(* cache afterwards, a row that does not exist is cached as such; a write runs *)
(* the statement and then deletes the row's keys - inside the transaction.     *)
(* sqlc logs a deletion that fails, leaves it to a retry and reports success.  *)
(* One cached value stands for a row's two keys: the one of the index leads to *)
(* the one of the id, and one DEL removes both.                                *)
(* MySQL (repeatable read): a transaction's first plain query takes its        *)
(* snapshot; INSERT and UPDATE act on the newest committed row, wait for a row *)
(* another transaction has written, and are visible to others on commit.       *)
EXTENDS Deltalike, TLC

CONSTANTS
    User,
    Message,       \* the messages of a behaviour: [id, user, type]
    Processor,     \* the goroutines that call Consume
    Reader,        \* like-rpc calls that read the same rows through the cache
    MaxDeliveries, \* bound: times Kafka delivers a message
    Failures       \* "call": statements fail and processors die;
                   \* "delete": Redis fails to delete a row's keys

ASSUME MessageAssumption == \A m \in Message : m.user \in User
ASSUME DeliveriesAssumption == MaxDeliveries \in Nat \ {0}
ASSUME FailuresAssumption == Failures \subseteq {"call", "delete"}

VARIABLES
    left,          \* deliveries Kafka may still make of each message
    pc, tx,        \* per processor: its place in Consume and its transaction
    record, row,   \* committed like_record rows and like_count row
    cachedRecord, cachedRow,  \* the row cache of the two tables
    undeletedRecords, undeletedRow,  \* history: entries a failed deletion left
    stale,         \* history: there has been such an entry
    fill,          \* per reader: what it will write into the cache
    applied,       \* history: votes of each type that commits have recorded
    recorded       \* history: types each user's record has had

recordCache == <<cachedRecord, undeletedRecords>>
rowCache == <<cachedRow, undeletedRow>>
vars == <<left, pc, tx, record, row, recordCache, rowCache, stale, fill, applied, recorded>>

\* Stand-ins for "no key in Redis", "no row in MySQL", "not written".
Miss == -2
MissRow == [like |-> Miss, dislike |-> Miss]
NoRow == [like |-> NoVote, dislike |-> NoVote]
NoFill == [table |-> "none"]

\* A transaction: its message, its snapshot ({} before the first query), what
\* FindOne returned for the record and for the counts, its uncommitted writes.
Begun(m) == [msg |-> m, snap |-> {}, old |-> NoVote, base |-> NoRow,
             record |-> Miss, row |-> MissRow]
NoTx == [msg |-> [id |-> 0], snap |-> {}, old |-> NoVote, base |-> NoRow,
         record |-> Miss, row |-> MissRow]

Init ==
    /\ left = [m \in Message |-> MaxDeliveries]
    /\ pc = [w \in Processor |-> "idle"]
    /\ tx = [w \in Processor |-> NoTx]
    /\ record = [u \in User |-> NoVote]
    /\ row = NoRow
    /\ cachedRecord = [u \in User |-> Miss]
    /\ cachedRow = MissRow
    /\ undeletedRecords = {} /\ undeletedRow = FALSE /\ stale = FALSE
    /\ fill = [r \in Reader |-> NoFill]
    /\ applied = NoCounts
    /\ recorded = [u \in User |-> {}]

UserOf(w) == tx[w].msg.user
TypeOf(w) == tx[w].msg.type

Goto(w, phase) == pc' = [pc EXCEPT ![w] = phase]

\* The snapshot a plain query of w reads, taken now if w has none yet.
View(w) == IF tx[w].snap = {} THEN [record |-> record, row |-> row]
                              ELSE CHOOSE s \in tx[w].snap : TRUE

\* A statement waits for the rows other transactions have written.
RecordFree(w) ==
    \A v \in Processor \ {w} :
        tx[v].record # Miss => UserOf(v) # UserOf(w)
RowFree(w) == \A v \in Processor \ {w} : tx[v].row = MissRow

\* A miss fills the cache; "no such row" is written only over a missing key.
CacheRecord(u, value) ==
    cachedRecord' = [cachedRecord EXCEPT
                      ![u] = IF value = NoVote /\ @ # Miss THEN @ ELSE value]
CacheRow(value) ==
    cachedRow' = IF value = NoRow /\ cachedRow # MissRow THEN cachedRow ELSE value

\* The keys of a row are deleted, or stay because the deletion fails.
DeleteRecord(u) ==
    \/ /\ cachedRecord' = [cachedRecord EXCEPT ![u] = Miss]
       /\ undeletedRecords' = undeletedRecords \ {u}
       /\ UNCHANGED stale
    \/ /\ "delete" \in Failures
       /\ undeletedRecords' = IF cachedRecord[u] = Miss THEN undeletedRecords
                              ELSE undeletedRecords \cup {u}
       /\ stale' = (stale \/ cachedRecord[u] # Miss)
       /\ UNCHANGED cachedRecord
DeleteRow ==
    \/ cachedRow' = MissRow /\ undeletedRow' = FALSE /\ UNCHANGED stale
    \/ /\ "delete" \in Failures
       /\ undeletedRow' = (undeletedRow \/ cachedRow # MissRow)
       /\ stale' = (stale \/ cachedRow # MissRow)
       /\ UNCHANGED cachedRow

Delta(w) == VoteDelta(tx[w].old, TypeOf(w))

Database == UNCHANGED <<record, row, applied, recorded>>
Cache == UNCHANGED <<recordCache, rowCache, stale>>
Others == UNCHANGED <<left, fill>>

--------------------------------------------------------------------------------
\* Bugs this code could have; each breaks one property below.

\* Messages are not validated.
Take_Unvalidated(w, m) ==
    /\ pc[w] = "idle"
    /\ left[m] > 0
    /\ left' = [left EXCEPT ![m] = @ - 1]
    /\ Goto(w, "findRecord") /\ tx' = [tx EXCEPT ![w] = Begun(m)]
    /\ Database /\ Cache /\ UNCHANGED fill

\* Any record that exists is taken for a repeated message.
Decide_AnyRecord(w, old, again) ==
    IF old # NoVote THEN "commit" ELSE IF again THEN "rollback" ELSE "insertRecord"

\* A duplicate entry is ignored and the vote counted as a new one.
InsertRecord_IgnoresDuplicate(w) ==
    /\ pc[w] = "insertRecord"
    /\ RecordFree(w)
    /\ IF record[UserOf(w)] = NoVote
       THEN tx' = [tx EXCEPT ![w].record = TypeOf(w)] /\ Goto(w, "uncacheRecord")
       ELSE UNCHANGED tx /\ Goto(w, "findRow")
    /\ Database /\ Cache /\ Others

\* A message whose record cannot be read after a duplicate entry is acknowledged.
Decide_AcksUnread(w, old, again) ==
    IF old = TypeOf(w) \/ (old = NoVote /\ again) THEN "commit"
    ELSE IF old # NoVote THEN "loadRecord" ELSE "insertRecord"

\* A count row that cannot be read after a duplicate entry is inserted again.
DecideRow_Retries(base, again) ==
    IF base # NoRow THEN "loadRow" ELSE "insertRow"

\* The keys of the count row are not deleted.
UncacheRow_Forgets(w) ==
    /\ pc[w] = "uncacheRow"
    /\ Goto(w, "commit")
    /\ UNCHANGED tx
    /\ Database /\ Cache /\ Others

--------------------------------------------------------------------------------
\* validateMsg; messages with an empty biz_id or an id below 1 are not in the model.
Valid(m) == m.type \in LikeTypes

\* kq hands a message to a free processor; an invalid one is acknowledged at once.
Take(w, m) ==
    /\ pc[w] = "idle"
    /\ left[m] > 0
    /\ left' = [left EXCEPT ![m] = @ - 1]
    /\ IF Valid(m)
       THEN Goto(w, "findRecord") /\ tx' = [tx EXCEPT ![w] = Begun(m)]
       ELSE UNCHANGED <<pc, tx>>
    /\ Database /\ Cache /\ UNCHANGED fill

\* The switch on the record that was found: nothing to do for the same type,
\* Update for another, Insert for none - unless the Insert just failed.
Decide(w, old, again) ==
    IF old = TypeOf(w) THEN "commit"
    ELSE IF old # NoVote THEN "loadRecord"
    ELSE IF again THEN "rollback" ELSE "insertRecord"

\* FindOneByBizIdObjIdUserId, first or after a duplicate entry.
FindRecord(w, again) ==
    LET u == UserOf(w)
        cached == cachedRecord[u]
        found == View(w).record[u] IN
    /\ pc[w] = IF again THEN "refindRecord" ELSE "findRecord"
    /\ IF cached # Miss
       THEN /\ tx' = [tx EXCEPT ![w].old = cached]
            /\ Goto(w, Decide(w, cached, again))
       ELSE /\ tx' = [tx EXCEPT ![w].old = found, ![w].snap = {View(w)}]
            /\ Goto(w, IF again THEN "refillRecord" ELSE "fillRecord")
    /\ Database /\ Cache /\ Others

FillRecord(w, again) ==
    /\ pc[w] = IF again THEN "refillRecord" ELSE "fillRecord"
    /\ CacheRecord(UserOf(w), tx[w].old)
    /\ Goto(w, Decide(w, tx[w].old, again))
    /\ UNCHANGED <<tx, undeletedRecords, rowCache, stale>>
    /\ Database /\ Others

\* Insert into like_record: a row that exists is a duplicate entry.
InsertRecord(w) ==
    /\ pc[w] = "insertRecord"
    /\ RecordFree(w)
    /\ IF record[UserOf(w)] = NoVote
       THEN tx' = [tx EXCEPT ![w].record = TypeOf(w)] /\ Goto(w, "uncacheRecord")
       ELSE UNCHANGED tx /\ Goto(w, "refindRecord")
    /\ Database /\ Cache /\ Others

\* Update of like_record begins with FindOne by id: the key of the id holds the
\* row, or the query reads the snapshot, which may be older than the row.
LoadRecord(w) ==
    LET u == UserOf(w) IN
    /\ pc[w] = "loadRecord"
    /\ \/ Goto(w, "updateRecord") /\ UNCHANGED tx
       \/ /\ cachedRecord[u] \notin LikeTypes
          /\ tx' = [tx EXCEPT ![w].snap = {View(w)}]
          /\ Goto(w, IF View(w).record[u] = NoVote THEN "rollback" ELSE "storeRecord")
    /\ Database /\ Cache /\ Others

\* The row that was read fills the key of the id, which nobody sees unless the
\* key of the index leads to it.
StoreRecord(w) ==
    LET u == UserOf(w) IN
    /\ pc[w] = "storeRecord"
    /\ cachedRecord' = [cachedRecord EXCEPT
                          ![u] = IF @ \in LikeTypes THEN View(w).record[u] ELSE @]
    /\ Goto(w, "updateRecord")
    /\ UNCHANGED <<tx, undeletedRecords, rowCache, stale>>
    /\ Database /\ Others

\* Then the statement, on the newest row.
UpdateRecord(w) ==
    /\ pc[w] = "updateRecord"
    /\ RecordFree(w)
    /\ tx' = [tx EXCEPT ![w].record = TypeOf(w)]
    /\ Goto(w, "uncacheRecord")
    /\ Database /\ Cache /\ Others

\* The keys of the record are deleted after the statement, before the commit.
UncacheRecord(w) ==
    /\ pc[w] = "uncacheRecord"
    /\ DeleteRecord(UserOf(w))
    /\ Goto(w, "findRow")
    /\ UNCHANGED <<tx, rowCache>>
    /\ Database /\ Others

--------------------------------------------------------------------------------
\* applyCountDelta: what follows from the count row that was found.
DecideRow(base, again) ==
    IF base # NoRow THEN "loadRow"
    ELSE IF again THEN "rollback" ELSE "insertRow"

\* FindOneByBizIdObjId, first or after a duplicate entry.
FindRow(w, again) ==
    /\ pc[w] = IF again THEN "refindRow" ELSE "findRow"
    /\ IF cachedRow # MissRow
       THEN /\ tx' = [tx EXCEPT ![w].base = cachedRow]
            /\ Goto(w, DecideRow(cachedRow, again))
       ELSE /\ tx' = [tx EXCEPT ![w].base = View(w).row, ![w].snap = {View(w)}]
            /\ Goto(w, IF again THEN "refillRow" ELSE "fillRow")
    /\ Database /\ Cache /\ Others

FillRow(w, again) ==
    /\ pc[w] = IF again THEN "refillRow" ELSE "fillRow"
    /\ CacheRow(tx[w].base)
    /\ Goto(w, DecideRow(tx[w].base, again))
    /\ UNCHANGED <<tx, undeletedRow, recordCache, stale>>
    /\ Database /\ Others

\* Insert of the first counts; a row that exists is a duplicate entry.
InsertRow(w) ==
    /\ pc[w] = "insertRow"
    /\ RowFree(w)
    /\ IF row = NoRow
       THEN tx' = [tx EXCEPT ![w].row = Shift(NoCounts, Delta(w))] /\ Goto(w, "uncacheRow")
       ELSE UNCHANGED tx /\ Goto(w, "refindRow")
    /\ Database /\ Cache /\ Others

\* Update of like_count: FindOne by id, as for the record,
LoadRow(w) ==
    /\ pc[w] = "loadRow"
    /\ \/ Goto(w, "updateRow") /\ UNCHANGED tx
       \/ /\ cachedRow \in {MissRow, NoRow}
          /\ tx' = [tx EXCEPT ![w].snap = {View(w)}]
          /\ Goto(w, IF View(w).row = NoRow THEN "rollback" ELSE "storeRow")
    /\ Database /\ Cache /\ Others

StoreRow(w) ==
    /\ pc[w] = "storeRow"
    /\ cachedRow' = IF cachedRow \in {MissRow, NoRow} THEN cachedRow ELSE View(w).row
    /\ Goto(w, "updateRow")
    /\ UNCHANGED <<tx, undeletedRow, recordCache, stale>>
    /\ Database /\ Others

\* and the statement, with the values computed from the row that was found.
UpdateRow(w) ==
    /\ pc[w] = "updateRow"
    /\ RowFree(w)
    /\ tx' = [tx EXCEPT ![w].row = Shift(tx[w].base, Delta(w))]
    /\ Goto(w, "uncacheRow")
    /\ Database /\ Cache /\ Others

UncacheRow(w) ==
    /\ pc[w] = "uncacheRow"
    /\ DeleteRow
    /\ Goto(w, "commit")
    /\ UNCHANGED <<tx, recordCache>>
    /\ Database /\ Others

--------------------------------------------------------------------------------
End(w) == Goto(w, "idle") /\ tx' = [tx EXCEPT ![w] = NoTx]

\* The transaction returned nil: its writes become visible together.
Commit(w) ==
    LET t == tx[w] IN
    /\ pc[w] = "commit"
    /\ record' = IF t.record = Miss THEN record
                 ELSE [record EXCEPT ![UserOf(w)] = t.record]
    /\ row' = IF t.row = MissRow THEN row ELSE t.row
    /\ applied' = IF t.record = Miss THEN applied
                  ELSE IF TypeOf(w) = LikeTypeThumbup
                       THEN [applied EXCEPT !.like = @ + 1]
                       ELSE [applied EXCEPT !.dislike = @ + 1]
    /\ recorded' = IF t.record = Miss THEN recorded
                   ELSE [recorded EXCEPT ![UserOf(w)] = @ \cup {t.record}]
    /\ End(w)
    /\ Cache /\ Others

\* The transaction returned an error: MySQL drops its writes.  What it did to the
\* cache stays.
Rollback(w) ==
    /\ pc[w] = "rollback"
    /\ End(w)
    /\ Database /\ Cache /\ Others

\* A statement or a read of Redis fails, or the process dies.
Fail(w) ==
    /\ "call" \in Failures
    /\ pc[w] # "idle"
    /\ End(w)
    /\ Database /\ Cache /\ Others

Work(w) ==
    \/ \E again \in BOOLEAN :
         \/ FindRecord(w, again) \/ FillRecord(w, again)
         \/ FindRow(w, again) \/ FillRow(w, again)
    \/ InsertRecord(w) \/ LoadRecord(w) \/ StoreRecord(w)
    \/ UpdateRecord(w) \/ UncacheRecord(w)
    \/ InsertRow(w) \/ LoadRow(w) \/ StoreRow(w)
    \/ UpdateRow(w) \/ UncacheRow(w)
    \/ Commit(w) \/ Rollback(w)

--------------------------------------------------------------------------------
\* like-rpc (Thumbup, IsThumbup) reads through the same cache: a miss queries
\* the committed row, and writes it into the cache in a later step.
ReadRecord(r, u) ==
    /\ fill[r] = NoFill
    /\ cachedRecord[u] = Miss
    /\ fill' = [fill EXCEPT ![r] = [table |-> "record", user |-> u, value |-> record[u]]]
    /\ UNCHANGED <<left, pc, tx>> /\ Database /\ Cache

ReadRow(r) ==
    /\ fill[r] = NoFill
    /\ cachedRow = MissRow
    /\ fill' = [fill EXCEPT ![r] = [table |-> "row", value |-> row]]
    /\ UNCHANGED <<left, pc, tx>> /\ Database /\ Cache

FillCache(r) ==
    /\ fill[r] # NoFill
    /\ IF fill[r].table = "row"
       THEN CacheRow(fill[r].value) /\ UNCHANGED cachedRecord
       ELSE CacheRecord(fill[r].user, fill[r].value) /\ UNCHANGED cachedRow
    /\ fill' = [fill EXCEPT ![r] = NoFill]
    /\ UNCHANGED <<left, pc, tx, undeletedRecords, undeletedRow, stale>> /\ Database

\* A cache entry reaches its expiry, or a retry of its deletion succeeds; the
\* retries end after an hour and die with the process, so nothing forces one.
ExpireRecord(u) ==
    /\ cachedRecord[u] # Miss
    /\ cachedRecord' = [cachedRecord EXCEPT ![u] = Miss]
    /\ undeletedRecords' = undeletedRecords \ {u}
    /\ UNCHANGED <<left, pc, tx, rowCache, stale, fill>> /\ Database

ExpireRow ==
    /\ cachedRow # MissRow
    /\ cachedRow' = MissRow /\ undeletedRow' = FALSE
    /\ UNCHANGED <<left, pc, tx, recordCache, stale, fill>> /\ Database

Next ==
    \/ \E w \in Processor : Work(w) \/ Fail(w) \/ \E m \in Message : Take(w, m)
    \/ \E r \in Reader : ReadRow(r) \/ FillCache(r) \/ \E u \in User : ReadRecord(r, u)
    \/ \E u \in User : ExpireRecord(u)
    \/ ExpireRow

Spec == Init /\ [][Next]_vars

\* A processor that took a message carries on.
FairSpec == Spec /\ \A w \in Processor : WF_vars(Work(w))

--------------------------------------------------------------------------------
CachedCounts == [like : Nat, dislike : Nat]
Rows == CachedCounts \cup {NoRow}
Phases == {"idle", "findRecord", "fillRecord", "insertRecord", "refindRecord",
           "refillRecord", "loadRecord", "storeRecord", "updateRecord", "uncacheRecord",
           "findRow", "fillRow", "insertRow", "refindRow", "refillRow", "loadRow",
           "storeRow", "updateRow", "uncacheRow", "commit", "rollback"}

TypeOK ==
    /\ left \in [Message -> 0 .. MaxDeliveries]
    /\ pc \in [Processor -> Phases]
    /\ \A w \in Processor :
         \/ pc[w] = "idle" /\ tx[w] = NoTx
         \/ /\ tx[w].msg \in Message /\ tx[w].old \in Votes /\ tx[w].base \in Rows
            /\ tx[w].record \in LikeTypes \cup {Miss}
            /\ tx[w].row \in CachedCounts \cup {MissRow}
    /\ record \in [User -> Votes]
    /\ row \in Rows
    /\ cachedRecord \in [User -> Votes \cup {Miss}]
    /\ cachedRow \in Rows \cup {MissRow}
    /\ undeletedRecords \in SUBSET User /\ undeletedRow \in BOOLEAN /\ stale \in BOOLEAN
    /\ applied \in CachedCounts
    /\ recorded \in [User -> SUBSET LikeTypes]

\* The promise: every commit is a step of the ledger, so that after each the
\* counts are the numbers of likes and dislikes on record.  It holds for one
\* processor whose cache no one else fills, through duplicates and failures,
\* until a deletion that fails leaves an old row in the cache.
Ledger == INSTANCE LikeLedger WITH counts <- IF row = NoRow THEN NoCounts ELSE row
LedgerSpec == Ledger!Spec

\* Under the same conditions a message is acknowledged only when its vote is the
\* one on record: neither the same-type return nor the duplicate-entry path drops
\* a vote.  (A record whose deletion failed makes the same-type return drop one.)
AckMeansRecorded ==
    [][\A w \in Processor : Commit(w) => stale' \/ record'[UserOf(w)] = TypeOf(w)]_vars

\* Whatever else happens - concurrent transactions, redelivery, duplicate entries,
\* stale cached rows, failed deletions - a message that is acknowledged has a vote
\* of its type that was on the user's record at some time.
AckedWasOnRecord ==
    [][\A w \in Processor : Commit(w) => TypeOf(w) \in recorded'[UserOf(w)]]_vars

\* When nothing is in progress the cache holds committed values, whatever the
\* rolled-back transactions read, filled and deleted ("update the database
\* first, then delete the cache"); the exceptions are the very entries whose
\* deletion failed, until they expire or a retry removes them.
Quiet == /\ \A w \in Processor : pc[w] = "idle"
         /\ \A r \in Reader : fill[r] = NoFill
CacheCoherent ==
    Quiet => /\ \A u \in User \ undeletedRecords : cachedRecord[u] \in {Miss, record[u]}
             /\ undeletedRow \/ cachedRow \in {MissRow, row}

\* However processors and readers interleave, a column never exceeds the number
\* of votes of its type that transactions have recorded.
CountsNeverInvented ==
    row # NoRow => row.like <= applied.like /\ row.dislike <= applied.dislike

\* Every transaction ends: no two wait for each other's rows (a transaction
\* writes the record before the counts) and no path of Consume stalls.
TransactionEnds == \A w \in Processor : pc[w] # "idle" ~> pc[w] = "idle"

--------------------------------------------------------------------------------
\* What the comments promise of concurrent consumers: counts are not lost and a
\* repeated message is not counted again.  Once every transaction has ended the
\* counts are those of the records.
CountsMatchRecords ==
    Quiet => (IF row = NoRow THEN NoCounts ELSE row) = CountsOf(record)
================================================================================

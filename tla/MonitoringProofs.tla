---------------------------- MODULE MonitoringProofs ---------------------------
(* Proofs about the entry in Consul and the counters, for any TTL, any         *)
(* addresses and any statements: types, the entry of a process that updates    *)
(* it, and what has been counted and traced.                                   *)
EXTENDS Monitoring, FiniteSetTheorems, TLAPS

USE RegistrationAssumption, MonitoringAssumption

\* Only a process that serves has a ticker.
TickerServes == ticker # NoTicker => proc = "serving"

\* Updates in a row that may be lost before Consul takes the entry away.
Spare == IF ttl = 1 THEN 2 ELSE 3

\* An update is never further than a period from the one before: the entry's age grows by
\* at most a period with every loss.
Fresh ==
    /\ ticker <= ttlTicker
    /\ Registered /\ lost <= Spare =>
          /\ entry[host] # Absent
          /\ lost = 0 => entry[host] <= ttlTicker - ticker
          /\ lost = 1 => entry[host] <= 2 * ttlTicker - ticker
          /\ lost = 2 => entry[host] <= 3 * ttlTicker - ticker
          /\ lost = 3 => entry[host] <= 4 * ttlTicker - ticker

ListInv == TypeOKRegistration /\ TickerServes /\ Fresh

\* The period: a positive number of seconds, within the TTL and, but for a TTL of 1, below it.
LEMMA Period ==
    ASSUME mode \in Modes
    PROVE  /\ ttl \in Int /\ ttl >= 1 /\ ttlTicker \in Int
           /\ ttlTicker >= 1 /\ ttlTicker <= ttl /\ (ttl > 1 => ttlTicker = ttl - 1)
           /\ ttl = 1 => ttlTicker = 1
<1>1. mode.TTL \in Int
  OBVIOUS
<1> QED
  BY <1>1 DEF ttl, ttlTicker, defaultTTL

\* The address Register finds is one of those there are.
LEMMA AddressFound ==
    ASSUME mode \in Modes, NEW podIP \in mode.podIP, NEW ip \in mode.internalIP
    PROVE  figureOutListenOn(mode.listenOn, podIP, ip) \in Address
BY DEF figureOutListenOn, Address

LEMMA ListInit == Init => ListInv
<1> SUFFICES ASSUME Init PROVE ListInv
  OBVIOUS
<1>1. mode \in Modes /\ mode.starts \in Nat
  BY DEF Init
<1> QED
  BY <1>1, Period DEF Init, InitRegistration, ListInv, TypeOKRegistration, TickerServes, Fresh,
     Registered, Address, NoTicker, Absent, Oldest, MaxLost

\* Every step of the process, of Consul and of time keeps the entry fresh.
LEMMA ListStep == ListInv /\ [Next]_vars => ListInv'
<1> SUFFICES ASSUME ListInv, [Next]_vars PROVE ListInv'
  OBVIOUS
<1>0. /\ mode \in Modes /\ mode' = mode /\ mode.starts \in Nat
      /\ ttl' = ttl /\ ttlTicker' = ttlTicker /\ Spare' = Spare /\ Oldest' = Oldest
  BY DEF ListInv, TypeOKRegistration, Next, vars, ttl, ttlTicker, Spare, Oldest
<1>p. /\ ttl \in Int /\ ttl >= 1 /\ ttlTicker \in Int
      /\ ttlTicker >= 1 /\ ttlTicker <= ttl /\ (ttl > 1 => ttlTicker = ttl - 1)
      /\ ttl = 1 => ttlTicker = 1
  BY <1>0, Period
<1> USE DEF ListInv, TypeOKRegistration, TickerServes, Fresh, Registered, NoTicker, Absent, MaxLost,
            Spare, Oldest
<1>1. CASE Start
  BY <1>0, <1>1, <1>p DEF Start
<1>2. CASE Panic
  BY <1>0, <1>2, <1>p DEF Panic
<1>3. CASE Opened
  BY <1>0, <1>3, <1>p, AddressFound DEF Opened
<1>4. CASE ServiceRegister
  BY <1>0, <1>4, <1>p DEF ServiceRegister
<1>5. CASE CheckRegister
  BY <1>0, <1>5, <1>p DEF CheckRegister
<1>6. CASE UpdateTTL
  BY <1>0, <1>6, <1>p DEF UpdateTTL
<1>7. CASE Shutdown
  BY <1>0, <1>7, <1>p DEF Shutdown
<1>8. CASE Die
  BY <1>0, <1>8, <1>p DEF Die
<1>9. ASSUME NEW h \in Address, Reap(h) PROVE ListInv'
  BY <1>0, <1>9, <1>p DEF Reap, expiredTTL
<1>10. CASE Tick
  BY <1>0, <1>10, <1>p DEF Tick
<1>11. CASE UNCHANGED <<mode, consulVars>>
  BY <1>0, <1>11 DEF consulVars
<1> QED
  BY <1>1, <1>2, <1>3, <1>4, <1>5, <1>6, <1>7, <1>8, <1>9, <1>10, <1>11 DEF Next, vars

\* A process that updates its entry stays listed: Register's ticker keeps the entry from
\* being taken away by Consul until four updates in a row are lost, whatever the TTL.
THEOREM ListedHolds == Spec => []StaysListed
<1>1. ListInv => StaysListed
  <2> SUFFICES ASSUME ListInv PROVE StaysListed
    OBVIOUS
  <2>1. /\ ttl \in Int /\ ttl >= 1 /\ ttlTicker \in Int
        /\ ttlTicker >= 1 /\ ttlTicker <= ttl /\ (ttl > 1 => ttlTicker = ttl - 1)
    BY Period DEF ListInv, TypeOKRegistration
  <2> QED
    BY <2>1 DEF ListInv, TypeOKRegistration, Fresh, StaysListed, Registered, Spare, MaxLost,
       NoTicker, Absent, TickerServes
<1> QED
  BY <1>1, ListInit, ListStep, PTL DEF Spec

--------------------------------------------------------------------------------
(* What has been counted and traced.                                           *)

StmtType == [step : {"none", "running", "over", "unwound"}, method : Method, at : 0 .. 4, failed : BOOLEAN,
             refused : BOOLEAN]
SpanType == [open : BOOLEAN, ended : BOOLEAN, recorded : BOOLEAN, error : BOOLEAN]

\* A statement in progress is within its chain; a setting is found by the statement that
\* left it and by no other.
InChain == \A s \in Statement : stmt[s].step = "running" => stmt[s].at \in 1 .. 3
Owned == \A x \in setting : x.span \in Statement /\ \E m \in Method : x.key = InstanceKey(x.span, m)

CallTypes ==
    /\ stmt \in [Statement -> StmtType]
    /\ span \in [Statement -> SpanType]
    /\ errTotal \in [Method -> [BOOLEAN -> Nat]]

\* A span is clean until the last callback of its statement; there, that of a request to
\* Elasticsearch shows what RoundTrip has marked, that of an SQL statement has no status.
Clean(s) == ~span[s].recorded /\ ~span[s].error
Marked ==
    \A s \in Statement :
        /\ stmt[s].step = "none" => Clean(s)
        /\ stmt[s].step = "running" /\ stmt[s].at < 3 => Clean(s)
        /\ stmt[s].step = "running" /\ stmt[s].at = 3 =>
              IF stmt[s].method = "es" THEN Shown(s) ELSE ~span[s].error

CallInv == CallTypes /\ InChain /\ Owned /\ Marked /\ Accounted

\* The callbacks that count are the last of their chains, and no others are.
LEMMA LastCounts ==
    ASSUME NEW m \in Method, NEW at \in 1 .. 3
    PROVE  /\ Len(Chain(m)) = 3
           /\ Chain(m)[at] \in {"after", "deferred"} <=> at = 3
           /\ Chain(m)[at] = "deferred" => m = "es"
BY DEF Chain

\* The statement's record when it goes on before the end of its chain.
Further(s, f, r) ==
    [step |-> "running", method |-> stmt[s].method, at |-> stmt[s].at + 1, failed |-> f, refused |-> r]

LEMMA Goes ==
    ASSUME CallInv, NEW s \in Statement, stmt[s].step = "running", stmt[s].at < 3,
           NEW f, NEW r, GoOn(s, f, r)
    PROVE  stmt' = [stmt EXCEPT ![s] = Further(s, f, r)]
<1>1. stmt[s].at \in 1 .. 3 /\ stmt[s] \in StmtType /\ Len(Chain(stmt[s].method)) = 3
  BY LastCounts DEF CallInv, CallTypes, InChain, StmtType
<1> QED
  BY <1>1 DEF GoOn, Further, CallInv, CallTypes, StmtType

\* A statement that goes on before the end of its chain is not over.
LEMMA NotOver ==
    ASSUME CallInv, NEW s \in Statement, stmt[s].step = "running", stmt[s].at < 3,
           NEW st \in StmtType, st.step = "running", st.at = stmt[s].at + 1,
           stmt' = [stmt EXCEPT ![s] = st]
    PROVE  /\ stmt' \in [Statement -> StmtType] /\ InChain'
           /\ \A m \in Method, e \in BOOLEAN : Over(m, e)' = Over(m, e) /\ s \notin Over(m, e)
<1>1. stmt[s].at \in 1 .. 3 /\ stmt[s] \in StmtType
  BY DEF CallInv, CallTypes, InChain
<1>2. stmt' \in [Statement -> StmtType] /\ InChain'
  BY <1>1 DEF CallInv, CallTypes, InChain, StmtType
<1>3. ASSUME NEW m \in Method, NEW e \in BOOLEAN
      PROVE  Over(m, e)' = Over(m, e) /\ s \notin Over(m, e)
  BY <1>1 DEF Over, CallInv, CallTypes, StmtType
<1> QED
  BY <1>2, <1>3

\* A statement that goes on from the end of its chain is over, with its outcome.
LEMMA OneMore ==
    ASSUME CallInv, NEW s \in Statement, stmt[s].step = "running",
           stmt[s].at = 3, NEW r \in BOOLEAN, GoOn(s, stmt[s].failed, r)
    PROVE  /\ stmt' \in [Statement -> StmtType] /\ InChain'
           /\ stmt' = [stmt EXCEPT ![s] = [step |-> "over", method |-> stmt[s].method, at |-> 4,
                                           failed |-> stmt[s].failed, refused |-> r]]
           /\ \A m \in Method, e \in BOOLEAN :
                 /\ s \notin Over(m, e)
                 /\ Over(m, e)' = IF m = stmt[s].method /\ e = stmt[s].failed
                                  THEN Over(m, e) \cup {s} ELSE Over(m, e)
<1>1. stmt[s] \in StmtType /\ Len(Chain(stmt[s].method)) = 3
  BY LastCounts DEF CallInv, CallTypes, InChain, StmtType
<1>2. stmt' = [stmt EXCEPT ![s] = [step |-> "over", method |-> stmt[s].method, at |-> 4,
                                   failed |-> stmt[s].failed, refused |-> r]]
  BY <1>1 DEF GoOn, CallInv, CallTypes, StmtType
<1>3. stmt' \in [Statement -> StmtType] /\ InChain'
  BY <1>1, <1>2 DEF CallInv, CallTypes, InChain, StmtType
<1>4. ASSUME NEW m \in Method, NEW e \in BOOLEAN
      PROVE  /\ s \notin Over(m, e)
             /\ Over(m, e)' = IF m = stmt[s].method /\ e = stmt[s].failed
                              THEN Over(m, e) \cup {s} ELSE Over(m, e)
  BY <1>1, <1>2 DEF Over, CallInv, CallTypes, StmtType
<1> QED
  BY <1>2, <1>3, <1>4

\* Counting a statement that is over, and ending its span with what it is to show, keeps the
\* accounts.
LEMMA CountOne ==
    ASSUME CallInv, NEW s \in Statement, stmt[s].step = "running", stmt[s].at = 3,
           NEW r \in BOOLEAN, GoOn(s, stmt[s].failed, r),
           NEW sp \in SpanType, span' = [span EXCEPT ![s] = sp], sp.ended,
           sp.recorded <=> stmt[s].failed,
           sp.error <=> stmt[s].method = "es" /\ (stmt[s].failed \/ r),
           Inc(stmt[s].method, stmt[s].failed), UNCHANGED setting
    PROVE  CallInv'
<1>1. stmt[s] \in StmtType
  BY DEF CallInv, CallTypes
<1>2. /\ span' \in [Statement -> SpanType]
      /\ errTotal' \in [Method -> [BOOLEAN -> Nat]]
  BY <1>1 DEF Inc, CallInv, CallTypes, StmtType
<1>3. Owned'
  BY DEF CallInv, Owned, InstanceKey
<1>4. \A q \in Statement : q # s => stmt'[q] = stmt[q] /\ span'[q] = span[q]
  BY OneMore DEF CallInv, CallTypes
<1>5. /\ stmt'[s].step = "over" /\ stmt'[s].method = stmt[s].method
      /\ stmt'[s].failed = stmt[s].failed /\ stmt'[s].refused = r /\ span'[s] = sp
  <2>1. stmt'[s] = [step |-> "over", method |-> stmt[s].method, at |-> 4,
                    failed |-> stmt[s].failed, refused |-> r]
    BY OneMore DEF CallInv, CallTypes
  <2> QED
    BY <2>1 DEF CallInv, CallTypes
<1>6. Marked'
  BY <1>4, <1>5 DEF CallInv, Marked, Clean, Shown
<1>7. span'[s].ended /\ Shown(s)'
  BY <1>5 DEF Shown
<1>8. ASSUME NEW m \in Method, NEW e \in BOOLEAN
      PROVE  /\ errTotal'[m][e] = Cardinality(Over(m, e)')
             /\ \A q \in Over(m, e)' : span'[q].ended /\ Shown(q)'
  <2>1. IsFiniteSet(Over(m, e)) /\ errTotal[m][e] = Cardinality(Over(m, e))
    BY FS_Subset DEF Over, CallInv, Accounted
  <2>2. \A q \in Over(m, e)' : span'[q].ended /\ Shown(q)'
    <3> SUFFICES ASSUME NEW q \in Over(m, e)', q # s PROVE span'[q].ended /\ Shown(q)'
      BY <1>7
    <3>1. q \in Over(m, e) /\ q \in Statement
      BY OneMore DEF Over
    <3>2. span[q].ended /\ Shown(q)
      BY <3>1 DEF CallInv, Accounted
    <3> QED
      BY <1>4, <3>1, <3>2 DEF Shown
  <2>3. CASE m = stmt[s].method /\ e = stmt[s].failed
    <3>1. Over(m, e)' = Over(m, e) \cup {s} /\ s \notin Over(m, e)
      BY <2>3, OneMore
    <3>2. errTotal'[m][e] = errTotal[m][e] + 1
      BY <1>1, <2>3 DEF Inc, CallInv, CallTypes, StmtType
    <3>3. Cardinality(Over(m, e) \cup {s}) = Cardinality(Over(m, e)) + 1
      BY <2>1, <3>1, FS_AddElement
    <3> QED
      BY <2>1, <2>2, <3>1, <3>2, <3>3
  <2>4. CASE ~(m = stmt[s].method /\ e = stmt[s].failed)
    <3>1. Over(m, e)' = Over(m, e) /\ s \notin Over(m, e)
      BY <2>4, OneMore
    <3>2. errTotal'[m][e] = errTotal[m][e]
      BY <1>1, <2>4 DEF Inc, CallInv, CallTypes, StmtType
    <3> QED
      BY <2>1, <2>2, <3>1, <3>2
  <2> QED
    BY <2>3, <2>4
<1> QED
  BY <1>2, <1>3, <1>6, <1>8, OneMore DEF CallInv, CallTypes, Accounted

\* Going on before the end counts nothing and leaves the spans of what is over alone.
LEMMA CountNone ==
    ASSUME CallInv, NEW s \in Statement, stmt[s].step = "running", stmt[s].at < 3,
           NEW st \in StmtType, st.step = "running", st.method = stmt[s].method,
           st.at = stmt[s].at + 1, stmt' = [stmt EXCEPT ![s] = st],
           NEW sp \in SpanType, span' = [span EXCEPT ![s] = sp],
           stmt[s].at = 1 \/ stmt[s].method # "es" => ~sp.recorded /\ ~sp.error,
           stmt[s].method = "es" /\ stmt[s].at = 2 =>
              (sp.recorded <=> st.failed) /\ (sp.error <=> st.failed \/ st.refused),
           UNCHANGED errTotal, Owned'
    PROVE  CallInv'
<1>1. span' \in [Statement -> SpanType]
  BY DEF CallInv, CallTypes
<1>2. \A q \in Statement : q # s => stmt'[q] = stmt[q] /\ span'[q] = span[q]
  BY DEF CallInv, CallTypes
<1>3. stmt'[s] = st /\ span'[s] = sp /\ stmt[s].at \in {1, 2}
  BY DEF CallInv, CallTypes, InChain
<1>4. Marked'
  <2> SUFFICES ASSUME NEW q \in Statement
               PROVE  /\ stmt'[q].step = "none" => Clean(q)'
                      /\ stmt'[q].step = "running" /\ stmt'[q].at < 3 => Clean(q)'
                      /\ stmt'[q].step = "running" /\ stmt'[q].at = 3 =>
                            IF stmt'[q].method = "es" THEN Shown(q)' ELSE ~span'[q].error
    BY DEF Marked
  <2>1. CASE q # s
    BY <1>2, <2>1 DEF CallInv, Marked, Clean, Shown
  <2>2. CASE q = s
    <3>1. CASE stmt[s].at = 1
      BY <1>3, <2>2, <3>1 DEF Clean
    <3>2. CASE stmt[s].at = 2
      BY <1>3, <2>2, <3>2 DEF Shown
    <3> QED
      BY <1>3, <3>1, <3>2
  <2> QED
    BY <2>1, <2>2
<1>5. ASSUME NEW m \in Method, NEW e \in BOOLEAN
      PROVE  /\ errTotal'[m][e] = Cardinality(Over(m, e)')
             /\ \A q \in Over(m, e)' : span'[q].ended /\ Shown(q)'
  <2>1. Over(m, e)' = Over(m, e) /\ s \notin Over(m, e)
    BY NotOver
  <2>2. \A q \in Over(m, e) : q \in Statement /\ span'[q] = span[q] /\ stmt'[q] = stmt[q]
    BY <1>2, <2>1 DEF Over
  <2> QED
    BY <2>1, <2>2 DEF CallInv, Accounted, Shown
<1> QED
  BY <1>1, <1>4, <1>5, NotOver DEF CallInv, CallTypes, Accounted

LEMMA CallsCleared ==
    ASSUME NothingCounted
    PROVE  CallInv'
<1>1. CallTypes' /\ InChain' /\ Owned' /\ Marked'
  BY DEF NothingCounted, NoStmt, NoSpan, CallTypes, StmtType, SpanType, InChain, Owned, Method,
     gormMethods, Marked, Clean
<1>2. \A m \in Method, e \in BOOLEAN : Over(m, e)' = {} /\ errTotal'[m][e] = 0
  BY DEF NothingCounted, Over, NoStmt
<1> QED
  BY <1>1, <1>2, FS_EmptySet DEF CallInv, Accounted

LEMMA CallInit == Init => CallInv
<1> SUFFICES ASSUME Init PROVE CallInv
  OBVIOUS
<1>1. CallTypes /\ InChain /\ Owned /\ Marked
  BY DEF Init, NoStmt, NoSpan, CallTypes, StmtType, SpanType, InChain, Owned, Method,
     gormMethods, Marked, Clean
<1>2. \A m \in Method, e \in BOOLEAN : Over(m, e) = {} /\ errTotal[m][e] = 0
  BY DEF Init, Over, NoStmt
<1> QED
  BY <1>1, <1>2, FS_EmptySet DEF CallInv, Accounted

LEMMA CallStep == CallInv /\ [Next]_vars => CallInv'
<1> SUFFICES ASSUME CallInv, [Next]_vars PROVE CallInv'
  OBVIOUS
<1>0. ASSUME NEW s \in Statement, stmt[s].step = "running"
      PROVE  /\ stmt[s] \in StmtType /\ stmt[s].method \in Method /\ stmt[s].at \in 1 .. 3
             /\ stmt[s].failed \in BOOLEAN /\ stmt[s].refused \in BOOLEAN
             /\ span[s] \in SpanType /\ span = [span EXCEPT ![s] = span[s]]
             /\ stmt[s].at < 3 => ~span[s].recorded /\ ~span[s].error
             /\ stmt[s].at = 3 \/ stmt[s].at < 3
  BY <1>0 DEF CallInv, CallTypes, InChain, StmtType, Marked, Clean
<1>00. NoSpan \in SpanType /\ [NoSpan EXCEPT !.open = TRUE] \in SpanType
       /\ ~[NoSpan EXCEPT !.open = TRUE].recorded /\ ~[NoSpan EXCEPT !.open = TRUE].error
  BY DEF NoSpan, SpanType
<1>1. ASSUME NEW s \in Statement, NEW m \in Method, Make(s, m) PROVE CallInv'
  <2>1. stmt[s] \in StmtType /\ stmt[s].step = "none"
    BY <1>1 DEF Make, CallInv, CallTypes
  <2>2. stmt' \in [Statement -> StmtType] /\ InChain'
    BY <1>1 DEF Make, CallInv, CallTypes, InChain, StmtType
  <2>3. \A n \in Method, e \in BOOLEAN : Over(n, e)' = Over(n, e)
    BY <1>1, <2>1 DEF Make, Over, CallInv, CallTypes
  <2>4. \A q \in Statement : q # s => stmt'[q] = stmt[q]
    BY <1>1 DEF Make, CallInv, CallTypes
  <2>5. Marked'
    <3>1. stmt'[s].step = "running" /\ stmt'[s].at = 1 /\ Clean(s)
      BY <1>1, <2>1 DEF Make, CallInv, CallTypes, Marked
    <3> QED
      BY <1>1, <2>4, <3>1 DEF Make, CallInv, Marked, Clean, Shown
  <2>6. \A n \in Method, e \in BOOLEAN : \A q \in Over(n, e) : Shown(q)'
    <3>1. \A n \in Method, e \in BOOLEAN : \A q \in Over(n, e) : q \in Statement /\ stmt'[q] = stmt[q]
      BY <2>1, <2>4 DEF Over
    <3>2. \A q \in Statement : span'[q] = span[q]
      BY <1>1 DEF Make
    <3> QED
      BY <3>1, <3>2 DEF CallInv, Accounted, Shown
  <2> QED
    BY <1>1, <2>2, <2>3, <2>5, <2>6 DEF Make, CallInv, CallTypes, Accounted, Owned, InstanceKey
<1>2. ASSUME NEW s \in Statement, Before(s) PROVE CallInv'
  <2>1. stmt[s].at < 3 /\ stmt[s].method # "es"
    BY <1>0, <1>2, LastCounts DEF Before, At, Chain
  <2>2. Owned'
    BY <1>0, <1>2 DEF Before, At, CallInv, Owned, InstanceKey
  <2> QED
    <3> DEFINE st == Further(s, stmt[s].failed, FALSE)
    <3>1. /\ st \in StmtType /\ st.step = "running" /\ st.method = stmt[s].method
          /\ st.at = stmt[s].at + 1
      BY <1>0, <1>2, <2>1 DEF Before, At, Further, StmtType
    <3>2. stmt' = [stmt EXCEPT ![s] = st]
      BY <1>2, <2>1, Goes DEF Before, At
    <3> HIDE DEF st
    <3> QED
      BY <1>00, <1>2, <2>1, <2>2, <3>1, <3>2, CountNone DEF Before, At, StartSpan
<1>3. ASSUME NEW s \in Statement, Execute(s) PROVE CallInv'
  <2>1. stmt[s].at < 3 /\ stmt[s].method # "es"
    BY <1>0, <1>3, LastCounts DEF Execute, At, Chain
  <2>2. Owned'
    BY <1>3 DEF Execute, CallInv, Owned, InstanceKey
  <2>3. span' = [span EXCEPT ![s] = span[s]]
    BY <1>0, <1>3 DEF Execute, At
  <2> QED
    <3>1. PICK f \in BOOLEAN : GoOn(s, f, FALSE)
      BY <1>3 DEF Execute
    <3> DEFINE st == Further(s, f, FALSE)
    <3>2. /\ st \in StmtType /\ st.step = "running" /\ st.method = stmt[s].method
          /\ st.at = stmt[s].at + 1
      BY <1>0, <1>3, <2>1 DEF Execute, At, Further, StmtType
    <3>3. stmt' = [stmt EXCEPT ![s] = st]
      BY <1>3, <2>1, <3>1, Goes DEF Execute, At
    <3> HIDE DEF st
    <3> QED
      BY <1>0, <1>3, <2>1, <2>2, <2>3, <3>2, <3>3, CountNone DEF Execute, At
<1>4. ASSUME NEW s \in Statement, After(s) PROVE CallInv'
  <2>1. stmt[s].at = 3 /\ stmt[s].method # "es"
    BY <1>0, <1>4, LastCounts DEF After, At, Chain
  <2>2. PICK x \in setting : /\ x.key = InstanceKey(s, stmt[s].method)
                             /\ EndSpan(x.span, stmt[s].failed) /\ Inc(stmt[s].method, stmt[s].failed)
    BY <1>4 DEF After
  <2>3. x.span = s
    BY <2>2 DEF CallInv, Owned, InstanceKey
  <2> DEFINE sp == [span[s] EXCEPT !.open = FALSE, !.ended = TRUE, !.recorded = stmt[s].failed]
  <2>4. span' = [span EXCEPT ![s] = sp] /\ sp \in SpanType
    <3>1. span \in [Statement -> SpanType] /\ stmt[s].failed \in BOOLEAN
      BY <1>0, <1>4 DEF CallInv, CallTypes, After, At
    <3>2. span' = [span EXCEPT ![s].open = FALSE, ![s].ended = TRUE, ![s].recorded = stmt[s].failed]
      BY <2>2, <2>3 DEF EndSpan
    <3> QED
      BY <3>1, <3>2 DEF SpanType
  <2>5. ~span[s].error
    BY <1>4, <2>1 DEF CallInv, Marked, After, At
  <2>6. sp.ended /\ (sp.recorded <=> stmt[s].failed) /\ ~sp.error
    BY <1>0, <1>4, <2>5 DEF SpanType, After, At
  <2> HIDE DEF sp
  <2> QED
    BY <1>0, <1>4, <2>1, <2>2, <2>4, <2>6, CountOne DEF After, At
<1>5. ASSUME NEW s \in Statement, RoundTripStart(s) PROVE CallInv'
  <2>1. stmt[s].at = 1
    BY <1>0, <1>5, LastCounts DEF RoundTripStart, At, Chain
  <2>2. Owned'
    BY <1>5 DEF RoundTripStart, CallInv, Owned, InstanceKey
  <2> QED
    <3>0. PICK f \in BOOLEAN : ~f /\ GoOn(s, f, f)
      BY <1>5 DEF RoundTripStart
    <3> DEFINE st == Further(s, f, f)
    <3>1. /\ st \in StmtType /\ st.step = "running" /\ st.method = stmt[s].method
          /\ st.at = stmt[s].at + 1
      BY <1>0, <1>5, <2>1 DEF RoundTripStart, At, Further, StmtType
    <3>2. stmt' = [stmt EXCEPT ![s] = st]
      BY <1>5, <2>1, <3>0, Goes DEF RoundTripStart, At
    <3> DEFINE sp == [NoSpan EXCEPT !.open = TRUE]
    <3>3. /\ span' = [span EXCEPT ![s] = sp] /\ sp \in SpanType /\ ~sp.recorded /\ ~sp.error
          /\ stmt[s].step = "running" /\ UNCHANGED errTotal
      BY <1>00, <1>5 DEF RoundTripStart, At, StartSpan
    <3> HIDE DEF st, sp
    <3>4. /\ stmt[s].at < 3
          /\ stmt[s].at = 1 \/ stmt[s].method # "es" => ~sp.recorded /\ ~sp.error
          /\ stmt[s].method = "es" /\ stmt[s].at = 2 =>
                (sp.recorded <=> st.failed) /\ (sp.error <=> st.failed \/ st.refused)
      BY <2>1, <3>3
    <3> QED
      BY <2>2, <3>1, <3>2, <3>3, <3>4, CountNone
<1>6. ASSUME NEW s \in Statement, RoundTrip(s) PROVE CallInv'
  <2>1. stmt[s].at = 2 /\ stmt[s].method = "es"
    BY <1>0, <1>6, LastCounts DEF RoundTrip, At, Chain
  <2>5. stmt[s].step = "running" /\ stmt[s].at < 3 /\ UNCHANGED errTotal
    BY <1>6, <2>1 DEF RoundTrip, At
  <2>2. Owned'
    BY <1>6 DEF RoundTrip, CallInv, Owned, InstanceKey
  <2>3. ASSUME GoOn(s, TRUE, FALSE),
               span' = [span EXCEPT ![s] = [@ EXCEPT !.recorded = TRUE, !.error = TRUE]]
        PROVE  CallInv'
    <3> DEFINE sp == [span[s] EXCEPT !.recorded = TRUE, !.error = TRUE]
    <3>1. span' = [span EXCEPT ![s] = sp] /\ sp \in SpanType
      <4>1. span \in [Statement -> SpanType] /\ span[s] \in SpanType
        BY <1>0 DEF CallInv, CallTypes
      <4>2. sp \in SpanType
        <5>1. [span[s] EXCEPT !.recorded = TRUE] \in SpanType
          BY <4>1 DEF SpanType
        <5>2. \A x \in SpanType : [x EXCEPT !.error = TRUE] \in SpanType
          BY DEF SpanType
        <5> QED
          BY <5>1, <5>2
      <4>3. span' = [span EXCEPT ![s] = sp]
        BY <2>3
      <4> QED
        BY <4>2, <4>3
    <3>0. PICK f \in BOOLEAN, r \in BOOLEAN : f /\ ~r /\ GoOn(s, f, r)
      BY <2>3
    <3> DEFINE st == Further(s, f, r)
    <3>2. /\ st \in StmtType /\ st.step = "running" /\ st.method = stmt[s].method
          /\ st.at = stmt[s].at + 1
      BY <1>0, <1>6, <2>1 DEF RoundTrip, At, Further, StmtType
    <3>3. stmt' = [stmt EXCEPT ![s] = st]
      BY <2>5, <3>0, Goes
    <3>4. (sp.recorded <=> st.failed) /\ (sp.error <=> st.failed \/ st.refused)
      BY <1>0, <1>6, <3>0 DEF RoundTrip, At, SpanType, Further
    <3> HIDE DEF sp, st
    <3>5. /\ stmt[s].at < 3
          /\ stmt[s].at = 1 \/ stmt[s].method # "es" => ~sp.recorded /\ ~sp.error
          /\ stmt[s].method = "es" /\ stmt[s].at = 2 =>
                (sp.recorded <=> st.failed) /\ (sp.error <=> st.failed \/ st.refused)
      BY <2>1, <3>4
    <3> QED
      BY <2>2, <2>5, <3>1, <3>2, <3>3, <3>5, CountNone
  <2>4. ASSUME NEW r \in BOOLEAN, GoOn(s, FALSE, r), span' = [span EXCEPT ![s].error = r]
        PROVE  CallInv'
    <3> DEFINE sp == [span[s] EXCEPT !.error = r]
    <3>1. span' = [span EXCEPT ![s] = sp] /\ sp \in SpanType
      <4>1. span \in [Statement -> SpanType] /\ span[s] \in SpanType
        BY <1>0 DEF CallInv, CallTypes
      <4>2. sp \in SpanType
        BY <4>1 DEF SpanType
      <4>3. span' = [span EXCEPT ![s] = sp]
        BY <2>4
      <4> QED
        BY <4>2, <4>3
    <3>0. PICK f \in BOOLEAN : ~f /\ GoOn(s, f, r)
      BY <2>4
    <3> DEFINE st == Further(s, f, r)
    <3>2. /\ st \in StmtType /\ st.step = "running" /\ st.method = stmt[s].method
          /\ st.at = stmt[s].at + 1
      BY <1>0, <1>6, <2>1 DEF RoundTrip, At, Further, StmtType
    <3>3. stmt' = [stmt EXCEPT ![s] = st]
      BY <2>5, <3>0, Goes
    <3>4. (sp.recorded <=> st.failed) /\ (sp.error <=> st.failed \/ st.refused)
      BY <1>0, <1>6, <2>1, <3>0 DEF RoundTrip, At, SpanType, Further
    <3> HIDE DEF sp, st
    <3>5. /\ stmt[s].at < 3
          /\ stmt[s].at = 1 \/ stmt[s].method # "es" => ~sp.recorded /\ ~sp.error
          /\ stmt[s].method = "es" /\ stmt[s].at = 2 =>
                (sp.recorded <=> st.failed) /\ (sp.error <=> st.failed \/ st.refused)
      BY <2>1, <3>4
    <3> QED
      BY <2>2, <2>5, <3>1, <3>2, <3>3, <3>5, CountNone
  <2> QED
    BY <1>6, <2>3, <2>4 DEF RoundTrip
<1>7. ASSUME NEW s \in Statement, RoundTripDeferred(s) PROVE CallInv'
  <2>1. stmt[s].at = 3 /\ stmt[s].method = "es"
    BY <1>0, <1>7, LastCounts DEF RoundTripDeferred, At
  <2>2. Shown(s)
    BY <1>7, <2>1 DEF CallInv, Marked, RoundTripDeferred, At
  <2> DEFINE sp == [span[s] EXCEPT !.open = FALSE, !.ended = TRUE]
  <2>3. span' = [span EXCEPT ![s] = sp] /\ sp \in SpanType
    <3>1. span \in [Statement -> SpanType]
      BY DEF CallInv, CallTypes
    <3>2. span' = [span EXCEPT ![s].open = FALSE, ![s].ended = TRUE, ![s].recorded = span[s].recorded]
      BY <1>7 DEF RoundTripDeferred, EndSpan
    <3> QED
      BY <3>1, <3>2 DEF SpanType
  <2>4. sp.ended /\ sp.recorded = span[s].recorded /\ sp.error = span[s].error
    BY <1>0, <1>7 DEF RoundTripDeferred, At, SpanType
  <2>5. /\ sp.recorded <=> stmt[s].failed
        /\ sp.error <=> stmt[s].method = "es" /\ (stmt[s].failed \/ stmt[s].refused)
    BY <2>2, <2>4 DEF Shown
  <2> HIDE DEF sp
  <2> QED
    BY <1>0, <1>7, <2>1, <2>3, <2>4, <2>5, CountOne DEF RoundTripDeferred, At
<1>8. ASSUME NEW s \in Statement, Unwind(s) PROVE CallInv'
  <2>1. Owned'
    BY <1>8 DEF Unwind, CallInv, Owned, InstanceKey
  <2>2. ASSUME At(s, "request"), GoOn(s, FALSE, FALSE) PROVE CallInv'
    <3>1. stmt[s].at = 2 /\ stmt[s].method = "es"
      BY <1>0, <2>2, LastCounts DEF At, Chain
    <3>0. PICK f \in BOOLEAN : ~f /\ GoOn(s, f, f)
      BY <2>2
    <3> DEFINE st == Further(s, f, f)
    <3>2. /\ st \in StmtType /\ st.step = "running" /\ st.method = stmt[s].method
          /\ st.at = stmt[s].at + 1
      BY <1>0, <2>2, <3>1 DEF At, Further, StmtType
    <3>3. stmt' = [stmt EXCEPT ![s] = st]
      BY <2>2, <3>0, <3>1, Goes DEF At
    <3>4. span' = [span EXCEPT ![s] = span[s]] /\ span[s] \in SpanType
      BY <1>0, <1>8, <2>2 DEF Unwind, At
    <3>6. stmt[s].step = "running" /\ UNCHANGED errTotal
      BY <1>8, <2>2 DEF Unwind, At
    <3>5. (span[s].recorded <=> st.failed) /\ (span[s].error <=> st.failed \/ st.refused)
      BY <1>0, <2>2, <3>0, <3>1 DEF At, SpanType, Further
    <3> HIDE DEF st
    <3>7. /\ stmt[s].at < 3
          /\ stmt[s].at = 1 \/ stmt[s].method # "es" => ~span[s].recorded /\ ~span[s].error
          /\ stmt[s].method = "es" /\ stmt[s].at = 2 =>
                (span[s].recorded <=> st.failed) /\ (span[s].error <=> st.failed \/ st.refused)
      BY <3>1, <3>5
    <3> QED
      BY <2>1, <3>2, <3>3, <3>4, <3>6, <3>7, CountNone
  <2>3. ASSUME At(s, "execute"), stmt' = [stmt EXCEPT ![s].step = "unwound"] PROVE CallInv'
    <3>1. stmt' \in [Statement -> StmtType] /\ InChain'
      BY <2>3 DEF CallInv, CallTypes, InChain, StmtType
    <3>2. \A m \in Method, e \in BOOLEAN : Over(m, e)' = Over(m, e)
      BY <1>0, <2>3 DEF At, Over, CallInv, CallTypes, StmtType
    <3>3. /\ \A q \in Statement : q # s => stmt'[q] = stmt[q]
          /\ stmt'[s].step = "unwound" /\ stmt[s].step # "over"
      BY <1>0, <2>3 DEF At, Over, CallInv, CallTypes, StmtType
    <3>4. Marked'
      BY <1>8, <3>3 DEF Unwind, CallInv, Marked, Clean, Shown
    <3>5. \A m \in Method, e \in BOOLEAN : \A q \in Over(m, e) : Shown(q)'
      <4>1. \A m \in Method, e \in BOOLEAN : \A q \in Over(m, e) :
               q \in Statement /\ stmt'[q] = stmt[q]
        BY <3>3 DEF Over
      <4>2. \A q \in Statement : span'[q] = span[q]
        BY <1>8 DEF Unwind
      <4> QED
        BY <4>1, <4>2 DEF CallInv, Accounted, Shown
    <3> QED
      BY <1>8, <2>1, <3>1, <3>2, <3>4, <3>5 DEF Unwind, CallInv, CallTypes, Accounted
  <2> QED
    BY <1>8, <2>2, <2>3 DEF Unwind
<1>9. CASE UNCHANGED stmtVars
  <2>1. \A m \in Method, e \in BOOLEAN : Over(m, e)' = Over(m, e)
    BY <1>9 DEF stmtVars, Over
  <2>2. CallTypes' /\ InChain' /\ Owned' /\ Marked'
    BY <1>9 DEF stmtVars, CallInv, CallTypes, InChain, Owned, InstanceKey, Marked, Clean, Shown
  <2> QED
    BY <1>9, <2>1, <2>2 DEF stmtVars, CallInv, Accounted, Shown
<1> QED
  BY <1>1, <1>2, <1>3, <1>4, <1>5, <1>6, <1>7, <1>8, <1>9, CallsCleared DEF Next, vars, StatementStep

\* Type correctness of the registration and of the counters.
THEOREM TypeCorrect == Spec => []TypeOK
<1>1. ListInv /\ CallInv => TypeOK
  BY DEF ListInv, CallInv, CallTypes, Owned, TypeOK, StmtType, SpanType
<1> QED
  BY <1>1, ListInit, ListStep, CallInit, CallStep, PTL DEF Spec

\* Every statement that has come to its end has been counted once, by its error, and its own
\* span has been ended and shows its outcome, an answer that refuses the request included, for
\* any number of statements at once: the settings of the plugin's callbacks and the
\* transport's deferred function never mix them up.
THEOREM AccountsHold == Spec => []Accounted
<1>1. CallInv => Accounted
  BY DEF CallInv
<1> QED
  BY <1>1, CallInit, CallStep, PTL DEF Spec
================================================================================

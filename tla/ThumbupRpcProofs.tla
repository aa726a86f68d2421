--------------------------- MODULE ThumbupRpcProofs ---------------------------
(* Proofs about like-rpc's Thumbup, for any users, requests and like types.    *)
EXTENDS ThumbupRpc, TLAPS

USE RequestAssumption, TypesAssumption, ModeAssumption

\* No step of a call, of the environment or of like-mq leaves TypeOK.
LEMMA TypeStep == TypeOK /\ [Next]_vars => TypeOK'
<1> SUFFICES ASSUME TypeOK, [Next]_vars PROVE TypeOK'
  OBVIOUS
<1> USE DEF TypeOK, Fixed, Storage, Keys, Goto
<1>1. ASSUME NEW r \in Request, ReserveFree(r) PROVE TypeOK'
  <2>1. user[r] \in User /\ type[r] \in RequestTypes
    OBVIOUS
  <2>2. PICK replied \in BOOLEAN :
          /\ held' = [held EXCEPT ![r] = replied]
          /\ holder' = [holder EXCEPT
                          ![user[r]] = IF replied THEN r ELSE NoRequest]
    BY <1>1 DEF ReserveFree
  <2>3. held' \in [Request -> BOOLEAN] /\ holder' \in [User -> Request \cup {NoRequest}]
    BY <2>1, <2>2
  <2>4. pc' \in [Request -> Phases]
    BY <1>1 DEF ReserveFree, Phases, Running
  <2>5. idem' \in [User -> Key]
    BY <1>1, <2>1 DEF ReserveFree, Key, Processing
  <2> QED
    BY <1>1, <2>3, <2>4, <2>5 DEF ReserveFree
<1>2. ASSUME NEW r \in Request, ReserveDuplicate(r) PROVE TypeOK'
  BY <1>2 DEF ReserveDuplicate, MayBegin, Phases, Running
<1>3. ASSUME NEW r \in Request, ReserveConflict(r) PROVE TypeOK'
  BY <1>3 DEF ReserveConflict, MayBegin, Phases, Running
<1>4. ASSUME NEW r \in Request, Lookup(r) PROVE TypeOK'
  BY <1>4 DEF Lookup, Fail, Phases, Running, Answered
<1>5. ASSUME NEW r \in Request, QueryCounts(r) PROVE TypeOK'
  BY <1>5 DEF QueryCounts, Fail, Phases, Running, Answered
<1>6. ASSUME NEW r \in Request, Push(r) PROVE TypeOK'
  BY <1>6 DEF Push, Fail, Phases, Running, Answered, Message, MessageOf
<1>7. ASSUME NEW r \in Request, Mark(r) PROVE TypeOK'
  <2>1. user[r] \in User /\ type[r] \in RequestTypes
    OBVIOUS
  <2>2. Done(type[r]) \in Key
    BY <2>1 DEF Done, Key
  <2>3. idem' \in [User -> Key]
    BY <1>7, <2>1, <2>2 DEF Mark
  <2>4. pc' \in [Request -> Phases]
    BY <1>7 DEF Mark, Phases, Answered
  <2> QED
    BY <1>7, <2>3, <2>4 DEF Mark
<1>8. ASSUME NEW r \in Request, Release(r) PROVE TypeOK'
  BY <1>8 DEF Release, Phases, Running, Answered, Key, NoKey
<1>9. ASSUME NEW r \in Request, Answer(r) PROVE TypeOK'
  BY <1>9 DEF Answer, Phases, Running, Answered
<1>10. ASSUME NEW r \in Request, Crash(r) PROVE TypeOK'
  BY <1>10 DEF Crash, Phases, Running, Answered
<1>11. ASSUME NEW u \in User, Expire(u) PROVE TypeOK'
  BY <1>11 DEF Expire, Key, NoKey
<1>12. ASSUME NEW u \in User, Refresh(u) PROVE TypeOK'
  BY <1>12 DEF Refresh
<1>13. ASSUME NEW m \in pushed, Consume(m) PROVE TypeOK'
  BY <1>13 DEF Consume, Message, Votes
<1>14. CASE UNCHANGED vars
  BY <1>14 DEF vars
<1> QED
  BY <1>1, <1>2, <1>3, <1>4, <1>5, <1>6, <1>7, <1>8, <1>9, <1>10, <1>11,
     <1>12, <1>13, <1>14 DEF Next, Serve

\* Types: TypeOK holds in every reachable state.
THEOREM TypeCorrect == Spec => []TypeOK
<1>1. Init => TypeOK
  BY DEF Init, TypeOK, Phases, Key, NoKey, Votes, Message, Running, Answered
<1> QED
  BY <1>1, TypeStep, PTL DEF Spec

--------------------------------------------------------------------------------
(* The strengthening.  The properties speak of what Redis holds and of answered *)
(* calls; the steps that could break them run while calls are at work, so the   *)
(* invariant says what is true of those:                                        *)
(* - a holder is a call of that user that knows it owns the key;                *)
(* - a call about to mark the key has pushed its message;                       *)
(* - until a key lapses, a working owner's reservation is the one in Redis;     *)
(* - an owner that short-circuited is on record as keeping its key.             *)
HolderOwns ==
    \A u \in User, r \in Request : holder[u] = r => user[r] = u /\ held[r]

MarkPushed ==
    \A r \in Request : pc[r] = "mark" => MessageOf(r) \in pushed

WorkingHolds ==
    \A r \in Request : Owns(r) /\ ~lapsed[user[r]] =>
        idem[user[r]] = Processing(type[r]) /\ holder[user[r]] = r

AnswerKept ==
    \A r \in Request : pc[r] = "answer" /\ held[r] => r \in kept

\* Only an owner drops the key; a call that has not begun owns nothing.
PhaseHeld ==
    \A r \in Request : /\ pc[r] = "idle" => ~held[r]
                       /\ pc[r] = "release" => held[r]

IInv == /\ TypeOK /\ HolderOwns /\ MarkPushed /\ WorkingHolds /\ AnswerKept
        /\ PhaseHeld /\ DoneMeansPushed /\ FailedRequestFreesKey

LEMMA InitIInv == Init => IInv
  BY DEF Init, IInv, TypeOK, Phases, Key, NoKey, Votes, Message, Running, Answered,
         HolderOwns, MarkPushed, WorkingHolds, AnswerKept, PhaseHeld,
         DoneMeansPushed, FailedRequestFreesKey, Owns, Working, Done
LEMMA StepIInv == IInv /\ [Next]_vars => IInv'
<1> SUFFICES ASSUME IInv, [Next]_vars PROVE IInv'
  OBVIOUS
<1>0. TypeOK'
  BY TypeStep DEF IInv
<1> USE <1>0 DEF IInv, TypeOK, Fixed, Storage, Keys, Goto, HolderOwns, MarkPushed,
       WorkingHolds, AnswerKept, PhaseHeld, DoneMeansPushed, Reached,
       FailedRequestFreesKey, Owns, Working
<1>1. ASSUME NEW r \in Request, ReserveFree(r) PROVE IInv'
  BY <1>1 DEF ReserveFree, MayBegin, Processing, Done, NoKey, MessageOf
<1>2. ASSUME NEW r \in Request, ReserveDuplicate(r) PROVE IInv'
  BY <1>2 DEF ReserveDuplicate, MayBegin, MessageOf
<1>3. ASSUME NEW r \in Request, ReserveConflict(r) PROVE IInv'
  BY <1>3 DEF ReserveConflict, MayBegin, MessageOf
<1>4. ASSUME NEW r \in Request, Lookup(r) PROVE IInv'
  BY <1>4 DEF Lookup, Fail, MessageOf
<1>5. ASSUME NEW r \in Request, QueryCounts(r) PROVE IInv'
  BY <1>5 DEF QueryCounts, Fail, MessageOf
<1>6. ASSUME NEW r \in Request, Push(r) PROVE IInv'
  BY <1>6 DEF Push, Fail, MessageOf
<1>7. ASSUME NEW r \in Request, Mark(r) PROVE IInv'
  <2>1. /\ MessageOf(r) \in pushed /\ pushed' = pushed
        /\ MessageOf(r).user = user[r] /\ MessageOf(r).type = type[r]
    BY <1>7 DEF Mark, MessageOf
  <2>2. MarkPushed'
    BY <1>7 DEF Mark, MessageOf
  <2>3. DoneMeansPushed'
    <3> SUFFICES ASSUME NEW u \in User, NEW t \in RequestTypes, idem'[u] = Done(t)
                 PROVE  Reached(u, t)
      BY <2>1
    <3>1. CASE idem'[u] = idem[u]
      <4>1. idem[u] = Done(t)
        BY <3>1
      <4> QED
        BY <4>1 DEF DoneMeansPushed
    <3>2. CASE idem'[u] # idem[u]
      <4>1. u = user[r] /\ Done(t) = Done(type[r])
        BY <1>7, <3>2 DEF Mark
      <4>2. t = type[r]
        BY <4>1 DEF Done
      <4> QED
        BY <2>1, <4>1, <4>2
    <3> QED
      BY <3>1, <3>2
  <2>4. WorkingHolds'
    <3> SUFFICES ASSUME NEW q \in Request, Owns(q)', ~lapsed[user[q]]
                 PROVE  idem'[user[q]] = Processing(type[q]) /\ holder[user[q]] = q
      BY <1>7 DEF Mark, Processing
    <3>1. Owns(q) /\ q # r
      BY <1>7 DEF Mark
    <3>2. idem[user[q]] = Processing(type[q]) /\ holder[user[q]] = q
      BY <3>1
    <3>3. ~(held[r] /\ user[r] = user[q])
      BY <1>7, <3>1, <3>2 DEF Mark
    <3> QED
      BY <1>7, <3>2, <3>3 DEF Mark
  <2>5. HolderOwns' /\ AnswerKept' /\ PhaseHeld' /\ FailedRequestFreesKey'
    BY <1>7 DEF Mark
  <2> QED
    BY <2>2, <2>3, <2>4, <2>5
<1>8. ASSUME NEW r \in Request, Release(r) PROVE IInv'
  <2>1. MarkPushed' /\ AnswerKept' /\ PhaseHeld'
    BY <1>8 DEF Release, MessageOf
  <2>2. HolderOwns' /\ FailedRequestFreesKey'
    BY <1>8 DEF Release
  <2>3. DoneMeansPushed'
    BY <1>8 DEF Release, NoKey, Done
  <2>4. WorkingHolds'
    <3> SUFFICES ASSUME NEW q \in Request, Owns(q)', ~lapsed[user[q]]
                 PROVE  idem'[user[q]] = Processing(type[q]) /\ holder'[user[q]] = q
      BY <1>8 DEF Release, Processing
    <3>1. Owns(q) /\ q # r
      BY <1>8 DEF Release
    <3>2. idem[user[q]] = Processing(type[q]) /\ holder[user[q]] = q
      BY <3>1
    <3>3. held[r]
      BY <1>8 DEF Release
    <3>4. user[r] # user[q]
      BY <1>8, <3>1, <3>2, <3>3 DEF Release
    <3> QED
      BY <1>8, <3>2, <3>4 DEF Release
  <2> QED
    BY <2>1, <2>2, <2>3, <2>4
<1>9. ASSUME NEW r \in Request, Answer(r) PROVE IInv'
  BY <1>9 DEF Answer, MessageOf
<1>10. ASSUME NEW r \in Request, Crash(r) PROVE IInv'
  BY <1>10 DEF Crash, MessageOf
<1>11. ASSUME NEW u \in User, Expire(u) PROVE IInv'
  BY <1>11 DEF Expire, NoKey, Done, Processing, MessageOf
<1>12. ASSUME NEW u \in User, Refresh(u) PROVE IInv'
  BY <1>12 DEF Refresh, MessageOf
<1>13. ASSUME NEW m \in pushed, Consume(m) PROVE IInv'
  BY <1>13 DEF Consume, MessageOf
<1>14. CASE UNCHANGED vars
  BY <1>14 DEF vars, MessageOf
<1> QED
  BY <1>1, <1>2, <1>3, <1>4, <1>5, <1>6, <1>7, <1>8, <1>9, <1>10, <1>11, <1>12,
     <1>13, <1>14 DEF Next, Serve
THEOREM Invariant == Spec => []IInv
  BY InitIInv, StepIInv, PTL DEF Spec

\* A key that says "done" names a type that reached Kafka.
THEOREM DoneIsPushed == Spec => []DoneMeansPushed
<1>1. IInv => DoneMeansPushed
  BY DEF IInv
<1> QED
  BY <1>1, Invariant, PTL

\* Idempotency: one working holder per user until the 5 s TTL lapses under it.
THEOREM OneHolder == Spec => []AtMostOneHolder
<1>1. IInv => AtMostOneHolder
  BY DEF IInv, WorkingHolds, AtMostOneHolder, TypeOK
<1> QED
  BY <1>1, Invariant, PTL

\* A failed call does not leave its reservation in the way of the retry.
THEOREM FailureFreesKey == Spec => []FailedRequestFreesKey
<1>1. IInv => FailedRequestFreesKey
  BY DEF IInv
<1> QED
  BY <1>1, Invariant, PTL

\* The life of a key: free, processing, done, free.
THEOREM KeyLifecycleHolds == Spec => KeyLifecycle
<1> DEFINE Lifecycle ==
      \A u \in User : ~lapsed'[u] /\ idem'[u] # idem[u] =>
          \/ idem'[u] = NoKey
          \/ idem[u] = NoKey /\ idem'[u].mode = "P"
          \/ idem[u].mode = "P" /\ idem'[u] = Done(idem[u].type)
<1>1. IInv /\ [Next]_vars => [Lifecycle]_vars
  <2> SUFFICES ASSUME IInv, Next, NEW u \in User, ~lapsed'[u], idem'[u] # idem[u]
               PROVE  \/ idem'[u] = NoKey
                      \/ idem[u] = NoKey /\ idem'[u].mode = "P"
                      \/ idem[u].mode = "P" /\ idem'[u] = Done(idem[u].type)
    OBVIOUS
  <2> USE DEF IInv, TypeOK
  <2>1. CASE \E r \in Request : ReserveFree(r)
    BY <2>1 DEF ReserveFree, Processing
  <2>2. CASE \E r \in Request : Mark(r)
    <3> PICK r \in Request : Mark(r)
      BY <2>2
    <3>1. held[r] /\ u = user[r] /\ idem'[u] = Done(type[r]) /\ ~lapsed[u]
      BY DEF Mark
    <3>2. idem[u] = Processing(type[r])
      BY <3>1 DEF Mark, WorkingHolds, Owns, Working
    <3> QED
      BY <3>1, <3>2 DEF Processing
  <2>3. CASE \E r \in Request : Release(r)
    BY <2>3 DEF Release
  <2>4. CASE \E v \in User : Expire(v)
    BY <2>4 DEF Expire
  <2> QED
    BY <2>1, <2>2, <2>3, <2>4 DEF Next, Serve, Keys, ReserveDuplicate,
       ReserveConflict, Lookup, QueryCounts, Push, Answer, Crash, Refresh, Consume
<1> QED
  BY <1>1, Invariant, PTL DEF Spec, KeyLifecycle

--------------------------------------------------------------------------------
(* Success and what has reached Kafka, for users who call one at a time while   *)
(* nothing fails.  A call is answered without a push of its own in two ways:    *)
(* the record says so already, and then some message of that type was           *)
(* committed; or the key does, and then its maker has pushed, or has found the  *)
(* record, since it is no longer at work.                                       *)
Calm == mode.sequential /\ ~mode.faulty

VotesReached ==
    \A u \in User : \A t \in past[u] \cup {record[u]} : t = NoVote \/ Reached(u, t)

AnswersReached ==
    Calm => \A r \in Request : pc[r] \in {"mark", "answer", "ok"} => Reached(user[r], type[r])

\* The maker of a key is at work on it.
AtWork(u, t) ==
    \E r \in Request : /\ user[r] = u /\ type[r] = t /\ held[r]
                       /\ pc[r] \in {"lookup", "counts", "push", "mark"}

KeysReached ==
    Calm => \A u \in User, t \in RequestTypes :
        idem[u] = Processing(t) => Reached(u, t) \/ AtWork(u, t)

Acked == VotesReached /\ AnswersReached /\ KeysReached

LEMMA InitAcked == Init => Acked
BY DEF Init, Acked, VotesReached, AnswersReached, KeysReached, NoKey, Processing

\* Messages stay in Kafka.
LEMMA ReachedStays ==
    ASSUME [Next]_vars, NEW u, NEW t, Reached(u, t) PROVE Reached(u, t)'
<1>1. pushed \subseteq pushed'
  BY DEF Next, Serve, ReserveFree, ReserveDuplicate, ReserveConflict, Lookup, QueryCounts, Push,
         Mark, Release, Answer, Crash, Expire, Refresh, Consume, Storage, vars
<1> QED
  BY <1>1 DEF Reached

LEMMA FixedStep == [Next]_vars => UNCHANGED <<mode, user, type>>
BY DEF Next, Serve, ReserveFree, ReserveDuplicate, ReserveConflict, Lookup, QueryCounts, Push,
       Mark, Release, Answer, Crash, Expire, Refresh, Consume, Fixed, vars

LEMMA VotesStep == IInv /\ VotesReached /\ [Next]_vars => VotesReached'
<1> SUFFICES ASSUME IInv, VotesReached, [Next]_vars PROVE VotesReached'
  OBVIOUS
<1>0. TypeOK
  BY DEF IInv
<1>1. ASSUME UNCHANGED <<record, past>> PROVE VotesReached'
  BY <1>1, ReachedStays DEF VotesReached
<1>2. ASSUME NEW v \in User, Refresh(v) PROVE VotesReached'
  <2>1. ASSUME NEW u \in User, NEW t \in past'[u] \cup {record'[u]}
        PROVE  t \in past[u] \cup {record[u]}
    BY <1>0, <1>2, <2>1 DEF Refresh, TypeOK
  <2> QED
    BY <2>1, ReachedStays DEF VotesReached
<1>3. ASSUME NEW m \in pushed, Consume(m) PROVE VotesReached'
  <2>1. Reached(m.user, m.type)
    BY DEF Reached
  <2>2. ASSUME NEW u \in User, NEW t \in past'[u] \cup {record'[u]}
        PROVE  t \in past[u] \cup {record[u]} \/ (u = m.user /\ t = m.type)
    BY <1>0, <1>3, <2>2 DEF Consume, TypeOK
  <2> QED
    BY <2>1, <2>2, ReachedStays DEF VotesReached
<1> QED
  BY <1>1, <1>2, <1>3 DEF Next, Serve, ReserveFree, ReserveDuplicate, ReserveConflict, Lookup,
     QueryCounts, Push, Mark, Release, Answer, Crash, Expire, Storage, vars

\* A call that joins the answered ones, or is about to mark its key, has its type in Kafka.
LEMMA AnswersStep == IInv /\ Acked /\ [Next]_vars => AnswersReached'
<1> SUFFICES ASSUME IInv, Acked, [Next]_vars, Calm', NEW r \in Request,
                    pc'[r] \in {"mark", "answer", "ok"}
             PROVE  Reached(user[r], type[r])'
  BY FixedStep DEF AnswersReached
<1>0. TypeOK /\ Calm /\ UNCHANGED <<mode, user, type>>
  BY FixedStep DEF IInv, Calm
<1>1. user[r] \in User /\ type[r] \in RequestTypes /\ type[r] # NoVote /\ pc \in [Request -> Phases]
  BY <1>0 DEF TypeOK
<1>2. Reached(user[r], type[r]) => Reached(user[r], type[r])'
  <2> SUFFICES ASSUME Reached(user[r], type[r]) PROVE Reached(user[r], type[r])'
    OBVIOUS
  <2>1. pushed \subseteq pushed'
    BY DEF Next, Serve, ReserveFree, ReserveDuplicate, ReserveConflict, Lookup, QueryCounts, Push,
           Mark, Release, Answer, Crash, Expire, Refresh, Consume, Storage, vars
  <2> QED
    BY <1>0, <2>1 DEF Reached
<1>3. pc[r] \in {"mark", "answer", "ok"} => Reached(user[r], type[r])
  BY <1>0 DEF Acked, AnswersReached
<1>4. ASSUME pc' = pc PROVE Reached(user[r], type[r])'
  BY <1>2, <1>3, <1>4
<1>6. CASE ReserveFree(r) \/ ReserveConflict(r) \/ QueryCounts(r) \/ Release(r) \/ Crash(r)
  <2>1. Release(r) => pc'[r] = "err"
    BY <1>1 DEF Release, Goto
  <2>2. ReserveFree(r) \/ ReserveConflict(r) => pc'[r] = "lookup"
    BY <1>1 DEF ReserveFree, ReserveConflict, Goto
  <2>3. QueryCounts(r) => pc'[r] = "push"
    BY <1>0, <1>1 DEF QueryCounts, Goto, Fail, Calm
  <2>4. ~Crash(r)
    BY <1>0 DEF Crash, Calm
  <2> QED
    BY <1>6, <2>1, <2>2, <2>3, <2>4
<1>7. CASE ReserveDuplicate(r)
  <2>1. CASE idem[user[r]] = Processing(type[r])
    <3>1. \A q \in Request : user[q] = user[r] => pc[q] \notin Running
      BY <1>0, <1>7 DEF ReserveDuplicate, MayBegin, Calm
    <3>2. ~AtWork(user[r], type[r])
      BY <3>1 DEF AtWork, Running
    <3>3. Reached(user[r], type[r])
      BY <1>0, <1>1, <2>1, <3>2 DEF Acked, KeysReached
    <3> QED
      BY <1>2, <3>3
  <2>2. CASE idem[user[r]] = Done(type[r])
    BY <1>1, <1>2, <2>2 DEF IInv, DoneMeansPushed
  <2> QED
    BY <1>7, <2>1, <2>2 DEF ReserveDuplicate
<1>8. CASE Lookup(r)
  <2>1. type[r] \in past[user[r]]
    BY <1>0, <1>1, <1>8 DEF Lookup, Goto, Fail, Calm
  <2>2. Reached(user[r], type[r])
    BY <1>1, <2>1 DEF Acked, VotesReached
  <2> QED
    BY <1>2, <2>2
<1>9. CASE Push(r)
  <2>1. pushed' = pushed \cup {MessageOf(r)}
    BY <1>0, <1>9 DEF Push, Fail, Calm
  <2>2. MessageOf(r) \in pushed' /\ MessageOf(r).user = user[r] /\ MessageOf(r).type = type[r]
    BY <2>1 DEF MessageOf
  <2>3. user' = user /\ type' = type
    BY <1>0
  <2> QED
    BY <2>2, <2>3 DEF Reached
<1>10. CASE Mark(r) \/ Answer(r)
  BY <1>2, <1>3, <1>10 DEF Mark, Answer
<1>11. ASSUME NEW q \in Request, ReserveFree(q) \/ ReserveDuplicate(q) \/ ReserveConflict(q)
                                 \/ Serve(q) \/ Crash(q)
       PROVE  Reached(user[r], type[r])'
  <2>1. q # r => pc'[r] = pc[r]
    BY <1>1, <1>11 DEF ReserveFree, ReserveDuplicate, ReserveConflict, Serve, Lookup, QueryCounts,
       Push, Mark, Release, Answer, Crash, Goto, Fail
  <2>2. CASE q # r
    BY <1>2, <1>3, <2>1, <2>2
  <2>3. CASE q = r
    BY <1>6, <1>7, <1>8, <1>9, <1>10, <1>11, <2>3 DEF Serve
  <2> QED
    BY <2>2, <2>3
<1> QED
  BY <1>4, <1>11 DEF Next, Expire, Refresh, Consume, vars

\* A key that says "processing" has its maker at work, or its type in Kafka.
LEMMA KeysStep == IInv /\ Acked /\ [Next]_vars => KeysReached'
<1> SUFFICES ASSUME IInv, Acked, [Next]_vars, Calm', NEW u \in User, NEW t \in RequestTypes,
                    idem'[u] = Processing(t)
             PROVE  Reached(u, t)' \/ AtWork(u, t)'
  BY DEF KeysReached
<1>0. TypeOK /\ Calm /\ UNCHANGED <<mode, user, type>>
  BY FixedStep DEF IInv, Calm
<1>1. Reached(u, t) => Reached(u, t)'
  BY ReachedStays
<1>2. idem[u] = Processing(t) => Reached(u, t) \/ AtWork(u, t)
  BY <1>0 DEF Acked, KeysReached
<1>3. ASSUME UNCHANGED <<idem, pc, held>> PROVE Reached(u, t)' \/ AtWork(u, t)'
  BY <1>0, <1>1, <1>2, <1>3 DEF AtWork
<1>4. ASSUME NEW q \in Request, UNCHANGED <<idem, held>>,
             \A r \in Request : r # q => pc'[r] = pc[r],
             held[q] => pc[q] \notin {"lookup", "counts", "push", "mark"}
                        \/ pc'[q] \in {"lookup", "counts", "push", "mark"}
                        \/ Reached(user[q], type[q])
      PROVE  Reached(u, t)' \/ AtWork(u, t)'
  BY <1>0, <1>1, <1>2, <1>4 DEF AtWork
<1>5. ASSUME NEW q \in Request, ReserveFree(q) PROVE Reached(u, t)' \/ AtWork(u, t)'
  <2>1. /\ pc[q] = "idle" /\ pc' = [pc EXCEPT ![q] = "lookup"]
        /\ held' = [held EXCEPT ![q] = TRUE]
        /\ idem' = [idem EXCEPT ![user[q]] = Processing(type[q])]
    BY <1>0, <1>5 DEF ReserveFree, MayBegin, Goto, Calm
  <2>2. CASE u = user[q]
    <3>1. Processing(type[q]) = Processing(t)
      BY <1>0, <2>1, <2>2 DEF TypeOK
    <3>2. type[q] = t
      BY <3>1 DEF Processing
    <3>3. held'[q] /\ pc'[q] = "lookup"
      BY <1>0, <2>1 DEF TypeOK
    <3> QED
      BY <1>0, <2>2, <3>2, <3>3 DEF AtWork
  <2>3. CASE u # user[q]
    <3>1. idem'[u] = idem[u] /\ \A r \in Request : r # q => held'[r] = held[r] /\ pc'[r] = pc[r]
      BY <1>0, <2>1, <2>3 DEF TypeOK
    <3>2. AtWork(u, t) => AtWork(u, t)'
      BY <1>0, <2>3, <3>1 DEF AtWork
    <3> QED
      BY <1>1, <1>2, <3>1, <3>2
  <2> QED
    BY <2>2, <2>3
<1>6. ASSUME NEW q \in Request, ReserveDuplicate(q) \/ ReserveConflict(q)
      PROVE  Reached(u, t)' \/ AtWork(u, t)'
  BY <1>0, <1>4, <1>6 DEF ReserveDuplicate, ReserveConflict, MayBegin, Goto, Keys, TypeOK
<1>7. ASSUME NEW q \in Request, Lookup(q) PROVE Reached(u, t)' \/ AtWork(u, t)'
  <2>1. /\ UNCHANGED <<idem, held>> /\ \A r \in Request : r # q => pc'[r] = pc[r]
        /\ pc'[q] = "counts" \/ type[q] \in past[user[q]]
    BY <1>0, <1>7 DEF Lookup, Goto, Fail, Calm, TypeOK
  <2>2. user[q] \in User /\ type[q] # NoVote
    BY <1>0 DEF TypeOK
  <2>3. pc'[q] = "counts" \/ Reached(user[q], type[q])
    BY <2>1, <2>2 DEF Acked, VotesReached
  <2> QED
    BY <1>4, <2>1, <2>3
<1>8. ASSUME NEW q \in Request, QueryCounts(q) \/ Push(q) PROVE Reached(u, t)' \/ AtWork(u, t)'
  <2>1. /\ UNCHANGED <<idem, held>> /\ \A r \in Request : r # q => pc'[r] = pc[r]
        /\ pc'[q] \in {"push", "mark"}
    BY <1>0, <1>8 DEF QueryCounts, Push, Goto, Fail, Keys, Calm, TypeOK
  <2> QED
    BY <1>4, <2>1
<1>9. ASSUME NEW q \in Request, Mark(q) PROVE Reached(u, t)' \/ AtWork(u, t)'
  <2>1. /\ UNCHANGED held /\ \A r \in Request : r # q => pc'[r] = pc[r]
        /\ \A v \in User : v # user[q] \/ ~held[q] => idem'[v] = idem[v]
        /\ held[q] => idem'[user[q]] = Done(type[q])
    BY <1>0, <1>9 DEF Mark, Goto, Calm, TypeOK
  <2>2. idem'[u] = idem[u] /\ (user[q] # u \/ ~held[q])
    BY <2>1 DEF Done, Processing
  <2>3. AtWork(u, t) => AtWork(u, t)'
    BY <1>0, <2>1, <2>2 DEF AtWork
  <2> QED
    BY <1>1, <1>2, <2>2, <2>3
<1>10. ASSUME NEW q \in Request, Release(q) PROVE Reached(u, t)' \/ AtWork(u, t)'
  <2>1. /\ UNCHANGED held /\ \A r \in Request : r # q => pc'[r] = pc[r]
        /\ pc[q] = "release" /\ idem'[u] = idem[u]
    BY <1>0, <1>10 DEF Release, Goto, NoKey, Processing, TypeOK
  <2>2. AtWork(u, t) => AtWork(u, t)'
    BY <1>0, <2>1 DEF AtWork
  <2> QED
    BY <1>1, <1>2, <2>1, <2>2
<1>11. ASSUME NEW q \in Request, Answer(q) PROVE Reached(u, t)' \/ AtWork(u, t)'
  BY <1>0, <1>4, <1>11 DEF Answer, Goto, Keys, TypeOK
<1>12. ASSUME NEW q \in Request, Crash(q) PROVE Reached(u, t)' \/ AtWork(u, t)'
  BY <1>0, <1>12 DEF Crash, Calm
<1>13. ASSUME NEW v \in User, Expire(v) PROVE Reached(u, t)' \/ AtWork(u, t)'
  <2>1. UNCHANGED <<pc, held>> /\ idem'[u] = idem[u]
    BY <1>0, <1>13 DEF Expire, NoKey, Processing, TypeOK
  <2> QED
    BY <1>0, <1>1, <1>2, <2>1 DEF AtWork
<1> QED
  BY <1>3, <1>5, <1>6, <1>7, <1>8, <1>9, <1>10, <1>11, <1>12, <1>13
     DEF Next, Serve, Refresh, Consume, Keys, vars

\* What the comment on the push promises: for users who call one at a time while nothing
\* fails, a call answered "ok" has its type among the messages in Kafka.  For any users,
\* calls and like types, whatever keys expire and whatever like-mq and the row cache do.
THEOREM SuccessIsPushed == Spec => []AckedIntentReachedMQ
<1>1. Acked => AckedIntentReachedMQ
  BY DEF Acked, AnswersReached, AckedIntentReachedMQ, Calm
<1>2. IInv /\ Acked /\ [Next]_vars => Acked'
  BY VotesStep, AnswersStep, KeysStep DEF Acked
<1> QED
  BY <1>1, <1>2, InitIInv, StepIInv, InitAcked, PTL DEF Spec
================================================================================

------------------------------ MODULE ThumbupRpc -------------------------------
(* like-rpc, Thumbup: concurrent requests on one object.  A request reserves   *)
(* the user's idempotency key in Redis with one Lua script, looks the user's   *)
(* record up, reads the counts, pushes a message to Kafka and turns the key    *)
(* from "P:type" (processing, 5 s) to "D:type" (done, 120 s).  Each call to    *)
(* Redis, MySQL or Kafka is a step of its own and may fail; keys expire and    *)
(* the process may die between any two steps.                                  *)
(* The counts of the answer are the subject of Deltalike; this module keeps    *)
(* what happens to the user's intent.                                          *)
EXTENDS Deltalike

CONSTANTS
    User,          \* users; the object (biz_id, obj_id) is fixed
    Request,       \* the Thumbup calls of a behaviour
    NoRequest,     \* a value that is not a request
    RequestTypes,  \* the like_type values clients send (not validated by like-rpc)
    Modes          \* what the surroundings of a behaviour may be like:
                   \* sequential - a user waits for an answer before calling again,
                   \* faulty - calls to Redis, MySQL and Kafka fail, processes die

ASSUME RequestAssumption == NoRequest \notin Request
ASSUME TypesAssumption == RequestTypes \subseteq Int \ {NoVote}
ASSUME ModeAssumption == Modes \subseteq [sequential : BOOLEAN, faulty : BOOLEAN]

VARIABLES
    mode,          \* of the behaviour, fixed
    user, type,    \* of each request, fixed
    pc,            \* where each request is
    held,          \* the request's idemState is idemReserveProcessing
    idem,          \* the idempotency key of each user
    record,        \* like_record, as like-mq has committed it
    past,          \* values of the record a cached lookup may still return
    pushed,        \* the messages in Kafka
    intent,        \* history: the last like_type that reached Kafka, per user
    holder,        \* history: the request whose script last created the key
    lapsed,        \* history: a key expired under a request that still used it
    kept           \* history: owners that ended without freeing the key: they
                   \* short-circuited, or their DEL failed

vars == <<mode, user, type, pc, held, idem, record, past, pushed, intent,
          holder, lapsed, kept>>

Key == [mode : {"none", "P", "D"}, type : RequestTypes \cup {NoVote}]
NoKey == [mode |-> "none", type |-> NoVote]
Processing(t) == [mode |-> "P", type |-> t]

\* Bug: the mark is written in a form the script does not compare with.
Done_OtherFormat(t) == [mode |-> "done", type |-> t]
Done(t) == [mode |-> "D", type |-> t]

Message == [req : Request, user : User, type : RequestTypes]
MessageOf(r) == [req |-> r, user |-> user[r], type |-> type[r]]

Answered == {"ok", "err", "crashed"}
Running == {"lookup", "counts", "push", "mark", "release", "answer"}
Phases == {"idle"} \cup Running \cup Answered

\* The phases in which a request that owns the key still relies on it.
Working == {"lookup", "counts", "push", "mark", "release"}

Init ==
    /\ mode \in Modes
    /\ user \in [Request -> User]
    /\ type \in [Request -> RequestTypes]
    /\ pc = [r \in Request |-> "idle"]
    /\ held = [r \in Request |-> FALSE]
    /\ idem = [u \in User |-> NoKey]
    /\ record = [u \in User |-> NoVote]
    /\ past = [u \in User |-> {NoVote}]
    /\ pushed = {}
    /\ intent = [u \in User |-> NoVote]
    /\ holder = [u \in User |-> NoRequest]
    /\ lapsed = [u \in User |-> FALSE]
    /\ kept = {}

Goto(r, phase) == pc' = [pc EXCEPT ![r] = phase]

MayBegin(r) ==
    /\ pc[r] = "idle"
    /\ mode.sequential => \A q \in Request : user[q] = user[r] => pc[q] \notin Running

Fixed == UNCHANGED <<mode, user, type>>
Storage == UNCHANGED <<record, past, pushed, intent>>
Keys == UNCHANGED <<idem, holder, lapsed, kept>>

\* A failed call drops the key if this request owns it, then returns the error.
Fail(r) == mode.faulty /\ Goto(r, IF held[r] THEN "release" ELSE "err")

--------------------------------------------------------------------------------
\* Bugs this code could have; each breaks one property below.

\* A request that met the other type believes it owns the key.
ReserveConflict_Owns(r) ==
    /\ MayBegin(r)
    /\ mode.faulty \/ idem[user[r]] \notin {NoKey, Processing(type[r]), Done(type[r])}
    /\ Goto(r, "lookup")
    /\ held' = [held EXCEPT ![r] = TRUE]
    /\ Fixed /\ Storage /\ Keys

\* The short-circuit forgets stateFound: the zero value of oldLikeType is a like.
Lookup_ZeroIsLike(r) ==
    /\ pc[r] = "lookup"
    /\ \E old \in past[user[r]] :
         Goto(r, IF type[r] = MaxInt64(old, LikeTypeThumbup) THEN "answer" ELSE "counts")
    /\ UNCHANGED held
    /\ Fixed /\ Storage /\ Keys

\* The error of the push is logged and not returned.
Push_IgnoresError(r) ==
    /\ pc[r] = "push"
    /\ \/ /\ pushed' = pushed \cup {MessageOf(r)}
          /\ intent' = [intent EXCEPT ![user[r]] = type[r]]
       \/ mode.faulty /\ UNCHANGED <<pushed, intent>>
    /\ Goto(r, "mark")
    /\ UNCHANGED <<held, record, past>>
    /\ Fixed /\ Keys

\* The error of the push is returned without dropping the key.
Push_KeepsKey(r) ==
    /\ pc[r] = "push"
    /\ \/ /\ Goto(r, "mark")
          /\ pushed' = pushed \cup {MessageOf(r)}
          /\ intent' = [intent EXCEPT ![user[r]] = type[r]]
       \/ mode.faulty /\ Goto(r, "err") /\ UNCHANGED <<pushed, intent>>
    /\ UNCHANGED <<held, record, past>>
    /\ Fixed /\ Keys

\* Every successful request marks the key, its owner or not.
Mark_NotOwner(r) ==
    /\ pc[r] = "mark"
    /\ idem' = [idem EXCEPT ![user[r]] = Done(type[r])]
    /\ Goto(r, "ok")
    /\ UNCHANGED <<held, holder, lapsed, kept>>
    /\ Fixed /\ Storage

--------------------------------------------------------------------------------
\* The Lua script found no key and set "P:type".  When its reply is lost the
\* caller takes idemReserveConflict and goes on without owning what it created.
ReserveFree(r) ==
    LET u == user[r] IN
    /\ MayBegin(r)
    /\ idem[u] = NoKey
    /\ \E replied \in IF mode.faulty THEN BOOLEAN ELSE {TRUE} :
         /\ held' = [held EXCEPT ![r] = replied]
         /\ holder' = [holder EXCEPT ![u] = IF replied THEN r ELSE NoRequest]
    /\ idem' = [idem EXCEPT ![u] = Processing(type[r])]
    /\ Goto(r, "lookup")
    /\ Fixed /\ Storage /\ UNCHANGED <<lapsed, kept>>

\* The script found the same type, processing or done: answer with the counts.
ReserveDuplicate(r) ==
    /\ MayBegin(r)
    /\ idem[user[r]] \in {Processing(type[r]), Done(type[r])}
    /\ Goto(r, "answer")
    /\ UNCHANGED held
    /\ Fixed /\ Storage /\ Keys

\* The script found the other type, or did not run: go on without the key.
ReserveConflict(r) ==
    /\ MayBegin(r)
    /\ mode.faulty \/ idem[user[r]] \notin {NoKey, Processing(type[r]), Done(type[r])}
    /\ Goto(r, "lookup")
    /\ UNCHANGED held
    /\ Fixed /\ Storage /\ Keys

\* FindOneByBizIdObjIdUserId through the row cache: the committed record or an
\* older one.  The same type as the request's short-circuits the rest.
Lookup(r) ==
    /\ pc[r] = "lookup"
    /\ \/ Fail(r) /\ UNCHANGED kept
       \/ \E old \in past[user[r]] \ {type[r]} : Goto(r, "counts") /\ UNCHANGED kept
       \/ /\ type[r] \in past[user[r]]
          /\ Goto(r, "answer")
          /\ kept' = IF held[r] THEN kept \cup {r} ELSE kept
    /\ UNCHANGED <<held, idem, holder, lapsed>>
    /\ Fixed /\ Storage

\* queryCountResp before the push: the base of the optimistic answer.
QueryCounts(r) ==
    /\ pc[r] = "counts"
    /\ Goto(r, "push") \/ Fail(r)
    /\ UNCHANGED held
    /\ Fixed /\ Storage /\ Keys

\* KqPusherClient.Push.  An error may be reported for a message that arrived.
Push(r) ==
    /\ pc[r] = "push"
    /\ \/ /\ Goto(r, "mark") \/ Fail(r)
          /\ pushed' = pushed \cup {MessageOf(r)}
          /\ intent' = [intent EXCEPT ![user[r]] = type[r]]
       \/ /\ Fail(r)
          /\ UNCHANGED <<pushed, intent>>
    /\ UNCHANGED <<held, record, past>>
    /\ Fixed /\ Keys

\* SETEX "D:type" when the request owns the key; its error is ignored.
Mark(r) ==
    /\ pc[r] = "mark"
    /\ \/ /\ held[r]
          /\ idem' = [idem EXCEPT ![user[r]] = Done(type[r])]
       \/ (mode.faulty \/ ~held[r]) /\ UNCHANGED idem
    /\ Goto(r, "ok")
    /\ UNCHANGED <<held, holder, lapsed, kept>>
    /\ Fixed /\ Storage

\* DEL of the key on an error path; its own error is ignored.
Release(r) ==
    /\ pc[r] = "release"
    /\ \/ /\ idem' = [idem EXCEPT ![user[r]] = NoKey]
          /\ holder' = [holder EXCEPT ![user[r]] = NoRequest]
          /\ UNCHANGED kept
       \/ /\ kept' = kept \cup {r}
          /\ UNCHANGED <<idem, holder>>
    /\ Goto(r, "err")
    /\ UNCHANGED <<held, lapsed>>
    /\ Fixed /\ Storage

\* queryCountResp as the whole answer: duplicates and the short-circuit.
Answer(r) ==
    /\ pc[r] = "answer"
    /\ Goto(r, "ok") \/ (mode.faulty /\ Goto(r, "err"))
    /\ UNCHANGED held
    /\ Fixed /\ Storage /\ Keys

--------------------------------------------------------------------------------
\* The process dies, or the caller's deadline ends the call, between two steps.
Crash(r) ==
    /\ mode.faulty
    /\ pc[r] \in Running
    /\ Goto(r, "crashed")
    /\ UNCHANGED held
    /\ Fixed /\ Storage /\ Keys

\* A key reaches its TTL.
Expire(u) ==
    /\ idem[u] # NoKey
    /\ idem' = [idem EXCEPT ![u] = NoKey]
    /\ holder' = [holder EXCEPT ![u] = NoRequest]
    /\ lapsed' = [lapsed EXCEPT ![u] =
                    @ \/ \E r \in Request : /\ user[r] = u /\ held[r]
                                            /\ pc[r] \in Working]
    /\ UNCHANGED <<pc, held, kept>>
    /\ Fixed /\ Storage

\* like-mq commits one of the messages, in no particular order (the pusher
\* gives messages no user key and eight processors drain the topic).  A vote
\* that fails validateMsg is dropped.  A message may be delivered again.
Consume(m) ==
    /\ IF m.type \in LikeTypes
       THEN /\ record' = [record EXCEPT ![m.user] = m.type]
            /\ past' = [past EXCEPT ![m.user] = @ \cup {m.type}]
       ELSE UNCHANGED <<record, past>>
    /\ UNCHANGED <<pc, held, pushed, intent>>
    /\ Fixed /\ Keys

\* The row cache drops its entry: lookups see the committed record again.
Refresh(u) ==
    /\ past[u] # {record[u]}
    /\ past' = [past EXCEPT ![u] = {record[u]}]
    /\ UNCHANGED <<pc, held, record, pushed, intent>>
    /\ Fixed /\ Keys

Serve(r) == \/ Lookup(r) \/ QueryCounts(r) \/ Push(r)
            \/ Mark(r) \/ Release(r) \/ Answer(r)

Next ==
    \/ \E r \in Request :
         \/ ReserveFree(r) \/ ReserveDuplicate(r) \/ ReserveConflict(r)
         \/ Serve(r)
         \/ Crash(r)
    \/ \E u \in User : Expire(u) \/ Refresh(u)
    \/ \E m \in pushed : Consume(m)

Spec == Init /\ [][Next]_vars

--------------------------------------------------------------------------------
TypeOK ==
    /\ mode \in Modes
    /\ user \in [Request -> User]
    /\ type \in [Request -> RequestTypes]
    /\ pc \in [Request -> Phases]
    /\ held \in [Request -> BOOLEAN]
    /\ idem \in [User -> Key]
    /\ record \in [User -> Votes]
    /\ past \in [User -> SUBSET Votes]
    /\ pushed \subseteq Message
    /\ intent \in [User -> RequestTypes \cup {NoVote}]
    /\ holder \in [User -> Request \cup {NoRequest}]
    /\ lapsed \in [User -> BOOLEAN]
    /\ kept \subseteq Request

Reached(u, t) == \E m \in pushed : m.user = u /\ m.type = t

\* A key says "done" only for a type some push of that user put into Kafka: a
\* duplicate turned away by "D:type" never loses an intent that was not sent.
DoneMeansPushed ==
    \A u \in User, t \in RequestTypes : idem[u] = Done(t) => Reached(u, t)

Owns(r) == held[r] /\ pc[r] \in Working

\* Two calls of one user work under the same reservation only after the 5 s TTL
\* of the first ran out while it was still at work.
AtMostOneHolder ==
    \A q, r \in Request :
        Owns(q) /\ Owns(r) /\ user[q] = user[r] /\ ~lapsed[user[r]] => q = r

\* A call that answers with an error leaves the key it created behind only when
\* its DEL failed or it had short-circuited (where the code returns without DEL):
\* the user's retry is otherwise not mistaken for a duplicate.
FailedRequestFreesKey ==
    \A r \in Request : pc[r] = "err" /\ holder[user[r]] = r => r \in kept

\* While no key lapsed under its owner, a key only ever goes free -> P:t -> D:t
\* -> free (or back to free from P:t); no request turns another's key around.
KeyLifecycle ==
    [][\A u \in User : ~lapsed'[u] /\ idem'[u] # idem[u] =>
          \/ idem'[u] = NoKey
          \/ idem[u] = NoKey /\ idem'[u].mode = "P"
          \/ idem[u].mode = "P" /\ idem'[u] = Done(idem[u].type)]_vars

--------------------------------------------------------------------------------
\* What the comment on the push promises, for users who call one at a time while
\* nothing fails: success only when the intent reached Kafka.  A call answered "ok"
\* has its type among the messages pushed.  Nothing less will do: with failures a
\* retry is answered as a duplicate of a call that never pushed.
AckedIntentReachedMQ ==
    mode.sequential /\ ~mode.faulty =>
        \A r \in Request : pc[r] = "ok" => Reached(user[r], type[r])

\* The same promise for a user who has only seen successes: the last intent in Kafka is the one just acknowledged.
LastAckedIntentReachedMQ ==
    [][\A r \in Request :
         /\ pc[r] # "ok" /\ pc'[r] = "ok"
         /\ \A q \in Request : user[q] = user[r] => pc'[q] \in {"idle", "ok"}
         => intent'[user[r]] = type[r]]_vars
================================================================================

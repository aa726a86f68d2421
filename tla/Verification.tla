----------------------------- MODULE Verification ------------------------------
(* applet's verification codes, registration and login, with user-rpc behind   *)
(* them.  A code lives in Redis for 30 minutes, a counter per mobile until the *)
(* end of the day; each Redis command and each RPC is a step of its own and    *)
(* may fail.  Texts of mobiles are trimmed by register and login and not by    *)
(* verification.  Passwords, names and the content of tokens but the user id   *)
(* are left out.                                                               *)
EXTENDS Integers, FiniteSets, SequencesExt

CONSTANTS
    Mobile,    \* mobile numbers as clients spell them
    Trim,      \* strings.TrimSpace on them
    Calls,     \* at most so many requests to /verification, /register and /login come
    Limit,     \* verificationLimitPerDay
    Modes      \* sequential - a phone's requests do not overlap,
               \* faulty - Redis and user-rpc fail, the process dies,
               \* calls - how many requests come, sent - whose codes Redis has,
               \* spelt - how clients spell mobiles

ASSUME TrimAssumption ==
    Mobile # {} /\ Trim \in [Mobile -> Mobile] /\ \A m \in Mobile : Trim[Trim[m]] = Trim[m]
ASSUME LimitAssumption == Limit \in Nat
ASSUME CallsAssumption == Calls \in Nat
ASSUME VerificationModeAssumption == 
    \A m \in Modes : /\ m.sequential \in BOOLEAN /\ m.faulty \in BOOLEAN
                    /\ m.calls \in 0 .. Calls /\ m.sent \in Seq(Mobile)
                    /\ m.spelt \subseteq Mobile

\* Calls are numbered in the order in which they begin.
Call == 1 .. Calls

VARIABLES
    mode,        \* of the behaviour, fixed
    late,        \* it is the last second of the day
    activation,  \* biz#activation#: the code of each mobile
    count,       \* biz#verification#count#: the counter of each mobile
    ttl,         \* whether that counter has an expiry
    due,         \* calls whose time for EXPIREAT is still to come
    user,        \* user-rpc's table: the id of each (encrypted) mobile
    lastId,      \* its AUTO_INCREMENT
    pc,          \* where each call is
    call,        \* what each call is, and its locals
    made,        \* history: the mobile each code was generated for, by code
    sms,         \* history: messages sent today, per mobile
    forgiven,    \* history: of these, sent before a late EXPIREAT deleted the counter
    overlap,     \* history: most verifications at once today, per mobile
    tokens       \* history: the tokens given: call, mobile, code, user

vars == <<mode, late, activation, count, ttl, due, user, lastId, pc, call,
          made, sms, forgiven, overlap, tokens>>

NoCode == 0
NoUser == 0
Encrypted == {<<"aes", m>> : m \in Mobile}
\* The same text for the same mobile, another for another.
EncMobile(m) == <<"aes", m>>

NoLocals == [kind |-> "none", mobile |-> CHOOSE m \in Mobile : TRUE, code |-> NoCode]
Kinds == {"none", "verification", "register", "login"}
Busy == {"count", "code", "sms", "save", "incr", "endofday", "expireat", "check", "find", "insert", "del"}

Init ==
    /\ mode \in Modes
    /\ late = FALSE
    /\ activation = [m \in Mobile |->
                       IF m \in Range(mode.sent) THEN CHOOSE n \in DOMAIN mode.sent : mode.sent[n] = m ELSE NoCode]
    /\ count = [m \in Mobile |-> 0]
    /\ ttl = [m \in Mobile |-> FALSE]
    /\ due = {}
    /\ user = [e \in Encrypted |-> NoUser]
    /\ lastId = 0
    /\ pc = [c \in Call |-> "new"]
    /\ call = [c \in Call |-> NoLocals]
    /\ made = mode.sent
    /\ sms = [m \in Mobile |-> 0]
    /\ forgiven = [m \in Mobile |-> 0]
    /\ overlap = [m \in Mobile |-> 0]
    /\ tokens = {}

Goto(c, phase) == pc' = [pc EXCEPT ![c] = phase]
Fixed == UNCHANGED mode
Counters == UNCHANGED <<late, count, ttl, due, sms, forgiven, overlap>>
Users == UNCHANGED <<user, lastId, tokens>>

\* A call ends, with an answer or an error, and its locals are gone.
End(c) == Goto(c, "ended") /\ call' = [call EXCEPT ![c] = NoLocals]
GoOn(c, phase) == Goto(c, phase) /\ UNCHANGED call
\* An error of an external call that the caller returns.
Error(c) == mode.faulty /\ End(c)

\* Verifications of a mobile that have begun and not ended.
Verifying(m) == {c \in Call : pc[c] \in Busy /\ call[c].kind = "verification" /\ call[c].mobile = m}

MayBegin(c, m) ==
    /\ pc[c] = "new" /\ c <= mode.calls /\ \A d \in 1 .. c - 1 : pc[d] # "new"
    /\ mode.sequential =>
          \A d \in Call : pc[d] \in Busy => Trim[call[d].mobile] # Trim[m]

--------------------------------------------------------------------------------
\* /verification: the counter is read; a failed read counts as zero.
BeginVerification(c, m) ==
    /\ MayBegin(c, m)
    /\ Goto(c, "count")
    /\ call' = [call EXCEPT ![c] = [NoLocals EXCEPT !.kind = "verification", !.mobile = m]]
    /\ LET now == Cardinality(Verifying(m)) + 1
       IN  overlap' = [overlap EXCEPT ![m] = IF now > @ THEN now ELSE @]
    /\ UNCHANGED <<late, activation, count, ttl, due, made, sms, forgiven>> /\ Users /\ Fixed

\* Bug: the limit is not looked at.
GetVerificationCount_NoLimit(c) ==
    /\ pc[c] = "count"
    /\ GoOn(c, "code")
    /\ UNCHANGED <<activation, made>> /\ Counters /\ Users /\ Fixed

\* Above the limit the call ends with the error of the read, which is nil.
GetVerificationCount(c) ==
    /\ pc[c] = "count"
    /\ \/ count[call[c].mobile] > Limit /\ End(c)
       \/ count[call[c].mobile] <= Limit /\ GoOn(c, "code")
       \/ mode.faulty /\ GoOn(c, "code")
    /\ UNCHANGED <<activation, made>> /\ Counters /\ Users /\ Fixed

\* Bug: a new code each time.
GetActivationCache_AlwaysNew(c) ==
    /\ pc[c] = "code"
    /\ Goto(c, "sms")
    /\ call' = [call EXCEPT ![c].code = Len(made) + 1]
    /\ made' = Append(made, call[c].mobile)
    /\ UNCHANGED activation /\ Counters /\ Users /\ Fixed

\* The code that is there, or a new one if there is none or the read failed.
GetActivationCache(c) ==
    /\ pc[c] = "code"
    /\ Goto(c, "sms")
    /\ LET m == call[c].mobile
       IN  \/ /\ activation[m] # NoCode
              /\ call' = [call EXCEPT ![c].code = activation[m]]
              /\ UNCHANGED made
           \/ /\ activation[m] = NoCode \/ mode.faulty
              /\ call' = [call EXCEPT ![c].code = Len(made) + 1]
              /\ made' = Append(made, m)
    /\ UNCHANGED activation /\ Counters /\ Users /\ Fixed

\* user-rpc's SendSms; what is sent in the last second of a day is not counted.
SendSms(c) ==
    /\ pc[c] = "sms"
    /\ \/ /\ GoOn(c, "save")
          /\ sms' = [sms EXCEPT ![call[c].mobile] = IF late THEN @ ELSE @ + 1]
       \/ Error(c) /\ UNCHANGED sms
    /\ UNCHANGED <<late, activation, count, ttl, due, made, forgiven, overlap>> /\ Users /\ Fixed

\* SETEX; an error may be reported for a command that was executed.
SaveActivationCache(c) ==
    /\ pc[c] = "save"
    /\ \/ GoOn(c, "incr") /\ activation' = [activation EXCEPT ![call[c].mobile] = call[c].code]
       \/ /\ Error(c)
          /\ \/ activation' = [activation EXCEPT ![call[c].mobile] = call[c].code]
             \/ UNCHANGED activation
    /\ UNCHANGED made /\ Counters /\ Users /\ Fixed

\* INCR; an error is logged, without the expiry the counter has none.
IncrVerificationCount(c) ==
    /\ pc[c] = "incr"
    /\ LET m == call[c].mobile
       IN  \/ GoOn(c, "endofday") /\ count' = [count EXCEPT ![m] = @ + 1]
           \/ mode.faulty /\ End(c) /\ UNCHANGED count
    /\ UNCHANGED <<late, activation, ttl, due, made, sms, forgiven, overlap>> /\ Users /\ Fixed

\* The time for EXPIREAT, 23:59:59 of the day, is computed; in the last second it is past.
EndOfDay(c) ==
    /\ pc[c] = "endofday"
    /\ GoOn(c, "expireat")
    /\ due' = IF late THEN due ELSE due \cup {c}
    /\ UNCHANGED <<late, activation, count, ttl, made, sms, forgiven, overlap>> /\ Users /\ Fixed

\* Bug: the expiry is set when the counter is created and not again.
ExpireAt_OnlyFirst(c) ==
    /\ pc[c] = "expireat"
    /\ End(c)
    /\ ttl' = [ttl EXCEPT ![call[c].mobile] = count[call[c].mobile] = 1]
    /\ due' = due \ {c}
    /\ UNCHANGED <<late, activation, count, made, sms, forgiven, overlap>> /\ Users /\ Fixed

\* EXPIREAT: where its time has come meanwhile the key goes at once, whatever the day.
ExpireAt(c) ==
    /\ pc[c] = "expireat"
    /\ End(c)
    /\ due' = due \ {c}
    /\ LET m == call[c].mobile
       IN  \/ /\ c \notin due
              /\ count' = [count EXCEPT ![m] = 0] /\ ttl' = [ttl EXCEPT ![m] = FALSE]
              /\ forgiven' = [forgiven EXCEPT ![m] = sms[m]]
           \/ c \in due /\ ttl' = [ttl EXCEPT ![m] = count[m] > 0] /\ UNCHANGED <<count, forgiven>>
           \/ mode.faulty /\ UNCHANGED <<count, ttl, forgiven>>
    /\ UNCHANGED <<late, activation, made, sms, overlap>> /\ Users /\ Fixed

--------------------------------------------------------------------------------
\* /register and /login with a code: one of those sent, or a wrong one.
BeginWithCode(c, kind, m, code) ==
    /\ MayBegin(c, m)
    /\ Goto(c, "check")
    /\ call' = [call EXCEPT ![c] = [kind |-> kind, mobile |-> Trim[m], code |-> code]]
    /\ UNCHANGED <<activation, made>> /\ Counters /\ Users /\ Fixed

\* Bug: an expired code is taken for a match.
CheckVerificationCode_NoExpiry(c) ==
    /\ pc[c] = "check"
    /\ IF activation[call[c].mobile] \in {NoCode, call[c].code} THEN GoOn(c, "find") ELSE End(c)
    /\ UNCHANGED <<activation, made>> /\ Counters /\ Users /\ Fixed

CheckVerificationCode(c) ==
    /\ pc[c] = "check"
    /\ \/ IF activation[call[c].mobile] = NoCode \/ activation[call[c].mobile] # call[c].code
          THEN End(c) ELSE GoOn(c, "find")
       \/ Error(c)
    /\ UNCHANGED <<activation, made>> /\ Counters /\ Users /\ Fixed

\* A token for the user, then the code is deleted (DeleteCode).
Token(c, id) ==
    /\ GoOn(c, "del")
    /\ tokens' = tokens \cup {[call |-> c, mobile |-> call[c].mobile, code |-> call[c].code, user |-> id]}

\* user-rpc's FindByMobile reads the table, not the cache; a missing user is no error.
FindByMobile(c) ==
    /\ pc[c] = "find"
    /\ LET id == user[EncMobile(call[c].mobile)]
       IN  \/ call[c].kind = "login" /\ id = NoUser /\ End(c) /\ UNCHANGED tokens
           \/ call[c].kind = "login" /\ id # NoUser /\ Token(c, id)
           \/ call[c].kind = "register" /\ id # NoUser /\ End(c) /\ UNCHANGED tokens
           \/ call[c].kind = "register" /\ id = NoUser /\ GoOn(c, "insert") /\ UNCHANGED tokens
           \/ Error(c) /\ UNCHANGED tokens
    /\ UNCHANGED <<activation, made, user, lastId>> /\ Counters /\ Fixed

\* INSERT into user-rpc's table, under uk_mobile.
Insert(c) ==
    /\ user[EncMobile(call[c].mobile)] = NoUser
    /\ user' = [user EXCEPT ![EncMobile(call[c].mobile)] = lastId + 1]
    /\ lastId' = lastId + 1

\* user-rpc's Register: refused for an empty name (an error like the others), ended by
\* the unique key, or the row is there, whether the reply says so or not.
Register(c) ==
    /\ pc[c] = "insert"
    /\ \/ Insert(c) /\ Token(c, lastId + 1)
       \/ End(c) /\ UNCHANGED <<user, lastId, tokens>>
       \/ Insert(c) /\ Error(c) /\ UNCHANGED tokens
    /\ UNCHANGED <<activation, made>> /\ Counters /\ Fixed

\* Bug: the code stays after its use.
DelActivationCache_Keeps(c) ==
    /\ pc[c] = "del"
    /\ End(c)
    /\ UNCHANGED <<activation, made>> /\ Counters /\ Users /\ Fixed

\* The code is deleted whatever it is by now; an error is ignored.
DelActivationCache(c) ==
    /\ pc[c] = "del"
    /\ End(c)
    /\ \/ activation' = [activation EXCEPT ![call[c].mobile] = NoCode]
       \/ mode.faulty /\ UNCHANGED activation
    /\ UNCHANGED made /\ Counters /\ Users /\ Fixed

--------------------------------------------------------------------------------
Crash(c) ==
    /\ mode.faulty /\ pc[c] \in Busy
    /\ End(c)
    /\ UNCHANGED <<activation, made>> /\ Counters /\ Users /\ Fixed

\* 30 minutes after SETEX.
ExpireCode(m) ==
    /\ activation[m] # NoCode
    /\ activation' = [activation EXCEPT ![m] = NoCode]
    /\ UNCHANGED <<pc, call, made>> /\ Counters /\ Users /\ Fixed

\* 23:59:59, when the counters with an expiry go and the times computed today are past,
\* and 00:00:00.
LastSecond ==
    /\ ~late /\ late' = TRUE
    /\ count' = [m \in Mobile |-> IF ttl[m] THEN 0 ELSE count[m]]
    /\ ttl' = [m \in Mobile |-> FALSE] /\ due' = {}
    /\ UNCHANGED <<activation, pc, call, made, sms, forgiven, overlap>> /\ Users /\ Fixed

Midnight ==
    /\ late /\ late' = FALSE
    /\ sms' = [m \in Mobile |-> 0] /\ forgiven' = [m \in Mobile |-> 0]
    /\ overlap' = [m \in Mobile |-> Cardinality(Verifying(m))]
    /\ UNCHANGED <<activation, count, ttl, due, pc, call, made>> /\ Users /\ Fixed

CallStep(c) ==
    \/ GetVerificationCount(c) \/ GetActivationCache(c) \/ SendSms(c)
    \/ SaveActivationCache(c) \/ IncrVerificationCount(c) \/ EndOfDay(c) \/ ExpireAt(c)
    \/ CheckVerificationCode(c) \/ FindByMobile(c) \/ Register(c) \/ DelActivationCache(c)

Begin(c) ==
    \E m \in mode.spelt :
        \/ BeginVerification(c, m)
        \/ \E kind \in {"register", "login"}, code \in NoCode .. Len(made) : BeginWithCode(c, kind, m, code)

Next ==
    \/ \E c \in Call : Begin(c) \/ CallStep(c) \/ Crash(c)
    \/ \E m \in Mobile : ExpireCode(m)
    \/ LastSecond \/ Midnight

Spec == Init /\ [][Next]_vars

\* A call that has begun goes on, and days end.
FairSpec ==
    /\ Spec
    /\ \A c \in Call : WF_vars(CallStep(c))
    /\ WF_vars(LastSecond) /\ WF_vars(Midnight)

--------------------------------------------------------------------------------
TypeOK ==
    /\ mode \in Modes /\ late \in BOOLEAN
    /\ activation \in [Mobile -> NoCode .. Len(made)]
    /\ count \in [Mobile -> Nat] /\ ttl \in [Mobile -> BOOLEAN] /\ due \subseteq Call
    /\ user \in [Encrypted -> NoUser .. lastId] /\ lastId \in Nat
    /\ pc \in [Call -> {"new", "ended"} \cup Busy]
    /\ call \in [Call -> [kind : Kinds, mobile : Mobile, code : Nat]]
    /\ made \in Seq(Mobile)
    /\ sms \in [Mobile -> Nat] /\ forgiven \in [Mobile -> Nat] /\ overlap \in [Mobile -> Nat]
    /\ tokens \subseteq [call : Call, mobile : Mobile, code : 1 .. Len(made), user : 1 .. lastId]

\* As long as Redis does not fail, a mobile (as spelled) is sent at most Limit messages a
\* day, and one more for each of the verifications that overlapped most: one for a client
\* who waits for its answers.  What is sent in the last second of the day is not counted, nor
\* what was sent before an EXPIREAT that was delayed over midnight deleted the new day's counter.
DailyLimit ==
    ~mode.faulty => \A m \in Mobile : sms[m] - forgiven[m] <= Limit + overlap[m]

\* A token names the one user registered with the mobile it was asked for, and the code
\* that was presented had been generated for that mobile: whatever fails and overlaps.
\* Without failures, a client whose calls do not overlap can use a code once.
TokensGenuine ==
    /\ \A t \in tokens : user[EncMobile(t.mobile)] = t.user /\ made[t.code] = t.mobile
    /\ \A d, e \in Encrypted : user[d] = user[e] /\ user[d] # NoUser => d = e
    /\ mode.sequential /\ ~mode.faulty => \A s, t \in tokens : s.code = t.code => s = t

\* "Within 30 minutes the code does not change": so it is without failures for a client
\* whose calls do not overlap; it is only deleted, by its use or its expiry.
CodeStable ==
    [][mode.sequential /\ ~mode.faulty =>
         \A m \in Mobile : activation[m] # NoCode => activation'[m] \in {NoCode, activation[m]}]_vars

\* A counter above the limit does not block its mobile for good: it goes with the day, as
\* long as Redis does not fail between INCR and EXPIREAT.
LimitEndsWithDay ==
    \A m \in Mobile : ~mode.faulty /\ count[m] > Limit ~> count[m] <= Limit
================================================================================

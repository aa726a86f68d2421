--------------------------- MODULE VerificationProofs --------------------------
(* Proofs about the verification codes, for any mobiles, any number of calls   *)
(* and any limit: what a token says is true, whatever fails and overlaps.      *)
EXTENDS Verification, FiniteSetTheorems, TLAPS

USE TrimAssumption, LimitAssumption, CallsAssumption, VerificationModeAssumption

Locals == [kind : Kinds, mobile : Mobile, code : Nat]
Phases == {"new", "ended"} \cup Busy
VerificationPhases == {"count", "code", "sms", "save", "incr", "endofday", "expireat"}

\* Each step belongs to the kind of call that has it; register and login have trimmed.
KindOK ==
    \A c \in Call :
        /\ pc[c] \in VerificationPhases => call[c].kind = "verification"
        /\ pc[c] \in Busy \ VerificationPhases =>
              call[c].kind \in {"register", "login"} /\ Trim[call[c].mobile] = call[c].mobile

\* A code is in the place of the mobile for which it was generated: in Redis and in the
\* calls that send it or have presented it.
CodesPlaced ==
    /\ \A m \in Mobile : activation[m] # NoCode => made[activation[m]] = m
    /\ \A c \in Call : pc[c] \in {"sms", "save", "find", "insert", "del"} =>
          call[c].code \in 1 .. Len(made) /\ made[call[c].code] = call[c].mobile

OneUserEach == \A d, e \in Encrypted : user[d] = user[e] /\ user[d] # NoUser => d = e
TokensTrue == \A t \in tokens : user[EncMobile(t.mobile)] = t.user /\ made[t.code] = t.mobile

\* The calls of a phone that waits for its answers come one at a time.
Alone ==
    mode.sequential => \A c, d \in Call :
        pc[c] \in Busy /\ pc[d] \in Busy /\ Trim[call[c].mobile] = Trim[call[d].mobile] => c = d

CodeInv == TypeOK /\ KindOK /\ CodesPlaced /\ OneUserEach /\ TokensTrue /\ Alone

LEMMA Constants ==
    /\ \A c \in Call : c \in Nat
    /\ \A m \in Mobile : EncMobile(m) \in Encrypted
    /\ \A m, n \in Mobile : EncMobile(m) = EncMobile(n) => m = n
    /\ NoLocals \in Locals /\ NoLocals.kind = "none" /\ NoLocals.code = NoCode
BY DEF Call, EncMobile, Encrypted, NoLocals, Locals, Kinds, NoCode

LEMMA CodeInit == Init => CodeInv
<1> SUFFICES ASSUME Init PROVE CodeInv
  OBVIOUS
<1>1. made \in Seq(Mobile) /\ mode \in Modes /\ mode.sent = made
  BY DEF Init
<1>2. activation \in [Mobile -> NoCode .. Len(made)]
      /\ \A m \in Mobile : activation[m] # NoCode => made[activation[m]] = m
  <2> SUFFICES ASSUME NEW m \in Mobile
               PROVE  activation[m] \in NoCode .. Len(made) /\ (activation[m] # NoCode => made[activation[m]] = m)
    BY DEF Init
  <2>1. CASE m \in Range(made)
    <3>1. \E n \in DOMAIN made : made[n] = m
      BY <2>1 DEF Range
    <3>2. activation[m] = CHOOSE n \in DOMAIN made : made[n] = m
      BY <1>1, <2>1 DEF Init
    <3> QED
      BY <1>1, <3>1, <3>2 DEF NoCode
  <2>2. CASE m \notin Range(made)
    BY <1>1, <2>2 DEF Init, NoCode
  <2> QED
    BY <2>1, <2>2
<1>3. call \in [Call -> Locals]
  BY Constants DEF Init
<1>4. TypeOK
  <2>1. /\ late = FALSE /\ lastId = 0 /\ tokens = {}
        /\ count = [m \in Mobile |-> 0] /\ ttl = [m \in Mobile |-> FALSE]
        /\ sms = [m \in Mobile |-> 0] /\ overlap = [m \in Mobile |-> 0]
        /\ due = {} /\ forgiven = [m \in Mobile |-> 0]
        /\ user = [e \in Encrypted |-> NoUser] /\ pc = [c \in Call |-> "new"]
    BY DEF Init
  <2>2. user \in [Encrypted -> NoUser .. lastId] /\ lastId \in Nat
    BY <2>1 DEF NoUser
  <2>3. /\ count \in [Mobile -> Nat] /\ ttl \in [Mobile -> BOOLEAN] /\ sms \in [Mobile -> Nat]
        /\ overlap \in [Mobile -> Nat] /\ late \in BOOLEAN
        /\ due \subseteq Call /\ forgiven \in [Mobile -> Nat]
    BY <2>1
  <2>4. pc \in [Call -> {"new", "ended"} \cup Busy]
    BY <2>1
  <2>5. tokens \subseteq [call : Call, mobile : Mobile, code : 1 .. Len(made), user : 1 .. lastId]
    BY <2>1
  <2> QED
    BY <1>1, <1>2, <1>3, <2>2, <2>3, <2>4, <2>5 DEF TypeOK, Locals
<1>5. \A c \in Call : pc[c] = "new"
  BY DEF Init
<1>6. OneUserEach /\ TokensTrue
  BY DEF Init, OneUserEach, TokensTrue, Encrypted
<1> QED
  BY <1>2, <1>4, <1>5, <1>6 DEF CodeInv, KindOK, CodesPlaced, Alone, Busy, VerificationPhases

\* A step of a call that leaves its locals and all codes alone, but for codes that Redis drops.
LEMMA StepOn ==
    ASSUME CodeInv, NEW c \in Call, NEW p \in Phases, GoOn(c, p),
           NEW gone \in SUBSET Mobile,
           activation' = [m \in Mobile |-> IF m \in gone THEN NoCode ELSE activation[m]],
           UNCHANGED <<made, user, lastId, tokens, mode>>,
           pc[c] \in Busy,
           p \in VerificationPhases => call[c].kind = "verification",
           p \in Busy \ VerificationPhases => pc[c] \in Busy \ VerificationPhases,
           p \in {"sms", "save", "find", "insert", "del"} =>
              call[c].code \in 1 .. Len(made) /\ made[call[c].code] = call[c].mobile
    PROVE  KindOK' /\ CodesPlaced' /\ OneUserEach' /\ TokensTrue' /\ Alone'
<1>1. pc' = [pc EXCEPT ![c] = p] /\ call' = call /\ pc \in [Call -> Phases]
  BY DEF GoOn, Goto, CodeInv, TypeOK, Phases
<1>2. KindOK' /\ Alone'
  BY <1>1 DEF CodeInv, KindOK, Alone, Phases, Busy, VerificationPhases
<1>3. CodesPlaced'
  BY <1>1 DEF CodeInv, CodesPlaced, NoCode
<1>4. OneUserEach' /\ TokensTrue'
  BY DEF CodeInv, OneUserEach, TokensTrue, EncMobile
<1> QED
  BY <1>2, <1>3, <1>4

\* A user more is another user, and the users there are stay.
LEMMA NewUser ==
    ASSUME CodeInv, NEW c \in Call, UNCHANGED user \/ Insert(c)
    PROVE  OneUserEach' /\ \A e \in Encrypted : user[e] # NoUser => user'[e] = user[e]
<1>1. /\ EncMobile(call[c].mobile) \in Encrypted /\ OneUserEach
      /\ user \in [Encrypted -> NoUser .. lastId] /\ lastId \in Nat
  BY Constants DEF CodeInv, TypeOK
<1>2. CASE UNCHANGED user
  BY <1>2, <1>1 DEF OneUserEach
<1>3. CASE Insert(c)
  <2>1. /\ user' = [user EXCEPT ![EncMobile(call[c].mobile)] = lastId + 1]
        /\ user[EncMobile(call[c].mobile)] = NoUser
    BY <1>3 DEF Insert
  <2>2. \A e \in Encrypted : user[e] # lastId + 1
    BY <1>1 DEF NoUser
  <2> QED
    BY <1>1, <2>1, <2>2 DEF OneUserEach
<1> QED
  BY <1>2, <1>3

\* The same for a step that ends the call, with a user more or not.
LEMMA StepEnd ==
    ASSUME CodeInv, NEW c \in Call, End(c),
           NEW gone \in SUBSET Mobile,
           activation' = [m \in Mobile |-> IF m \in gone THEN NoCode ELSE activation[m]],
           UNCHANGED user \/ Insert(c), UNCHANGED <<made, tokens, mode>>
    PROVE  KindOK' /\ CodesPlaced' /\ OneUserEach' /\ TokensTrue' /\ Alone'
<1>1. /\ pc' = [pc EXCEPT ![c] = "ended"] /\ pc \in [Call -> Phases]
      /\ call' = [call EXCEPT ![c] = NoLocals] /\ call \in [Call -> Locals]
  BY DEF End, Goto, CodeInv, TypeOK, Phases, Locals
<1>2. \A d \in Call : d # c => pc'[d] = pc[d] /\ call'[d] = call[d]
  BY <1>1
<1>3. pc'[c] = "ended"
  BY <1>1
<1>4. KindOK' /\ Alone'
  BY <1>2, <1>3 DEF CodeInv, KindOK, Alone, Busy, VerificationPhases
<1>5. CodesPlaced'
  BY <1>2, <1>3 DEF CodeInv, CodesPlaced, NoCode
<1>6. OneUserEach' /\ TokensTrue'
  <2>1. \A t \in tokens : t.mobile \in Mobile /\ t.user # NoUser
    <3>1. lastId \in Nat /\ tokens \subseteq [call : Call, mobile : Mobile, code : 1 .. Len(made), user : 1 .. lastId]
      BY DEF CodeInv, TypeOK
    <3> QED
      BY <3>1 DEF NoUser
  <2> QED
    BY <2>1, NewUser, Constants DEF CodeInv, TokensTrue
<1> QED
  BY <1>4, <1>5, <1>6

LEMMA VerifyingFinite ==
    /\ IsFiniteSet(Call)
    /\ \A m : IsFiniteSet(Verifying(m)) /\ Cardinality(Verifying(m)) \in Nat
<1>1. IsFiniteSet(Call)
  BY FS_Interval DEF Call
<1>2. \A m : Verifying(m) \subseteq Call
  BY DEF Verifying
<1> QED
  BY <1>1, <1>2, FS_Subset, FS_CardinalityType

\* The types in groups, as the actions keep or change them.
CodeTypes ==
    mode \in Modes /\ activation \in [Mobile -> NoCode .. Len(made)] /\ made \in Seq(Mobile)
CounterTypes ==
    /\ late \in BOOLEAN /\ count \in [Mobile -> Nat] /\ ttl \in [Mobile -> BOOLEAN] /\ due \subseteq Call
    /\ sms \in [Mobile -> Nat] /\ forgiven \in [Mobile -> Nat] /\ overlap \in [Mobile -> Nat]
UserTypes ==
    /\ user \in [Encrypted -> NoUser .. lastId] /\ lastId \in Nat
    /\ tokens \subseteq [call : Call, mobile : Mobile, code : 1 .. Len(made), user : 1 .. lastId]
PlaceTypes == pc \in [Call -> Phases] /\ call \in [Call -> Locals]

LEMMA TypeParts ==
    /\ TypeOK <=> CodeTypes /\ CounterTypes /\ UserTypes /\ PlaceTypes
    /\ CodeTypes' /\ CounterTypes' /\ UserTypes' /\ PlaceTypes' => TypeOK'
BY DEF TypeOK, CodeTypes, CounterTypes, UserTypes, PlaceTypes, Phases, Locals

\* What the short forms of "unchanged" keep.
LEMMA Kept ==
    ASSUME TypeOK
    PROVE  /\ Counters => CounterTypes'
           /\ Users /\ UNCHANGED made => UserTypes'
           /\ UNCHANGED <<activation, made>> /\ Fixed => CodeTypes'
           /\ UNCHANGED <<pc, call>> => PlaceTypes'
BY TypeParts DEF Counters, Users, Fixed, CounterTypes, UserTypes, CodeTypes, PlaceTypes

\* Where a call goes and what it is keep their types.
LEMMA Moves ==
    ASSUME TypeOK, NEW c \in Call, NEW p \in Phases
    PROVE  /\ GoOn(c, p) => PlaceTypes'
           /\ End(c) => PlaceTypes'
           /\ \A l \in Locals : Goto(c, p) /\ call' = [call EXCEPT ![c] = l] => PlaceTypes'
<1>1. pc \in [Call -> Phases] /\ call \in [Call -> Locals]
  BY TypeParts DEF PlaceTypes
<1>2. \A q \in Phases : [pc EXCEPT ![c] = q] \in [Call -> Phases]
  BY <1>1
<1>3. \A l \in Locals : [call EXCEPT ![c] = l] \in [Call -> Locals]
  BY <1>1
<1>4. "ended" \in Phases
  BY DEF Phases
<1>5. NoLocals \in Locals
  BY Constants
<1> QED
  BY <1>1, <1>2, <1>3, <1>4, <1>5 DEF GoOn, End, Goto, PlaceTypes

LEMMA BusyPhases ==
    {"count", "code", "sms", "save", "incr", "endofday", "expireat", "check", "find", "insert", "del"} \subseteq Phases
BY DEF Phases, Busy

\* The locals of a call when a step writes them.
LEMMA Writes ==
    ASSUME TypeOK, NEW c \in Call, NEW m \in Mobile, NEW k \in Kinds, NEW n \in Nat
    PROVE  /\ call[c] \in Locals /\ call[c].mobile \in Mobile
           /\ [NoLocals EXCEPT !.kind = k, !.mobile = m] \in Locals
           /\ [kind |-> k, mobile |-> Trim[m], code |-> n] \in Locals
           /\ [call[c] EXCEPT !.code = n] \in Locals
           /\ [call EXCEPT ![c].code = n] = [call EXCEPT ![c] = [call[c] EXCEPT !.code = n]]
<1>1. call[c] \in Locals
  BY TypeParts DEF PlaceTypes
<1>2. NoLocals \in Locals /\ Trim[m] \in Mobile
  BY Constants
<1> QED
  BY <1>1, <1>2 DEF Locals

\* A code more does not disturb the codes there are.
LEMMA OneMoreCode ==
    ASSUME TypeOK, NEW m \in Mobile, made' = Append(made, m)
    PROVE  /\ made' \in Seq(Mobile) /\ Len(made') = Len(made) + 1 /\ Len(made) \in Nat
           /\ made'[Len(made) + 1] = m
           /\ \A n \in 1 .. Len(made) : made'[n] = made[n]
           /\ 1 .. Len(made) \subseteq 1 .. Len(made') /\ NoCode .. Len(made) \subseteq NoCode .. Len(made')
<1>1. made \in Seq(Mobile)
  BY DEF TypeOK
<1> QED
  BY <1>1 DEF NoCode

LEMMA TypeStep == CodeInv /\ [Next]_vars => TypeOK'
<1> SUFFICES ASSUME CodeInv, [Next]_vars PROVE TypeOK'
  OBVIOUS
<1>o. TypeOK /\ CodesPlaced
  BY DEF CodeInv
<1>p. CodeTypes /\ CounterTypes /\ UserTypes /\ PlaceTypes
  BY <1>o, TypeParts
<1> USE <1>o
<1>1. CASE UNCHANGED vars
  BY <1>1, <1>p, TypeParts, Kept DEF vars, Counters, Users, Fixed
<1>2. ASSUME NEW c \in Call, CallStep(c) PROVE TypeOK'
  <2> DEFINE m == call[c].mobile
  <2>m. m \in Mobile /\ call[c] \in Locals
    BY Writes DEF Kinds
  <2> HIDE DEF m
  <2>1. CASE GetVerificationCount(c)
    BY <2>1, Kept, Moves, BusyPhases, TypeParts DEF GetVerificationCount
  <2>2. CASE GetActivationCache(c)
    <3>1. Counters /\ Fixed /\ Goto(c, "sms") /\ activation' = activation /\ Users
      BY <2>2 DEF GetActivationCache
    <3>2. CASE activation[m] # NoCode /\ call' = [call EXCEPT ![c].code = activation[m]] /\ UNCHANGED made
      <4>1. activation[m] \in Nat
        BY <1>p, <2>m DEF CodeTypes, NoCode
      <4>2. PlaceTypes'
        BY <3>1, <3>2, <4>1, Writes, <2>m, Moves, BusyPhases DEF Kinds
      <4> QED
        BY <3>1, <3>2, <4>2, Kept, TypeParts
    <3>3. CASE call' = [call EXCEPT ![c].code = Len(made) + 1] /\ made' = Append(made, m)
      <4>1. Len(made) + 1 \in Nat
        BY OneMoreCode, <3>3, <2>m
      <4>2. PlaceTypes'
        BY <3>1, <3>3, <4>1, Writes, <2>m, Moves, BusyPhases DEF Kinds
      <4>3. CodeTypes'
        BY <1>p, <3>1, <3>3, <2>m, OneMoreCode DEF CodeTypes, Fixed
      <4>4. UserTypes'
        BY <1>p, <3>1, <3>3, <2>m, OneMoreCode DEF UserTypes, Users
      <4> QED
        BY <3>1, <4>2, <4>3, <4>4, Kept, TypeParts
    <3> QED
      BY <2>2, <3>2, <3>3 DEF GetActivationCache, m
  <2>3. CASE SendSms(c)
    <3>1. PlaceTypes' /\ CodeTypes' /\ UserTypes'
      BY <2>3, Kept, Moves, BusyPhases DEF SendSms, Error
    <3>2. sms' = sms \/ \E n \in {sms[m], sms[m] + 1} : sms' = [sms EXCEPT ![m] = n]
      BY <2>3, Zenon DEF SendSms, m
    <3>3. sms' \in [Mobile -> Nat]
      <4>1. sms \in [Mobile -> Nat] /\ sms[m] \in Nat /\ sms[m] + 1 \in Nat
        BY <2>m, <1>p DEF CounterTypes
      <4>2. \A n \in Nat : [sms EXCEPT ![m] = n] \in [Mobile -> Nat]
        BY <4>1
      <4> QED
        BY <3>2, <4>1, <4>2
    <3> QED
      BY <2>3, <3>1, <3>3, <1>p, TypeParts DEF SendSms, CounterTypes
  <2>4. CASE SaveActivationCache(c)
    <3>1. PlaceTypes' /\ CounterTypes' /\ UserTypes'
      BY <2>4, Kept, Moves, BusyPhases DEF SaveActivationCache, Error
    <3>2. activation' \in [Mobile -> NoCode .. Len(made)]
      BY <2>4, <2>m, <1>p, <1>o DEF SaveActivationCache, CodeTypes, CodesPlaced, NoCode, m
    <3> QED
      BY <2>4, <3>1, <3>2, <1>p, TypeParts DEF SaveActivationCache, CodeTypes, Fixed
  <2>5. CASE IncrVerificationCount(c)
    <3>1. PlaceTypes' /\ CodeTypes' /\ UserTypes'
      BY <2>5, Kept, Moves, BusyPhases DEF IncrVerificationCount
    <3>2. count' \in [Mobile -> Nat]
      <4>1. count \in [Mobile -> Nat]
        BY <1>p DEF CounterTypes
      <4>2. count' = count \/ count' = [count EXCEPT ![m] = @ + 1]
        BY <2>5 DEF IncrVerificationCount, m
      <4> QED
        BY <2>m, <4>1, <4>2
    <3> QED
      BY <2>5, <3>1, <3>2, <1>p, TypeParts DEF IncrVerificationCount, CounterTypes
  <2>6. CASE ExpireAt(c)
    <3>1. PlaceTypes' /\ CodeTypes' /\ UserTypes'
      BY <2>6, Kept, Moves, BusyPhases DEF ExpireAt
    <3>2. count' = count \/ count' = [count EXCEPT ![m] = 0]
      BY <2>6 DEF ExpireAt, m
    <3>3. ttl' = ttl \/ \E b \in BOOLEAN : ttl' = [ttl EXCEPT ![m] = b]
      <4>1. (count[m] > 0) \in BOOLEAN
        OBVIOUS
      <4> QED
        BY <2>6, <4>1, Zenon DEF ExpireAt, m
    <3>5. due' \subseteq Call /\ forgiven' \in [Mobile -> Nat]
      <4>1. forgiven \in [Mobile -> Nat] /\ sms[m] \in Nat /\ due \subseteq Call
        BY <1>p, <2>m DEF CounterTypes
      <4>2. forgiven' = forgiven \/ forgiven' = [forgiven EXCEPT ![m] = sms[m]]
        BY <2>6 DEF ExpireAt, m
      <4>3. [forgiven EXCEPT ![m] = sms[m]] \in [Mobile -> Nat]
        BY <4>1
      <4> QED
        BY <2>6, <4>1, <4>2, <4>3 DEF ExpireAt
    <3>4. count' \in [Mobile -> Nat] /\ ttl' \in [Mobile -> BOOLEAN]
      <4>1. count \in [Mobile -> Nat] /\ ttl \in [Mobile -> BOOLEAN]
        BY <1>p DEF CounterTypes
      <4>2. \A b \in BOOLEAN : [ttl EXCEPT ![m] = b] \in [Mobile -> BOOLEAN]
        BY <4>1
      <4>3. [count EXCEPT ![m] = 0] \in [Mobile -> Nat]
        BY <4>1
      <4> QED
        BY <3>2, <3>3, <4>1, <4>2, <4>3
    <3> QED
      BY <2>6, <3>1, <3>4, <3>5, <1>p, TypeParts DEF ExpireAt, CounterTypes
  <2>11. CASE EndOfDay(c)
    <3>1. PlaceTypes' /\ CodeTypes' /\ UserTypes'
      BY <2>11, Kept, Moves, BusyPhases DEF EndOfDay
    <3> QED
      BY <2>11, <3>1, <1>p, TypeParts DEF EndOfDay, CounterTypes
  <2>7. CASE CheckVerificationCode(c)
    BY <2>7, Kept, Moves, BusyPhases, TypeParts DEF CheckVerificationCode, Error
  <2>8. CASE FindByMobile(c)
    <3>1. PlaceTypes' /\ CounterTypes' /\ CodeTypes'
      BY <2>8, Kept, Moves, BusyPhases DEF FindByMobile, Error, Token
    <3>2. tokens' = tokens \/ \E id \in 1 .. lastId :
             tokens' = tokens \cup {[call |-> c, mobile |-> m, code |-> call[c].code, user |-> id]}
      <4>1. user[EncMobile(m)] \in NoUser .. lastId
        BY <1>p, <2>m, Constants DEF UserTypes
      <4> QED
        BY <2>8, <4>1, <1>p DEF FindByMobile, Token, NoUser, UserTypes, m
    <3>3. call[c].code \in 1 .. Len(made)
      BY <2>8, <1>o DEF FindByMobile, CodesPlaced
    <3>4. UserTypes'
      BY <2>8, <3>2, <3>3, <2>m, <1>p DEF FindByMobile, UserTypes
    <3> QED
      BY <3>1, <3>4, TypeParts
  <2>9. CASE Register(c)
    <3>1. PlaceTypes' /\ CounterTypes' /\ CodeTypes'
      BY <2>9, Kept, Moves, BusyPhases DEF Register, Error, Token
    <3>2. call[c].code \in 1 .. Len(made)
      BY <2>9, <1>o DEF Register, CodesPlaced
    <3>3. CASE UNCHANGED <<user, lastId, tokens>>
      BY <2>9, <3>1, <3>3, Kept, TypeParts DEF Register, Users
    <3>4. CASE Insert(c) /\ tokens' \in {tokens, tokens \cup
                    {[call |-> c, mobile |-> m, code |-> call[c].code, user |-> lastId + 1]}}
      <4>1. user' \in [Encrypted -> NoUser .. lastId'] /\ lastId' = lastId + 1 /\ lastId' \in Nat
        <5>1. user \in [Encrypted -> NoUser .. lastId] /\ lastId \in Nat /\ lastId' = lastId + 1
          BY <3>4, <1>p DEF Insert, UserTypes
        <5>2. user' = [user EXCEPT ![EncMobile(m)] = lastId + 1]
          BY <3>4 DEF Insert, m
        <5>3. user \in [Encrypted -> NoUser .. lastId'] /\ lastId + 1 \in NoUser .. lastId'
          BY <5>1 DEF NoUser
        <5>4. [user EXCEPT ![EncMobile(m)] = lastId + 1] \in [Encrypted -> NoUser .. lastId']
          BY <5>3
        <5> QED
          BY <5>1, <5>2, <5>4
      <4>2. tokens' \subseteq [call : Call, mobile : Mobile, code : 1 .. Len(made), user : 1 .. lastId']
        BY <3>4, <4>1, <3>2, <2>m, <1>p DEF UserTypes
      <4> QED
        BY <2>9, <3>1, <4>1, <4>2, TypeParts DEF Register, UserTypes
    <3> QED
      BY <2>9, <3>3, <3>4 DEF Register, Token, m
  <2>10. CASE DelActivationCache(c)
    <3>1. PlaceTypes' /\ CounterTypes' /\ UserTypes'
      BY <2>10, Kept, Moves, BusyPhases DEF DelActivationCache
    <3>2. activation' \in [Mobile -> NoCode .. Len(made)]
      BY <2>10, <2>m, <1>p DEF DelActivationCache, CodeTypes, NoCode, m
    <3> QED
      BY <2>10, <3>1, <3>2, <1>p, TypeParts DEF DelActivationCache, CodeTypes, Fixed
  <2> QED
    BY <1>2, <2>1, <2>2, <2>3, <2>4, <2>5, <2>6, <2>7, <2>8, <2>9, <2>10, <2>11 DEF CallStep
<1>3. ASSUME NEW c \in Call, Begin(c) PROVE TypeOK'
  <2>1. ASSUME NEW m \in Mobile, BeginVerification(c, m) PROVE TypeOK'
    <3>1. PlaceTypes' /\ CodeTypes' /\ UserTypes'
      BY <2>1, Kept, Moves, Writes, BusyPhases DEF BeginVerification, Kinds
    <3>2. overlap' \in [Mobile -> Nat]
      BY <2>1, <1>p, VerifyingFinite DEF BeginVerification, CounterTypes
    <3> QED
      BY <2>1, <3>1, <3>2, <1>p, TypeParts DEF BeginVerification, CounterTypes
  <2>2. ASSUME NEW m \in Mobile, NEW kind \in {"register", "login"}, NEW code \in NoCode .. Len(made),
               BeginWithCode(c, kind, m, code)
        PROVE  TypeOK'
    <3>1. code \in Nat /\ kind \in Kinds
      BY <1>p DEF NoCode, CodeTypes, Kinds
    <3> QED
      BY <2>2, <3>1, Kept, Moves, Writes, BusyPhases, TypeParts DEF BeginWithCode
  <2>3. mode.spelt \subseteq Mobile
    BY <1>p DEF CodeTypes
  <2> QED
    BY <1>3, <2>1, <2>2, <2>3 DEF Begin
<1>4. ASSUME NEW c \in Call, Crash(c) PROVE TypeOK'
  BY <1>4, Kept, Moves, BusyPhases, TypeParts DEF Crash
<1>5. ASSUME NEW m \in Mobile, ExpireCode(m) PROVE TypeOK'
  <2>1. PlaceTypes' /\ CounterTypes' /\ UserTypes'
    BY <1>5, Kept DEF ExpireCode
  <2>2. activation' \in [Mobile -> NoCode .. Len(made)]
    BY <1>5, <1>p DEF ExpireCode, CodeTypes, NoCode
  <2> QED
    BY <1>5, <2>1, <2>2, <1>p, TypeParts DEF ExpireCode, CodeTypes, Fixed
<1>6. CASE LastSecond
  <2>1. PlaceTypes' /\ CodeTypes' /\ UserTypes'
    BY <1>6, Kept DEF LastSecond
  <2> QED
    BY <1>6, <2>1, <1>p, TypeParts DEF LastSecond, CounterTypes
<1>7. CASE Midnight
  <2>1. PlaceTypes' /\ CodeTypes' /\ UserTypes'
    BY <1>7, Kept DEF Midnight
  <2> QED
    BY <1>7, <2>1, <1>p, VerifyingFinite, TypeParts DEF Midnight, CounterTypes
<1> QED
  BY <1>1, <1>2, <1>3, <1>4, <1>5, <1>6, <1>7 DEF Next

\* A call that begins has no code yet; one that presents one has trimmed its mobile.
LEMMA BeginSafe ==
    ASSUME CodeInv, NEW c \in Call, NEW m \in Mobile, MayBegin(c, m),
           NEW p \in {"count", "check"}, NEW l \in Locals,
           Goto(c, p), call' = [call EXCEPT ![c] = l],
           p = "count" => l.kind = "verification" /\ l.mobile = m,
           p = "check" => l.kind \in {"register", "login"} /\ l.mobile = Trim[m],
           UNCHANGED <<activation, made, user, lastId, tokens, mode>>
    PROVE  KindOK' /\ CodesPlaced' /\ OneUserEach' /\ TokensTrue' /\ Alone'
<1>1. /\ pc \in [Call -> Phases] /\ call \in [Call -> Locals]
      /\ pc' = [pc EXCEPT ![c] = p] /\ call' = [call EXCEPT ![c] = l]
  BY TypeParts DEF Goto, CodeInv, PlaceTypes
<1>2. Trim[l.mobile] = Trim[m] /\ (p = "check" => Trim[l.mobile] = l.mobile)
  OBVIOUS
<1>3. KindOK'
  BY <1>1, <1>2 DEF CodeInv, KindOK, Busy, VerificationPhases
<1>4. CodesPlaced'
  BY <1>1 DEF CodeInv, CodesPlaced
<1>5. OneUserEach' /\ TokensTrue'
  BY DEF CodeInv, OneUserEach, TokensTrue, EncMobile
<1>6. Alone'
  <2> SUFFICES ASSUME mode.sequential, NEW d \in Call, NEW e \in Call, pc'[d] \in Busy, pc'[e] \in Busy,
                      Trim[call'[d].mobile] = Trim[call'[e].mobile]
               PROVE  d = e
    BY Zenon DEF Alone
  <2>1. \A x \in Call : x # c /\ pc'[x] \in Busy =>
           pc[x] \in Busy /\ call'[x] = call[x] /\ Trim[call'[x].mobile] # Trim[m]
    BY <1>1 DEF MayBegin
  <2>2. Trim[call'[c].mobile] = Trim[m]
    BY <1>1, <1>2
  <2>3. CASE d # c /\ e # c
    BY <2>1, <2>3 DEF CodeInv, Alone
  <2> QED
    BY <2>1, <2>2, <2>3
<1> QED
  BY <1>3, <1>4, <1>5, <1>6

\* A token for the user of a call's mobile is true, and a user more is another user.
LEMMA TokenStep ==
    ASSUME CodeInv, NEW c \in Call, pc[c] \in {"find", "insert"},
           NEW id, Token(c, id), user'[EncMobile(call[c].mobile)] = id,
           \/ UNCHANGED user
           \/ Insert(c),
           UNCHANGED <<activation, made, mode>>
    PROVE  KindOK' /\ CodesPlaced' /\ OneUserEach' /\ TokensTrue' /\ Alone'
<1> DEFINE m == call[c].mobile
           t == [call |-> c, mobile |-> m, code |-> call[c].code, user |-> id]
<1>o. TypeOK /\ KindOK /\ CodesPlaced /\ OneUserEach /\ TokensTrue /\ Alone
  BY DEF CodeInv
<1>p. CodeTypes /\ CounterTypes /\ UserTypes /\ PlaceTypes
  BY <1>o, TypeParts
<1>1. /\ m \in Mobile /\ EncMobile(m) \in Encrypted
      /\ user \in [Encrypted -> NoUser .. lastId] /\ lastId \in Nat
  BY <1>p, Constants DEF PlaceTypes, Locals, UserTypes
<1>2. /\ pc' = [pc EXCEPT ![c] = "del"] /\ call' = call /\ tokens' = tokens \cup {t}
      /\ pc \in [Call -> Phases]
  BY <1>p DEF Token, GoOn, Goto, PlaceTypes
<1>3. KindOK' /\ Alone'
  BY <1>2, <1>o DEF KindOK, Alone, Busy, VerificationPhases
<1>4. made[call[c].code] = m
  BY <1>o DEF CodesPlaced
<1>5. CodesPlaced'
  BY <1>2, <1>o DEF CodesPlaced
<1>6. OneUserEach' /\ \A e \in Encrypted : user[e] # NoUser => user'[e] = user[e]
  BY NewUser
<1>7. TokensTrue'
  <2>1. \A s \in tokens : s.user # NoUser /\ s.mobile \in Mobile
    BY <1>p DEF UserTypes, NoUser
  <2>2. \A s \in tokens : user'[EncMobile(s.mobile)] = s.user /\ made'[s.code] = s.mobile
    BY <1>6, <1>o, <2>1, Constants DEF TokensTrue
  <2>3. user'[EncMobile(t.mobile)] = t.user /\ made'[t.code] = t.mobile
    BY <1>4
  <2> HIDE DEF t
  <2>4. \A s \in tokens' : s \in tokens \/ s = t
    BY <1>2
  <2>5. \A s \in tokens' : user'[EncMobile(s.mobile)] = s.user /\ made'[s.code] = s.mobile
    BY <2>2, <2>3, <2>4
  <2> QED
    BY <2>5 DEF TokensTrue, EncMobile
<1> QED
  BY <1>3, <1>5, <1>6, <1>7

LEMMA CodeStep == CodeInv /\ [Next]_vars => CodeInv'
<1> SUFFICES ASSUME CodeInv, [Next]_vars PROVE KindOK' /\ CodesPlaced' /\ OneUserEach' /\ TokensTrue' /\ Alone'
  BY TypeStep DEF CodeInv
<1>o. TypeOK /\ KindOK /\ CodesPlaced /\ OneUserEach /\ TokensTrue /\ Alone
  BY DEF CodeInv
<1>p. CodeTypes /\ CounterTypes /\ UserTypes /\ PlaceTypes
  BY <1>o, TypeParts
<1>1. CASE UNCHANGED vars
  BY <1>1, <1>o DEF vars, KindOK, CodesPlaced, OneUserEach, TokensTrue, Alone
<1>2. ASSUME NEW c \in Call, CallStep(c) PROVE KindOK' /\ CodesPlaced' /\ OneUserEach' /\ TokensTrue' /\ Alone'
  <2> DEFINE m == call[c].mobile
             Without(gone) == [n \in Mobile |-> IF n \in gone THEN NoCode ELSE activation[n]]
  <2>m. m \in Mobile /\ call[c] \in Locals /\ pc[c] \in Phases
    BY <1>p DEF PlaceTypes, Locals
  <2>a. activation = Without({}) /\ [activation EXCEPT ![m] = NoCode] = Without({m})
    BY <1>p, <2>m DEF CodeTypes
  <2>b. {} \in SUBSET Mobile /\ {m} \in SUBSET Mobile
    BY <2>m
  <2> HIDE DEF m, Without
  <2>1. CASE GetVerificationCount(c)
    <3>1. pc[c] = "count" /\ activation' = Without({}) /\ UNCHANGED <<made, user, lastId, tokens, mode>>
      BY <2>1, <2>a DEF GetVerificationCount, Users, Fixed
    <3>2. CASE End(c)
      BY <3>1, <3>2, <2>b, StepEnd DEF Without
    <3>3. CASE GoOn(c, "code")
      <4>1. pc[c] \in Busy /\ call[c].kind = "verification" /\ "code" \in Phases
            /\ "code" \notin Busy \ VerificationPhases
        BY <3>1, <1>o DEF KindOK, Busy, VerificationPhases, Phases
      <4> QED
        BY <3>1, <3>3, <4>1, <2>b, StepOn DEF Without
    <3> QED
      BY <2>1, <3>2, <3>3 DEF GetVerificationCount
  <2>2. CASE GetActivationCache(c)
    <3>1. /\ pc[c] = "code" /\ pc' = [pc EXCEPT ![c] = "sms"]
          /\ UNCHANGED <<activation, user, lastId, tokens, mode>>
      BY <2>2 DEF GetActivationCache, Goto, Users, Fixed
    <3>2. \E n \in 1 .. Len(made') :
             /\ call' = [call EXCEPT ![c].code = n] /\ made'[n] = m
             /\ made' \in Seq(Mobile) /\ Len(made) \in Nat /\ Len(made') \in Nat
             /\ \A k \in 1 .. Len(made) : k \in 1 .. Len(made') /\ made'[k] = made[k]
      <4>1. CASE activation[m] # NoCode /\ call' = [call EXCEPT ![c].code = activation[m]] /\ UNCHANGED made
        <5>1. activation[m] \in 1 .. Len(made) /\ made[activation[m]] = m
          BY <4>1, <1>o, <1>p, <2>m DEF CodesPlaced, CodeTypes, NoCode
        <5>2. /\ activation[m] \in 1 .. Len(made') /\ made'[activation[m]] = m
              /\ made' \in Seq(Mobile) /\ Len(made) \in Nat /\ Len(made') \in Nat
              /\ \A k \in 1 .. Len(made) : k \in 1 .. Len(made') /\ made'[k] = made[k]
          BY <4>1, <5>1, <1>p DEF CodeTypes
        <5> QED
          BY <4>1, <5>2, Zenon
      <4>2. CASE call' = [call EXCEPT ![c].code = Len(made) + 1] /\ made' = Append(made, m)
        <5>1. /\ Len(made) + 1 \in 1 .. Len(made') /\ made'[Len(made) + 1] = m
              /\ made' \in Seq(Mobile) /\ Len(made) \in Nat /\ Len(made') \in Nat
              /\ \A k \in 1 .. Len(made) : k \in 1 .. Len(made') /\ made'[k] = made[k]
          BY <4>2, <2>m, <1>o, OneMoreCode
        <5> QED
          BY <4>2, <5>1, Zenon
      <4> QED
        BY <2>2, <4>1, <4>2 DEF GetActivationCache, m
    <3>3. PICK n \in 1 .. Len(made') : <3>2!(n)
      BY <3>2
    <3>4. /\ \A d \in Call : call'[d].kind = call[d].kind /\ call'[d].mobile = call[d].mobile
          /\ call'[c].code = n /\ \A d \in Call : d # c => call'[d] = call[d] /\ pc'[d] = pc[d]
          /\ pc'[c] = "sms"
      BY <3>1, <3>3, <1>p DEF PlaceTypes, Locals
    <3>5. KindOK' /\ Alone'
      BY <3>1, <3>4, <1>o DEF KindOK, Alone, Busy, VerificationPhases
    <3>6. \A k \in 1 .. Len(made) : k \in 1 .. Len(made') /\ made'[k] = made[k]
      BY <3>3
    <3>7. CodesPlaced'
      <4>1. \A k \in Mobile : activation[k] # NoCode => activation[k] \in 1 .. Len(made)
        BY <1>p DEF CodeTypes, NoCode
      <4> QED
        <5>1. \A k \in Mobile : activation'[k] # NoCode => made'[activation'[k]] = k
          BY <3>1, <3>6, <4>1, <1>o DEF CodesPlaced
        <5>2. \A d \in Call \ {c} : pc'[d] \in {"sms", "save", "find", "insert", "del"} =>
                 call'[d].code \in 1 .. Len(made') /\ made'[call'[d].code] = call'[d].mobile
          BY <3>4, <3>6, <1>o DEF CodesPlaced
        <5>3. call'[c].code \in 1 .. Len(made') /\ made'[call'[c].code] = call'[c].mobile
          BY <3>3, <3>4 DEF m
        <5> QED
          BY <5>1, <5>2, <5>3 DEF CodesPlaced
    <3>8. OneUserEach' /\ TokensTrue'
      BY <3>1, <3>6, <1>o, <1>p DEF OneUserEach, TokensTrue, EncMobile, UserTypes
    <3> QED
      BY <3>5, <3>7, <3>8
  <2>3. CASE SendSms(c)
    <3>1. pc[c] = "sms" /\ activation' = Without({}) /\ UNCHANGED <<made, user, lastId, tokens, mode>>
      BY <2>3, <2>a DEF SendSms, Users, Fixed
    <3>2. CASE End(c)
      BY <3>1, <3>2, <2>b, StepEnd DEF Without
    <3>3. CASE GoOn(c, "save")
      <4>1. /\ pc[c] \in Busy /\ call[c].kind = "verification" /\ "save" \in Phases
            /\ "save" \notin Busy \ VerificationPhases
            /\ call[c].code \in 1 .. Len(made) /\ made[call[c].code] = call[c].mobile
        BY <3>1, <1>o DEF KindOK, CodesPlaced, Busy, VerificationPhases, Phases
      <4> QED
        BY <3>1, <3>3, <4>1, <2>b, StepOn DEF Without
    <3> QED
      BY <2>3, <3>2, <3>3 DEF SendSms, Error
  <2>4. CASE SaveActivationCache(c)
    <3>1. /\ pc[c] = "save" /\ UNCHANGED <<made, user, lastId, tokens, mode>>
          /\ activation' = activation \/ activation' = [activation EXCEPT ![m] = call[c].code]
      BY <2>4 DEF SaveActivationCache, Users, Fixed, m
    <3>2. made[call[c].code] = m /\ call[c].kind = "verification"
      BY <3>1, <1>o DEF CodesPlaced, KindOK, VerificationPhases, m
    <3>3. \A k \in Mobile : activation'[k] # NoCode => made[activation'[k]] = k
      BY <3>1, <3>2, <2>m, <1>o, <1>p DEF CodesPlaced, CodeTypes
    <3>4. /\ \A d \in Call : d # c => call'[d] = call[d] /\ pc'[d] = pc[d]
          /\ pc'[c] = "ended" \/ (pc'[c] = "incr" /\ call'[c] = call[c])
      BY <2>4, <1>p DEF SaveActivationCache, Error, End, GoOn, Goto, PlaceTypes
    <3>5. KindOK' /\ Alone'
      BY <3>1, <3>2, <3>4, <1>o DEF KindOK, Alone, Busy, VerificationPhases
    <3>6. CodesPlaced'
      BY <3>1, <3>3, <3>4, <1>o DEF CodesPlaced
    <3>7. OneUserEach' /\ TokensTrue'
      BY <3>1, <1>o DEF OneUserEach, TokensTrue, EncMobile
    <3> QED
      BY <3>5, <3>6, <3>7
  <2>5. CASE IncrVerificationCount(c)
    <3>1. pc[c] = "incr" /\ activation' = Without({}) /\ UNCHANGED <<made, user, lastId, tokens, mode>>
      BY <2>5, <2>a DEF IncrVerificationCount, Users, Fixed
    <3>2. CASE End(c)
      BY <3>1, <3>2, <2>b, StepEnd DEF Without
    <3>3. CASE GoOn(c, "endofday")
      <4>1. pc[c] \in Busy /\ call[c].kind = "verification" /\ "endofday" \in Phases
            /\ "endofday" \notin Busy \ VerificationPhases
        BY <3>1, <1>o DEF KindOK, Busy, VerificationPhases, Phases
      <4> QED
        BY <3>1, <3>3, <4>1, <2>b, StepOn DEF Without
    <3> QED
      BY <2>5, <3>2, <3>3 DEF IncrVerificationCount
  <2>11. CASE EndOfDay(c)
    <3>1. /\ pc[c] = "endofday" /\ GoOn(c, "expireat") /\ activation' = Without({})
          /\ UNCHANGED <<made, user, lastId, tokens, mode>>
      BY <2>11, <2>a DEF EndOfDay, Users, Fixed
    <3>2. pc[c] \in Busy /\ call[c].kind = "verification" /\ "expireat" \in Phases
          /\ "expireat" \notin Busy \ VerificationPhases
      BY <3>1, <1>o DEF KindOK, Busy, VerificationPhases, Phases
    <3> QED
      BY <3>1, <3>2, <2>b, StepOn DEF Without
  <2>6. CASE ExpireAt(c)
    <3>1. End(c) /\ activation' = Without({}) /\ UNCHANGED <<made, user, lastId, tokens, mode>>
      BY <2>6, <2>a DEF ExpireAt, Users, Fixed
    <3> QED
      BY <3>1, <2>b, StepEnd DEF Without
  <2>7. CASE CheckVerificationCode(c)
    <3>1. pc[c] = "check" /\ activation' = Without({}) /\ UNCHANGED <<made, user, lastId, tokens, mode>>
      BY <2>7, <2>a DEF CheckVerificationCode, Users, Fixed
    <3>2. CASE End(c)
      BY <3>1, <3>2, <2>b, StepEnd DEF Without
    <3>3. CASE GoOn(c, "find") /\ activation[m] # NoCode /\ activation[m] = call[c].code
      <4>1. pc[c] \in Busy /\ "find" \in Phases /\ "find" \notin VerificationPhases
            /\ pc[c] \in Busy \ VerificationPhases
        BY <3>1 DEF Busy, VerificationPhases, Phases
      <4>2. call[c].code \in 1 .. Len(made) /\ made[call[c].code] = call[c].mobile
        BY <3>3, <1>o, <1>p, <2>m DEF CodesPlaced, CodeTypes, NoCode, m
      <4> QED
        BY <3>1, <3>3, <4>1, <4>2, <2>b, StepOn DEF Without
    <3> QED
      BY <2>7, <3>2, <3>3 DEF CheckVerificationCode, Error, m
  <2>8. CASE FindByMobile(c)
    <3>1. pc[c] = "find" /\ activation' = Without({}) /\ UNCHANGED <<made, user, lastId, mode>>
      BY <2>8, <2>a DEF FindByMobile, Fixed
    <3>2. /\ pc[c] \in Busy \ VerificationPhases /\ pc[c] \in Busy
          /\ call[c].code \in 1 .. Len(made) /\ made[call[c].code] = m
      BY <3>1, <1>o DEF CodesPlaced, Busy, VerificationPhases, m
    <3>3. CASE End(c) /\ UNCHANGED tokens
      BY <3>1, <3>3, <2>b, StepEnd DEF Without
    <3>4. CASE GoOn(c, "insert") /\ UNCHANGED tokens
      <4>1. "insert" \in Phases /\ "insert" \notin VerificationPhases
        BY DEF Busy, VerificationPhases, Phases
      <4> QED
        BY <3>1, <3>2, <3>4, <4>1, <2>b, StepOn DEF Without, m
    <3>5. CASE Token(c, user[EncMobile(m)])
      BY <3>1, <3>2, <3>5, <2>a, <2>m, TokenStep DEF m
    <3> QED
      BY <2>8, <3>3, <3>4, <3>5 DEF FindByMobile, Error, m
  <2>9. CASE Register(c)
    <3>1. pc[c] = "insert" /\ activation' = Without({}) /\ UNCHANGED <<activation, made, mode>>
      BY <2>9, <2>a DEF Register, Fixed
    <3>2. CASE End(c) /\ UNCHANGED <<user, lastId, tokens>>
      BY <3>1, <3>2, <2>b, StepEnd DEF Without
    <3>3. CASE Insert(c) /\ Token(c, lastId + 1)
      <4>1. user'[EncMobile(m)] = lastId + 1
        BY <3>3, <2>m, <1>p, Constants DEF Insert, UserTypes, m
      <4> QED
        BY <3>1, <3>3, <4>1, TokenStep DEF m
    <3>4. CASE Insert(c) /\ End(c) /\ UNCHANGED tokens
      BY <3>1, <3>4, <2>b, StepEnd DEF Without
    <3> QED
      BY <2>9, <3>2, <3>3, <3>4 DEF Register, Error
  <2>10. CASE DelActivationCache(c)
    <3>1. /\ UNCHANGED <<made, user, lastId, tokens, mode>> /\ End(c)
          /\ activation' = Without({m}) \/ activation' = Without({})
      BY <2>10, <2>a DEF DelActivationCache, Users, Fixed, m
    <3> QED
      BY <3>1, <2>b, StepEnd DEF Without
  <2> QED
    BY <1>2, <2>1, <2>2, <2>3, <2>4, <2>5, <2>6, <2>7, <2>8, <2>9, <2>10, <2>11 DEF CallStep
<1>3. ASSUME NEW c \in Call, Begin(c) PROVE KindOK' /\ CodesPlaced' /\ OneUserEach' /\ TokensTrue' /\ Alone'
  <2>1. ASSUME NEW m \in Mobile, BeginVerification(c, m)
        PROVE  KindOK' /\ CodesPlaced' /\ OneUserEach' /\ TokensTrue' /\ Alone'
    <3> DEFINE l == [NoLocals EXCEPT !.kind = "verification", !.mobile = m]
    <3>1. l \in Locals /\ l.kind = "verification" /\ l.mobile = m
      BY Constants DEF Locals, Kinds
    <3>2. /\ MayBegin(c, m) /\ Goto(c, "count") /\ call' = [call EXCEPT ![c] = l]
          /\ UNCHANGED <<activation, made, user, lastId, tokens, mode>>
      BY <2>1 DEF BeginVerification, Users, Fixed
    <3> HIDE DEF l
    <3> QED
      BY <3>1, <3>2, BeginSafe
  <2>2. ASSUME NEW m \in Mobile, NEW kind \in {"register", "login"}, NEW code \in NoCode .. Len(made),
               BeginWithCode(c, kind, m, code)
        PROVE  KindOK' /\ CodesPlaced' /\ OneUserEach' /\ TokensTrue' /\ Alone'
    <3> DEFINE l == [kind |-> kind, mobile |-> Trim[m], code |-> code]
    <3>1. l \in Locals /\ l.kind \in {"register", "login"} /\ l.mobile = Trim[m]
      BY <1>p DEF Locals, Kinds, NoCode, CodeTypes
    <3>2. /\ MayBegin(c, m) /\ Goto(c, "check") /\ call' = [call EXCEPT ![c] = l]
          /\ UNCHANGED <<activation, made, user, lastId, tokens, mode>>
      BY <2>2 DEF BeginWithCode, Users, Fixed, Counters
    <3> HIDE DEF l
    <3> QED
      BY <3>1, <3>2, BeginSafe
  <2>3. mode.spelt \subseteq Mobile
    BY <1>p DEF CodeTypes
  <2> QED
    BY <1>3, <2>1, <2>2, <2>3 DEF Begin
<1>4. ASSUME NEW c \in Call, Crash(c) PROVE KindOK' /\ CodesPlaced' /\ OneUserEach' /\ TokensTrue' /\ Alone'
  <2>1. activation = [n \in Mobile |-> IF n \in {} THEN NoCode ELSE activation[n]]
    BY <1>p DEF CodeTypes
  <2>b. {} \in SUBSET Mobile
    OBVIOUS
  <2>2. End(c) /\ UNCHANGED <<activation, made, user, lastId, tokens, mode>>
    BY <1>4 DEF Crash, Users, Fixed
  <2> QED
    BY <2>1, <2>b, <2>2, StepEnd
<1>5. ASSUME NEW m \in Mobile, ExpireCode(m) PROVE KindOK' /\ CodesPlaced' /\ OneUserEach' /\ TokensTrue' /\ Alone'
  <2>1. /\ UNCHANGED <<pc, call, made, user, lastId, tokens, mode>>
        /\ activation' = [activation EXCEPT ![m] = NoCode]
    BY <1>5 DEF ExpireCode, Users, Fixed
  <2> QED
    BY <2>1, <1>o, <1>p DEF KindOK, CodesPlaced, OneUserEach, TokensTrue, Alone, CodeTypes, EncMobile
<1>6. CASE LastSecond \/ Midnight
  <2>1. UNCHANGED <<activation, pc, call, made, user, lastId, tokens, mode>>
    BY <1>6 DEF LastSecond, Midnight, Users, Fixed
  <2> QED
    BY <2>1, <1>o DEF KindOK, CodesPlaced, OneUserEach, TokensTrue, Alone, EncMobile
<1> QED
  BY <1>1, <1>2, <1>3, <1>4, <1>5, <1>6 DEF Next

--------------------------------------------------------------------------------
\* Without failures, for clients whose calls do not overlap: a code that has given its
\* token is nowhere but in the call that is about to delete it, and what is sent is what
\* Redis has, if it has one.
UsedOnce ==
    /\ \A s, t \in tokens : s.code = t.code => s = t
    /\ \A t \in tokens, m \in Mobile :
          activation[m] = t.code => pc[t.call] = "del" /\ call[t.call].mobile = m
    /\ \A t \in tokens, c \in Call :
          pc[c] \in {"sms", "save", "find", "insert"} => call[c].code # t.code
SentIsKept ==
    \A c \in Call : pc[c] \in {"sms", "save"} => activation[call[c].mobile] \in {NoCode, call[c].code}

PlainInv == mode.sequential /\ ~mode.faulty => UsedOnce /\ SentIsKept

\* A step of a call that hands no code on, and leaves none if it was about to delete it.
LEMMA Quiet ==
    ASSUME TypeOK, UsedOnce, SentIsKept, NEW c \in Call,
           \A d \in Call \ {c} : pc'[d] = pc[d] /\ call'[d] = call[d],
           pc'[c] \in {"find", "insert"} => pc[c] \in {"find", "insert"} /\ call'[c] = call[c],
           pc'[c] \in {"sms", "save"} => pc[c] \in {"sms", "save"} /\ call'[c] = call[c],
           pc'[c] = "del" => pc[c] = "del" /\ call'[c] = call[c],
           \A m \in Mobile : activation'[m] \in {NoCode, activation[m]},
           pc[c] = "del" => activation'[call[c].mobile] = NoCode,
           UNCHANGED tokens
    PROVE  UsedOnce' /\ SentIsKept'
<1>1. \A t \in tokens : t.call \in Call /\ t.code # NoCode
  <2>1. made \in Seq(Mobile) /\ tokens \subseteq [call : Call, mobile : Mobile, code : 1 .. Len(made), user : 1 .. lastId]
    BY DEF TypeOK
  <2> QED
    BY <2>1 DEF NoCode
<1>2. \A d \in Call : call[d].mobile \in Mobile
  BY DEF TypeOK
<1>3. ASSUME NEW t \in tokens, NEW m \in Mobile, activation'[m] = t.code
      PROVE  pc'[t.call] = "del" /\ call'[t.call].mobile = m
  <2>1. activation[m] = t.code
    BY <1>1, <1>3
  <2>2. pc[t.call] = "del" /\ call[t.call].mobile = m
    BY <2>1 DEF UsedOnce
  <2>3. t.call # c
    BY <1>1, <1>3, <2>2
  <2> QED
    BY <1>1, <2>2, <2>3
<1>4. ASSUME NEW t \in tokens, NEW d \in Call, pc'[d] \in {"sms", "save", "find", "insert"}
      PROVE  call'[d].code # t.code
  <2>1. pc[d] \in {"sms", "save", "find", "insert"} /\ call'[d] = call[d]
    BY <1>4
  <2> QED
    BY <2>1 DEF UsedOnce
<1>5. UsedOnce'
  BY <1>3, <1>4 DEF UsedOnce
<1>6. SentIsKept'
  BY <1>2 DEF SentIsKept
<1> QED
  BY <1>5, <1>6

LEMMA PlainInit == Init => PlainInv
<1> SUFFICES ASSUME Init PROVE UsedOnce /\ SentIsKept
  BY DEF PlainInv
<1>1. tokens = {} /\ \A c \in Call : pc[c] = "new"
  BY DEF Init
<1> QED
  BY <1>1 DEF UsedOnce, SentIsKept

\* A code gives its token to one call, and no other has it any more.
LEMMA OneToken ==
    ASSUME CodeInv, UsedOnce, SentIsKept, mode.sequential, NEW c \in Call,
           pc[c] \in {"find", "insert"}, NEW id, Token(c, id), UNCHANGED activation
    PROVE  UsedOnce' /\ SentIsKept'
<1> DEFINE m == call[c].mobile
           t == [call |-> c, mobile |-> m, code |-> call[c].code, user |-> id]
<1>o. TypeOK /\ CodesPlaced /\ Alone
  BY DEF CodeInv
<1>p. pc \in [Call -> Phases] /\ \A s \in tokens : s.call \in Call
  BY <1>o DEF TypeOK, Phases
<1>1. /\ tokens' = tokens \cup {t} /\ call' = call /\ pc'[c] = "del"
      /\ \A d \in Call : d # c => pc'[d] = pc[d]
  BY <1>p DEF Token, GoOn, Goto
<1>2. \A s \in tokens : s.code # t.code
  BY DEF UsedOnce
<1>3. \A n \in Mobile : activation[n] = t.code => n = m
  <2>1. activation \in [Mobile -> NoCode .. Len(made)] /\ made \in Seq(Mobile)
    BY <1>o DEF TypeOK
  <2> QED
    BY <2>1, <1>o DEF CodesPlaced, NoCode
<1>4. \A d \in Call : d # c /\ pc[d] \in {"sms", "save", "find", "insert"} => call[d].code # t.code
  <2> SUFFICES ASSUME NEW d \in Call, pc[d] \in {"sms", "save", "find", "insert"}, call[d].code = call[c].code
               PROVE  d = c
    OBVIOUS
  <2>1. call[d].mobile = call[c].mobile
    BY <1>o DEF CodesPlaced
  <2> QED
    BY <2>1, <1>o DEF Alone, Busy
<1>5. t.call = c /\ call[c].mobile = m
  OBVIOUS
<1> HIDE DEF t
<1>6. UsedOnce'
  <2>1. \A s \in tokens' : s \in tokens \/ s = t
    BY <1>1
  <2>2. \A s, u \in tokens' : s.code = u.code => s = u
    BY <2>1, <1>2 DEF UsedOnce
  <2>3. \A s \in tokens', n \in Mobile : activation'[n] = s.code => pc'[s.call] = "del" /\ call'[s.call].mobile = n
    BY <2>1, <1>1, <1>3, <1>5, <1>p DEF UsedOnce
  <2>4. \A s \in tokens', d \in Call : pc'[d] \in {"sms", "save", "find", "insert"} => call'[d].code # s.code
    BY <2>1, <1>1, <1>4 DEF UsedOnce
  <2> QED
    BY <2>2, <2>3, <2>4 DEF UsedOnce
<1>7. SentIsKept'
  BY <1>1 DEF SentIsKept
<1> QED
  BY <1>6, <1>7

LEMMA PlainStep == CodeInv /\ PlainInv /\ [Next]_vars => PlainInv'
<1> SUFFICES ASSUME CodeInv, UsedOnce, SentIsKept, [Next]_vars, mode.sequential, ~mode.faulty, UNCHANGED mode
             PROVE  UsedOnce' /\ SentIsKept'
  <2>1. [Next]_vars => UNCHANGED mode
    BY DEF Next, Begin, BeginVerification, BeginWithCode, CallStep, GetVerificationCount, GetActivationCache,
           SendSms, SaveActivationCache, IncrVerificationCount, EndOfDay, ExpireAt, CheckVerificationCode, FindByMobile,
           Register, DelActivationCache, Crash, ExpireCode, LastSecond, Midnight, Fixed, vars
  <2> QED
    BY <2>1 DEF PlainInv
<1>o. TypeOK /\ KindOK /\ CodesPlaced /\ OneUserEach /\ TokensTrue /\ Alone
  BY DEF CodeInv
<1>p. /\ activation \in [Mobile -> NoCode .. Len(made)] /\ made \in Seq(Mobile)
      /\ pc \in [Call -> Phases] /\ call \in [Call -> Locals]
      /\ tokens \subseteq [call : Call, mobile : Mobile, code : 1 .. Len(made), user : 1 .. lastId]
  BY <1>o, TypeParts DEF CodeTypes, UserTypes, PlaceTypes
<1>k. \A t \in tokens : t.call \in Call /\ t.code \in 1 .. Len(made) /\ t.code # NoCode
  BY <1>p DEF NoCode
<1>1. CASE UNCHANGED vars
  BY <1>1 DEF vars, UsedOnce, SentIsKept
<1>2. ASSUME NEW c \in Call, CallStep(c) PROVE UsedOnce' /\ SentIsKept'
  <2> DEFINE m == call[c].mobile
  <2>m. m \in Mobile
    BY <1>p DEF Locals
  <2> HIDE DEF m
  <2>a. \A q \in Phases : GoOn(c, q) =>
           pc'[c] = q /\ call' = call /\ \A d \in Call \ {c} : pc'[d] = pc[d] /\ call'[d] = call[d]
    BY <1>p DEF GoOn, Goto
  <2>e. End(c) => pc'[c] = "ended" /\ \A d \in Call \ {c} : pc'[d] = pc[d] /\ call'[d] = call[d]
    BY <1>p DEF End, Goto
  <2>1. CASE GetVerificationCount(c)
    <3>1. pc[c] = "count" /\ UNCHANGED <<activation, tokens>> /\ (End(c) \/ GoOn(c, "code"))
      BY <2>1 DEF GetVerificationCount, Users
    <3>2. /\ pc'[c] \in {"ended", "code"} /\ pc[c] # "del"
          /\ \A d \in Call \ {c} : pc'[d] = pc[d] /\ call'[d] = call[d]
      BY <3>1, <2>a, <2>e, BusyPhases
    <3> QED
      BY <3>1, <3>2, <1>o, Quiet
  <2>2. CASE GetActivationCache(c)
    <3>1. /\ pc[c] = "code" /\ pc' = [pc EXCEPT ![c] = "sms"] /\ UNCHANGED <<activation, tokens>>
      BY <2>2 DEF GetActivationCache, Goto, Users
    <3>2. PICK n \in {activation[m], Len(made) + 1} :
             /\ call' = [call EXCEPT ![c].code = n]
             /\ \/ n = activation[m] /\ activation[m] # NoCode
                \/ n = Len(made) + 1 /\ activation[m] = NoCode
      BY <2>2, Zenon DEF GetActivationCache, m
    <3>3. /\ \A d \in Call : d # c => call'[d] = call[d] /\ pc'[d] = pc[d]
          /\ pc'[c] = "sms" /\ call'[c].code = n /\ call'[c].mobile = m
      BY <3>1, <3>2, <1>p DEF Locals, m
    <3>4. \A t \in tokens : n # t.code
      <4> SUFFICES ASSUME NEW t \in tokens, n = t.code PROVE FALSE
        OBVIOUS
      <4>1. activation[m] = t.code
        BY <3>2, <1>k, <1>p
      <4>2. t.call \in Call /\ pc[t.call] = "del" /\ call[t.call].mobile = m
        BY <4>1, <1>k, <2>m DEF UsedOnce
      <4> QED
        BY <4>2, <3>1, <1>o DEF Alone, Busy, m
    <3>5. \A t \in tokens : t.call # c \/ pc[t.call] # "del"
      BY <3>1
    <3>6. UsedOnce'
      BY <3>1, <3>3, <3>4, <3>5, <1>k DEF UsedOnce
    <3>7. SentIsKept'
      <4>1. activation[m] \in {NoCode, n}
        BY <3>2
      <4> QED
        BY <3>1, <3>3, <4>1 DEF SentIsKept
    <3> QED
      BY <3>6, <3>7
  <2>3. CASE SendSms(c)
    <3>1. pc[c] = "sms" /\ UNCHANGED <<activation, tokens>> /\ (End(c) \/ GoOn(c, "save"))
      BY <2>3 DEF SendSms, Users, Error
    <3>2. /\ pc'[c] = "ended" \/ (pc'[c] = "save" /\ call' = call)
          /\ pc[c] # "del" /\ \A d \in Call \ {c} : pc'[d] = pc[d] /\ call'[d] = call[d]
      BY <3>1, <2>a, <2>e, BusyPhases
    <3> QED
      BY <3>1, <3>2, <1>o, Quiet
  <2>4. CASE SaveActivationCache(c)
    <3>1. /\ pc[c] = "save" /\ GoOn(c, "incr") /\ UNCHANGED tokens
          /\ activation' = [activation EXCEPT ![m] = call[c].code]
      BY <2>4 DEF SaveActivationCache, Users, Error, m
    <3>2. activation[m] \in {NoCode, call[c].code} /\ \A t \in tokens : call[c].code # t.code
      BY <3>1 DEF UsedOnce, SentIsKept, m
    <3>3. /\ pc'[c] = "incr" /\ call' = call
          /\ \A d \in Call : d # c => pc'[d] = pc[d]
      BY <3>1, <2>a, BusyPhases
    <3>4. \A n \in Mobile : activation'[n] = activation[n] \/ activation'[n] = call[c].code
      BY <3>1, <1>p, <2>m
    <3>5. UsedOnce'
      <4>1. \A t \in tokens, n \in Mobile : activation'[n] = t.code => activation[n] = t.code /\ t.call # c
        BY <3>1, <3>2, <3>4 DEF UsedOnce
      <4> QED
        BY <3>1, <3>3, <4>1, <1>k DEF UsedOnce
    <3>6. SentIsKept'
      <4>1. \A d \in Call : pc'[d] \in {"sms", "save"} => pc[d] \in {"sms", "save"} /\ call[d].mobile # m
        BY <3>1, <3>3, <1>o DEF Alone, Busy, m
      <4> QED
        BY <3>1, <3>3, <4>1, <1>p DEF SentIsKept, Locals
    <3> QED
      BY <3>5, <3>6
  <2>5. CASE IncrVerificationCount(c)
    <3>1. pc[c] = "incr" /\ UNCHANGED <<activation, tokens>> /\ (End(c) \/ GoOn(c, "endofday"))
      BY <2>5 DEF IncrVerificationCount, Users
    <3>2. /\ pc'[c] \in {"ended", "endofday"} /\ pc[c] # "del"
          /\ \A d \in Call \ {c} : pc'[d] = pc[d] /\ call'[d] = call[d]
      BY <3>1, <2>a, <2>e, BusyPhases
    <3> QED
      BY <3>1, <3>2, <1>o, Quiet
  <2>11. CASE EndOfDay(c)
    <3>1. pc[c] = "endofday" /\ UNCHANGED <<activation, tokens>> /\ GoOn(c, "expireat")
      BY <2>11 DEF EndOfDay, Users
    <3>2. /\ pc'[c] = "expireat" /\ pc[c] # "del"
          /\ \A d \in Call \ {c} : pc'[d] = pc[d] /\ call'[d] = call[d]
      BY <3>1, <2>a, BusyPhases
    <3> QED
      BY <3>1, <3>2, <1>o, Quiet
  <2>6. CASE ExpireAt(c)
    <3>1. pc[c] = "expireat" /\ UNCHANGED <<activation, tokens>> /\ End(c)
      BY <2>6 DEF ExpireAt, Users
    <3> QED
      BY <3>1, <2>e, <1>o, Quiet
  <2>7. CASE CheckVerificationCode(c)
    <3>1. pc[c] = "check" /\ UNCHANGED <<activation, tokens>>
      BY <2>7 DEF CheckVerificationCode, Users
    <3>2. CASE End(c)
      BY <3>1, <3>2, <2>e, <1>o, Quiet
    <3>3. CASE GoOn(c, "find") /\ activation[m] = call[c].code
      <4>1. /\ pc'[c] = "find" /\ call' = call
            /\ \A d \in Call : d # c => pc'[d] = pc[d]
        BY <3>3, <2>a, BusyPhases
      <4>2. \A t \in tokens : call[c].code # t.code
        <5> SUFFICES ASSUME NEW t \in tokens, call[c].code = t.code PROVE FALSE
          OBVIOUS
        <5>1. t.call \in Call /\ pc[t.call] = "del" /\ call[t.call].mobile = m
          BY <3>3, <1>k, <2>m DEF UsedOnce
        <5> QED
          BY <5>1, <3>1, <1>o DEF Alone, Busy, m
      <4>3. \A t \in tokens : t.call # c \/ pc[t.call] # "del"
        BY <3>1
      <4>4. UsedOnce'
        BY <3>1, <4>1, <4>2, <4>3, <1>k DEF UsedOnce
      <4>5. SentIsKept'
        BY <3>1, <4>1 DEF SentIsKept
      <4> QED
        BY <4>4, <4>5
    <3> QED
      BY <2>7, <3>2, <3>3 DEF CheckVerificationCode, Error, m
  <2>8. CASE FindByMobile(c)
    <3>1. pc[c] = "find" /\ UNCHANGED activation
      BY <2>8 DEF FindByMobile
    <3>2. CASE (End(c) \/ GoOn(c, "insert")) /\ UNCHANGED tokens
      <4>1. /\ pc'[c] = "ended" \/ (pc'[c] = "insert" /\ call' = call)
            /\ pc[c] # "del" /\ \A d \in Call \ {c} : pc'[d] = pc[d] /\ call'[d] = call[d]
        BY <3>1, <3>2, <2>a, <2>e, BusyPhases
      <4> QED
        BY <3>1, <3>2, <4>1, <1>o, Quiet
    <3>3. ASSUME NEW id, Token(c, id) PROVE UsedOnce' /\ SentIsKept'
      BY <3>1, <3>3, OneToken
    <3> QED
      BY <2>8, <3>2, <3>3 DEF FindByMobile, Error
  <2>9. CASE Register(c)
    <3>1. pc[c] = "insert" /\ UNCHANGED activation
      BY <2>9 DEF Register
    <3>2. CASE End(c) /\ UNCHANGED tokens
      BY <3>1, <3>2, <2>e, <1>o, Quiet
    <3>3. CASE Token(c, lastId + 1)
      BY <3>1, <3>3, OneToken
    <3> QED
      BY <2>9, <3>2, <3>3 DEF Register, Error
  <2>10. CASE DelActivationCache(c)
    <3>1. pc[c] = "del" /\ UNCHANGED tokens /\ End(c) /\ activation' = [activation EXCEPT ![m] = NoCode]
      BY <2>10 DEF DelActivationCache, Users, m
    <3>2. /\ \A n \in Mobile : activation'[n] \in {NoCode, activation[n]}
          /\ activation'[call[c].mobile] = NoCode
      BY <3>1, <1>p, <2>m DEF m
    <3> QED
      BY <3>1, <3>2, <2>e, <1>o, Quiet
  <2> QED
    BY <1>2, <2>1, <2>2, <2>3, <2>4, <2>5, <2>6, <2>7, <2>8, <2>9, <2>10, <2>11 DEF CallStep
<1>3. ASSUME NEW c \in Call, Begin(c) PROVE UsedOnce' /\ SentIsKept'
  <2>1. /\ pc[c] = "new" /\ pc'[c] \in {"count", "check"} /\ UNCHANGED <<activation, tokens>>
        /\ \A d \in Call \ {c} : pc'[d] = pc[d] /\ call'[d] = call[d]
    BY <1>3, <1>p DEF Begin, BeginVerification, BeginWithCode, MayBegin, Goto, Users
  <2> QED
    BY <2>1, <1>o, Quiet
<1>4. ASSUME NEW c \in Call, Crash(c) PROVE UsedOnce' /\ SentIsKept'
  BY <1>4 DEF Crash
<1>5. ASSUME NEW m \in Mobile, ExpireCode(m) PROVE UsedOnce' /\ SentIsKept'
  <2>1. /\ UNCHANGED <<pc, call, tokens>>
        /\ activation' = [activation EXCEPT ![m] = NoCode]
    BY <1>5 DEF ExpireCode, Users
  <2>2. \A n \in Mobile : activation'[n] \in {NoCode, activation[n]}
    BY <2>1, <1>p
  <2>3. UsedOnce'
    BY <2>1, <2>2, <1>k DEF UsedOnce
  <2>4. SentIsKept'
    BY <2>1, <2>2, <1>p DEF SentIsKept, Locals
  <2> QED
    BY <2>3, <2>4
<1>6. CASE LastSecond \/ Midnight
  <2>1. UNCHANGED <<activation, pc, call, tokens>>
    BY <1>6 DEF LastSecond, Midnight, Users
  <2> QED
    BY <2>1 DEF UsedOnce, SentIsKept
<1> QED
  BY <1>1, <1>2, <1>3, <1>4, <1>5, <1>6 DEF Next

--------------------------------------------------------------------------------
\* The values stay as they should be: no call, answer or failure takes a variable out of
\* its type.
THEOREM TypeCorrect == Spec => []TypeOK
<1>1. Init => CodeInv
  BY CodeInit
<1>2. CodeInv /\ [Next]_vars => CodeInv'
  BY CodeStep
<1>3. CodeInv => TypeOK
  BY DEF CodeInv
<1> QED
  BY <1>1, <1>2, <1>3, PTL DEF Spec

LEMMA PlainHolds == Spec => [](CodeInv /\ PlainInv)
<1>1. Init => CodeInv /\ PlainInv
  BY CodeInit, PlainInit
<1>2. CodeInv /\ PlainInv /\ [Next]_vars => (CodeInv /\ PlainInv)'
  BY CodeStep, PlainStep
<1> QED
  BY <1>1, <1>2, PTL DEF Spec

\* A token names the one user of its mobile, whose code was presented, whatever fails and
\* overlaps; and a client that waits for its answers uses a code once if nothing fails.
THEOREM TokensHold == Spec => []TokensGenuine
<1>1. CodeInv /\ PlainInv => TokensGenuine
  BY DEF CodeInv, PlainInv, OneUserEach, TokensTrue, UsedOnce, TokensGenuine
<1> QED
  BY <1>1, PlainHolds, PTL

\* A code that is in Redis is only deleted or sent once more, never replaced: that is what
\* the calls in flight hold (SentIsKept) for such a client.
THEOREM CodesStable == Spec => CodeStable
<1>1. CodeInv /\ PlainInv /\ [Next]_vars =>
         (mode.sequential /\ ~mode.faulty =>
            \A m \in Mobile : activation[m] # NoCode => activation'[m] \in {NoCode, activation[m]})
  <2> SUFFICES ASSUME CodeInv, SentIsKept, [Next]_vars, NEW m \in Mobile, activation[m] # NoCode
               PROVE  activation'[m] \in {NoCode, activation[m]}
    BY DEF PlainInv
  <2>1. activation \in [Mobile -> NoCode .. Len(made)]
    BY DEF CodeInv, TypeOK
  <2>2. ASSUME NEW c \in Call, SaveActivationCache(c) PROVE activation'[m] \in {NoCode, activation[m]}
    BY <2>1, <2>2 DEF SaveActivationCache, SentIsKept
  <2>3. ASSUME NEW c \in Call, DelActivationCache(c) PROVE activation'[m] \in {NoCode, activation[m]}
    BY <2>1, <2>3 DEF DelActivationCache
  <2>4. ASSUME NEW n \in Mobile, ExpireCode(n) PROVE activation'[m] \in {NoCode, activation[m]}
    BY <2>1, <2>4 DEF ExpireCode
  <2>5. \/ \E c \in Call : SaveActivationCache(c) \/ DelActivationCache(c)
        \/ \E n \in Mobile : ExpireCode(n)
        \/ UNCHANGED activation
    BY DEF Next, Begin, BeginVerification, BeginWithCode, CallStep, GetVerificationCount, GetActivationCache,
           SendSms, IncrVerificationCount, EndOfDay, ExpireAt, CheckVerificationCode, FindByMobile, Register, Crash,
           LastSecond, Midnight, vars
  <2> QED
    BY <2>2, <2>3, <2>4, <2>5
<1> QED
  BY <1>1, PlainHolds, PTL DEF Spec, CodeStable

--------------------------------------------------------------------------------
\* The calls for a mobile that are at one of some steps, and how many they are.
At(phases, m) == {c \in Call : pc[c] \in phases /\ call[c].mobile = m}
Size(phases, m) == Cardinality(At(phases, m))
Counted == {"save", "incr"}  \* sent but not counted yet
Allowed == {"code", "sms"}   \* below the limit when it was read, not sent yet

\* The messages sent since the counter was last deleted by a late EXPIREAT.
Since(m) == sms[m] - forgiven[m]

\* As long as it is not the last second of the day: what was sent is counted or about to be,
\* and what was sent and will be was allowed by the counter or by an overlapping call.
LimitOK(m) ==
    /\ Size(VerificationPhases, m) <= overlap[m]
    /\ Since(m) <= Limit + overlap[m]
    /\ ~late => Since(m) <= count[m] + Size(Counted, m)
    /\ ~late => Since(m) + Size(Allowed, m) <= Limit + overlap[m]
LimitInv == ~mode.faulty => \A m \in Mobile : LimitOK(m)

LEMMA AtFinite == ASSUME NEW P, NEW m PROVE IsFiniteSet(At(P, m)) /\ Size(P, m) \in Nat
<1>1. At(P, m) \subseteq Call
  BY DEF At
<1> QED
  BY <1>1, VerifyingFinite, FS_Subset, FS_CardinalityType DEF Size

LEMMA InsideCounts == ASSUME NEW P, NEW m, NEW c, c \in At(P, m) PROVE Size(P, m) >= 1
<1>1. At(P, m) # {}
  OBVIOUS
<1> QED
  BY <1>1, AtFinite, FS_EmptySet DEF Size

\* One call moves: it enters, leaves or stays in or out.
LEMMA Moved ==
    ASSUME NEW P, NEW m \in Mobile, NEW c \in Call,
           \A d \in Call \ {c} : pc'[d] = pc[d] /\ call'[d] = call[d]
    PROVE  /\ c \in At(P, m) /\ c \in At(P, m)' => Size(P, m)' = Size(P, m)
           /\ c \notin At(P, m) /\ c \notin At(P, m)' => Size(P, m)' = Size(P, m)
           /\ c \notin At(P, m) /\ c \in At(P, m)' => Size(P, m)' = Size(P, m) + 1
           /\ c \in At(P, m) /\ c \notin At(P, m)' => Size(P, m)' = Size(P, m) - 1
<1>1. \A d \in Call \ {c} : d \in At(P, m) <=> d \in At(P, m)'
  BY DEF At
<1>2. At(P, m) \subseteq Call /\ At(P, m)' \subseteq Call
  BY DEF At
<1>3. IsFiniteSet(At(P, m))
  BY AtFinite
<1>4. ASSUME c \in At(P, m) <=> c \in At(P, m)' PROVE At(P, m)' = At(P, m)
  <2>1. \A d \in Call : d \in At(P, m) <=> d \in At(P, m)'
    BY <1>1, <1>4
  <2> QED
    BY <1>2, <2>1
<1>5. c \notin At(P, m) /\ c \in At(P, m)' => At(P, m)' = At(P, m) \cup {c}
  BY <1>1, <1>2
<1>6. c \in At(P, m) /\ c \notin At(P, m)' => At(P, m)' = At(P, m) \ {c}
  BY <1>1, <1>2
<1> QED
  BY <1>3, <1>4, <1>5, <1>6, FS_AddElement, FS_RemoveElement DEF Size

\* The calls that are counted, allowed and about to look are among those that verify.
LEMMA Share ==
    ASSUME NEW m \in Mobile
    PROVE  /\ Size(Allowed, m) <= Size(VerificationPhases, m)
           /\ \A c \in Call : c \in At({"count"}, m) =>
                 Size(Counted, m) + Size(Allowed, m) + 1 <= Size(VerificationPhases, m)
<1>1. \A P : IsFiniteSet(At(P, m)) /\ Size(P, m) \in Nat
  BY AtFinite
<1>2. At(Allowed, m) \subseteq At(VerificationPhases, m)
  BY DEF At, Allowed, VerificationPhases
<1>3. Size(Allowed, m) <= Size(VerificationPhases, m)
  BY <1>1, <1>2, FS_Subset DEF Size
<1>4. ASSUME NEW c \in Call, c \in At({"count"}, m)
      PROVE  Size(Counted, m) + Size(Allowed, m) + 1 <= Size(VerificationPhases, m)
  <2> DEFINE S == At(Counted, m) \cup At(Allowed, m)
  <2>1. At(Counted, m) \cap At(Allowed, m) = {} /\ c \notin S
    BY <1>4 DEF At, Counted, Allowed
  <2>2. S \cup {c} \subseteq At(VerificationPhases, m)
    BY <1>4 DEF At, Counted, Allowed, VerificationPhases
  <2>3. IsFiniteSet(S) /\ Cardinality(S) = Size(Counted, m) + Size(Allowed, m)
    <3>1. /\ IsFiniteSet(S)
          /\ Cardinality(S) = Cardinality(At(Counted, m)) + Cardinality(At(Allowed, m))
                                - Cardinality(At(Counted, m) \cap At(Allowed, m))
      BY <1>1, FS_Union
    <3>2. Cardinality(At(Counted, m) \cap At(Allowed, m)) = 0
      BY <2>1, FS_EmptySet
    <3> QED
      BY <1>1, <3>1, <3>2 DEF Size
  <2>4. Cardinality(S \cup {c}) = Cardinality(S) + 1
    BY <2>1, <2>3, FS_AddElement
  <2>5. Cardinality(S \cup {c}) <= Size(VerificationPhases, m)
    BY <1>1, <2>2, FS_Subset DEF Size
  <2> QED
    BY <2>3, <2>4, <2>5
<1> QED
  BY <1>3, <1>4

\* Verifying, as the model counts them.
LEMMA VerifyingAt ==
    ASSUME NEW m \in Mobile
    PROVE  /\ KindOK => Verifying(m) = At(VerificationPhases, m)
           /\ KindOK' => Verifying(m)' = At(VerificationPhases, m)'
<1>1. VerificationPhases \subseteq Busy
  BY DEF VerificationPhases, Busy
<1>2. KindOK => Verifying(m) = At(VerificationPhases, m)
  BY <1>1 DEF KindOK, Verifying, At
<1>3. KindOK' => Verifying(m)' = At(VerificationPhases, m)'
  BY <1>1 DEF KindOK, Verifying, At
<1> QED
  BY <1>2, <1>3

LEMMA LimitInit == Init => LimitInv
<1> SUFFICES ASSUME Init, NEW m \in Mobile PROVE LimitOK(m)
  BY DEF LimitInv
<1>1. \A c \in Call : pc[c] = "new"
  BY DEF Init
<1>2. Since(m) = 0 /\ count[m] = 0 /\ overlap[m] = 0
  BY DEF Init, Since
<1>3. \A P : "new" \notin P => Size(P, m) = 0
  <2>1. \A P : "new" \notin P => At(P, m) = {}
    BY <1>1 DEF At
  <2> QED
    BY <2>1, FS_EmptySet DEF Size
<1>4. Size(VerificationPhases, m) = 0 /\ Size(Counted, m) = 0 /\ Size(Allowed, m) = 0
  BY <1>3 DEF VerificationPhases, Counted, Allowed
<1> QED
  BY <1>2, <1>4 DEF LimitOK

\* A step of a call that changes none of the three counts.
LEMMA Still ==
    ASSUME CodeInv, NEW c \in Call, NEW m \in Mobile, LimitOK(m),
           \A d \in Call \ {c} : pc'[d] = pc[d] /\ call'[d] = call[d],
           \A P \in {VerificationPhases, Counted, Allowed} : c \in At(P, m) <=> c \in At(P, m)',
           UNCHANGED <<sms, forgiven, overlap, count, late>>
    PROVE  LimitOK(m)'
<1>1. \A P \in {VerificationPhases, Counted, Allowed} : Size(P, m)' = Size(P, m)
  BY Moved
<1> QED
  BY <1>1 DEF LimitOK, Since

LEMMA LimitStep == CodeInv /\ LimitInv /\ [Next]_vars => LimitInv'
<1> SUFFICES ASSUME CodeInv, KindOK', [Next]_vars, ~mode.faulty, NEW m \in Mobile, LimitOK(m)
             PROVE  LimitOK(m)'
  <2>1. [Next]_vars => UNCHANGED mode
    BY DEF Next, Begin, BeginVerification, BeginWithCode, CallStep, GetVerificationCount, GetActivationCache,
           SendSms, SaveActivationCache, IncrVerificationCount, EndOfDay, ExpireAt, CheckVerificationCode, FindByMobile,
           Register, DelActivationCache, Crash, ExpireCode, LastSecond, Midnight, Fixed, vars
  <2> QED
    BY <2>1, CodeStep DEF LimitInv, CodeInv
<1>p. /\ pc \in [Call -> Phases] /\ call \in [Call -> Locals] /\ late \in BOOLEAN
      /\ count \in [Mobile -> Nat] /\ sms \in [Mobile -> Nat] /\ overlap \in [Mobile -> Nat]
      /\ forgiven \in [Mobile -> Nat] /\ Since(m) \in Int
  BY TypeParts DEF CodeInv, PlaceTypes, CounterTypes, Since
<1>n. \A P : Size(P, m) \in Nat
  BY AtFinite
<1>s. UNCHANGED <<sms, forgiven>> => Since(m)' = Since(m)
  BY DEF Since
<1>1. CASE UNCHANGED vars
  <2>1. \A P : Size(P, m)' = Size(P, m)
    BY <1>1 DEF vars, Size, At
  <2> QED
    BY <1>1, <1>s, <2>1 DEF vars, LimitOK
<1>2. ASSUME NEW c \in Call, CallStep(c) PROVE LimitOK(m)'
  <2>a. \A q \in Phases : GoOn(c, q) =>
           pc'[c] = q /\ call' = call /\ \A d \in Call \ {c} : pc'[d] = pc[d] /\ call'[d] = call[d]
    BY <1>p DEF GoOn, Goto
  <2>e. End(c) => pc'[c] = "ended" /\ \A d \in Call \ {c} : pc'[d] = pc[d] /\ call'[d] = call[d]
    BY <1>p DEF End, Goto
  <2>1. CASE GetVerificationCount(c)
    <3>1. /\ pc[c] = "count" /\ UNCHANGED <<sms, forgiven, overlap, count, late>>
          /\ End(c) \/ (GoOn(c, "code") /\ count[call[c].mobile] <= Limit)
      BY <2>1 DEF GetVerificationCount, Counters
    <3>2. CASE call[c].mobile # m
      <4>1. /\ \A d \in Call \ {c} : pc'[d] = pc[d] /\ call'[d] = call[d]
            /\ pc'[c] = "ended" \/ call' = call
        BY <3>1, <2>a, <2>e, BusyPhases
      <4>2. \A P \in {VerificationPhases, Counted, Allowed} : c \notin At(P, m) /\ c \notin At(P, m)'
        BY <3>1, <3>2, <4>1 DEF At, VerificationPhases, Counted, Allowed
      <4> QED
        BY <3>1, <4>1, <4>2, Still
    <3>3. CASE call[c].mobile = m /\ End(c)
      <4>1. /\ c \in At(VerificationPhases, m) /\ c \notin At(VerificationPhases, m)'
            /\ \A P \in {Counted, Allowed} : c \notin At(P, m) /\ c \notin At(P, m)'
        BY <3>1, <3>3, <2>e DEF At, VerificationPhases, Counted, Allowed
      <4>2. /\ Size(VerificationPhases, m)' = Size(VerificationPhases, m) - 1
            /\ Size(Counted, m)' = Size(Counted, m) /\ Size(Allowed, m)' = Size(Allowed, m)
        BY <3>3, <4>1, <2>e, Moved
      <4> QED
        BY <3>1, <4>2, <1>n, <1>p, <1>s DEF LimitOK
    <3>4. CASE call[c].mobile = m /\ GoOn(c, "code") /\ count[call[c].mobile] <= Limit
      <4>1. /\ pc'[c] = "code" /\ call' = call
            /\ \A d \in Call \ {c} : pc'[d] = pc[d] /\ call'[d] = call[d]
        BY <3>4, <2>a, BusyPhases
      <4>2. /\ c \in At(VerificationPhases, m) /\ c \in At(VerificationPhases, m)'
            /\ c \notin At(Counted, m) /\ c \notin At(Counted, m)'
            /\ c \notin At(Allowed, m) /\ c \in At(Allowed, m)'
            /\ c \in At({"count"}, m)
        BY <3>1, <3>4, <4>1 DEF At, VerificationPhases, Counted, Allowed
      <4>3. /\ Size(VerificationPhases, m)' = Size(VerificationPhases, m)
            /\ Size(Counted, m)' = Size(Counted, m) /\ Size(Allowed, m)' = Size(Allowed, m) + 1
        BY <4>1, <4>2, Moved
      <4>4. Size(Counted, m) + Size(Allowed, m) + 1 <= Size(VerificationPhases, m)
        BY <4>2, Share
      <4>5. Since(m) \in Int /\ count[m] \in Nat /\ overlap[m] \in Nat
        BY <1>p
      <4> QED
        BY <3>1, <3>4, <4>3, <4>4, <4>5, <1>n, <1>s DEF LimitOK
    <3> QED
      BY <3>1, <3>2, <3>3, <3>4
  <2>2. CASE GetActivationCache(c)
    <3>1. /\ pc[c] = "code" /\ pc' = [pc EXCEPT ![c] = "sms"] /\ UNCHANGED <<sms, forgiven, overlap, count, late>>
          /\ \E n : call' = [call EXCEPT ![c].code = n]
      BY <2>2, Zenon DEF GetActivationCache, Goto, Counters
    <3>2. /\ \A d \in Call \ {c} : pc'[d] = pc[d] /\ call'[d] = call[d]
          /\ pc'[c] = "sms" /\ call'[c].mobile = call[c].mobile
      BY <3>1, <1>p DEF Locals
    <3>3. \A P \in {VerificationPhases, Counted, Allowed} : c \in At(P, m) <=> c \in At(P, m)'
      BY <3>1, <3>2 DEF At, VerificationPhases, Counted, Allowed
    <3> QED
      BY <3>1, <3>2, <3>3, Still
  <2>3. CASE SendSms(c)
    <3>1. /\ pc[c] = "sms" /\ GoOn(c, "save") /\ UNCHANGED <<overlap, forgiven, count, late>>
          /\ sms' = [sms EXCEPT ![call[c].mobile] = IF late THEN @ ELSE @ + 1]
      BY <2>3 DEF SendSms, Error
    <3>2. /\ pc'[c] = "save" /\ call' = call
          /\ \A d \in Call \ {c} : pc'[d] = pc[d] /\ call'[d] = call[d]
      BY <3>1, <2>a, BusyPhases
    <3>3. CASE call[c].mobile # m
      <4>1. \A P \in {VerificationPhases, Counted, Allowed} : c \notin At(P, m) /\ c \notin At(P, m)'
        BY <3>2, <3>3 DEF At
      <4>2. \A P \in {VerificationPhases, Counted, Allowed} : Size(P, m)' = Size(P, m)
        BY <3>2, <4>1, Moved
      <4>3. Since(m)' = Since(m)
        BY <3>1, <3>3, <1>p DEF Since
      <4> QED
        BY <3>1, <4>2, <4>3 DEF LimitOK
    <3>4. CASE call[c].mobile = m
      <4>1. /\ c \in At(VerificationPhases, m) /\ c \in At(VerificationPhases, m)'
            /\ c \notin At(Counted, m) /\ c \in At(Counted, m)'
            /\ c \in At(Allowed, m) /\ c \notin At(Allowed, m)'
        BY <3>1, <3>2, <3>4 DEF At, VerificationPhases, Counted, Allowed
      <4>2. /\ Size(VerificationPhases, m)' = Size(VerificationPhases, m)
            /\ Size(Counted, m)' = Size(Counted, m) + 1 /\ Size(Allowed, m)' = Size(Allowed, m) - 1
        BY <3>2, <4>1, Moved
      <4>3. Since(m) \in Int /\ count[m] \in Nat /\ overlap[m] \in Nat
        BY <1>p
      <4>4. CASE late
        <5>1. Since(m)' = Since(m) /\ late'
          BY <3>1, <3>4, <4>4, <1>p DEF Since
        <5> QED
          BY <3>1, <4>2, <5>1 DEF LimitOK
      <4>5. CASE ~late
        <5>1. Since(m)' = Since(m) + 1
          BY <3>1, <3>4, <4>5, <1>p DEF Since
        <5>2. Since(m) <= count[m] + Size(Counted, m) /\ Since(m) + Size(Allowed, m) <= Limit + overlap[m]
          BY <4>5 DEF LimitOK
        <5>3. Since(m)' <= count'[m] + Size(Counted, m)' /\ Since(m)' + Size(Allowed, m)' <= Limit + overlap'[m]
          <6>1. count'[m] = count[m] /\ overlap'[m] = overlap[m]
            BY <3>1
          <6>2. Size(Counted, m)' = Size(Counted, m) + 1 /\ Size(Allowed, m)' = Size(Allowed, m) - 1
            BY <4>2
          <6>3. Size(Counted, m) \in Nat /\ Size(Allowed, m) \in Nat
            BY <1>n
          <6>4. Since(m)' <= count'[m] + Size(Counted, m)'
            BY <4>3, <5>1, <5>2, <6>1, <6>2, <6>3
          <6>5. Since(m)' + Size(Allowed, m)' <= Limit + overlap'[m]
            BY <4>3, <5>1, <5>2, <6>1, <6>2, <6>3
          <6> QED
            BY <6>4, <6>5
        <5>4. Since(m)' <= Limit + overlap'[m]
          <6>1. Size(Allowed, m) >= 1
            BY <4>1, InsideCounts
          <6> QED
            BY <3>1, <4>3, <5>1, <5>2, <6>1, <1>n
        <5>5. Size(VerificationPhases, m)' <= overlap'[m]
          BY <3>1, <4>2 DEF LimitOK
        <5> QED
          BY <5>3, <5>4, <5>5 DEF LimitOK
      <4> QED
        BY <4>4, <4>5
    <3> QED
      BY <3>3, <3>4
  <2>4. CASE SaveActivationCache(c)
    <3>1. pc[c] = "save" /\ GoOn(c, "incr") /\ UNCHANGED <<sms, forgiven, overlap, count, late>>
      BY <2>4 DEF SaveActivationCache, Error, Counters
    <3>2. /\ pc'[c] = "incr" /\ call' = call
          /\ \A d \in Call \ {c} : pc'[d] = pc[d] /\ call'[d] = call[d]
      BY <3>1, <2>a, BusyPhases
    <3>3. \A P \in {VerificationPhases, Counted, Allowed} : c \in At(P, m) <=> c \in At(P, m)'
      BY <3>1, <3>2 DEF At, VerificationPhases, Counted, Allowed
    <3> QED
      BY <3>1, <3>2, <3>3, Still
  <2>5. CASE IncrVerificationCount(c)
    <3>1. /\ pc[c] = "incr" /\ GoOn(c, "endofday") /\ UNCHANGED <<sms, forgiven, overlap, late>>
          /\ count' = [count EXCEPT ![call[c].mobile] = @ + 1]
      BY <2>5 DEF IncrVerificationCount
    <3>2. /\ pc'[c] = "endofday" /\ call' = call
          /\ \A d \in Call \ {c} : pc'[d] = pc[d] /\ call'[d] = call[d]
      BY <3>1, <2>a, BusyPhases
    <3>3. CASE call[c].mobile # m
      <4>1. \A P \in {VerificationPhases, Counted, Allowed} : c \notin At(P, m) /\ c \notin At(P, m)'
        BY <3>2, <3>3 DEF At
      <4>2. \A P \in {VerificationPhases, Counted, Allowed} : Size(P, m)' = Size(P, m)
        BY <3>2, <4>1, Moved
      <4>3. count'[m] = count[m]
        BY <3>1, <3>3, <1>p
      <4> QED
        BY <3>1, <4>2, <4>3, <1>s DEF LimitOK
    <3>4. CASE call[c].mobile = m
      <4>1. /\ c \in At(VerificationPhases, m) /\ c \in At(VerificationPhases, m)'
            /\ c \in At(Counted, m) /\ c \notin At(Counted, m)'
            /\ c \notin At(Allowed, m) /\ c \notin At(Allowed, m)'
        BY <3>1, <3>2, <3>4 DEF At, VerificationPhases, Counted, Allowed
      <4>2. /\ Size(VerificationPhases, m)' = Size(VerificationPhases, m)
            /\ Size(Counted, m)' = Size(Counted, m) - 1 /\ Size(Allowed, m)' = Size(Allowed, m)
        BY <3>2, <4>1, Moved
      <4>3. count'[m] = count[m] + 1 /\ Since(m) \in Int /\ count[m] \in Nat
        BY <3>1, <3>4, <1>p
      <4>4. count'[m] + Size(Counted, m)' = count[m] + Size(Counted, m)
        BY <4>2, <4>3, <1>n
      <4> QED
        BY <3>1, <4>2, <4>4, <1>s DEF LimitOK
    <3> QED
      BY <3>3, <3>4
  <2>6. CASE ExpireAt(c)
    <3>1. /\ pc[c] = "expireat" /\ End(c) /\ UNCHANGED <<sms, overlap, late>>
          /\ \/ UNCHANGED <<count, forgiven>>
             \/ /\ count' = [count EXCEPT ![call[c].mobile] = 0]
                /\ forgiven' = [forgiven EXCEPT ![call[c].mobile] = sms[call[c].mobile]]
      BY <2>6 DEF ExpireAt
    <3>2. \A P \in {Counted, Allowed} : c \notin At(P, m) /\ c \notin At(P, m)'
      BY <3>1, <2>e DEF At, Counted, Allowed
    <3>3. Size(Counted, m)' = Size(Counted, m) /\ Size(Allowed, m)' = Size(Allowed, m)
      BY <3>1, <3>2, <2>e, Moved
    <3>4. c \notin At(VerificationPhases, m)'
      BY <3>1, <2>e DEF At, VerificationPhases
    <3>5. Size(VerificationPhases, m)' <= Size(VerificationPhases, m)
      BY <3>1, <3>4, <2>e, <1>n, Moved
    <3>6. Size(VerificationPhases, m)' \in Int
      BY <3>1, <3>4, <2>e, <1>n, Moved
    <3>7. overlap[m] \in Nat /\ Size(VerificationPhases, m) \in Nat
      BY <1>n, <1>p
    <3>8. Size(VerificationPhases, m)' <= overlap'[m]
      BY <3>1, <3>5, <3>6, <3>7 DEF LimitOK
    <3>9. CASE count'[m] = count[m] /\ forgiven'[m] = forgiven[m]
      <4>1. Since(m)' = Since(m)
        BY <3>1, <3>9 DEF Since
      <4> QED
        BY <3>1, <3>3, <3>8, <3>9, <4>1 DEF LimitOK
    <3>10. CASE count'[m] = 0 /\ forgiven'[m] = sms[m]
      <4>1. Since(m)' = 0
        BY <3>1, <3>10, <1>p DEF Since
      <4>2. Size(Allowed, m) <= overlap[m]
        BY <3>7, <1>n, Share DEF LimitOK
      <4> QED
        BY <3>1, <3>3, <3>7, <3>8, <3>10, <4>1, <4>2, <1>n DEF LimitOK
    <3>11. \/ count'[m] = count[m] /\ forgiven'[m] = forgiven[m]
           \/ count'[m] = 0 /\ forgiven'[m] = sms[m]
      <4>1. CASE UNCHANGED <<count, forgiven>>
        BY <4>1
      <4>2. CASE call[c].mobile # m
        BY <3>1, <4>2, <1>p
      <4>3. CASE call[c].mobile = m
        BY <3>1, <4>3, <1>p
      <4> QED
        BY <4>2, <4>3
    <3> QED
      BY <3>9, <3>10, <3>11
  <2>8. CASE EndOfDay(c)
    <3>1. pc[c] = "endofday" /\ GoOn(c, "expireat") /\ UNCHANGED <<sms, forgiven, overlap, count, late>>
      BY <2>8 DEF EndOfDay
    <3>2. /\ pc'[c] = "expireat" /\ call' = call
          /\ \A d \in Call \ {c} : pc'[d] = pc[d] /\ call'[d] = call[d]
      BY <3>1, <2>a, BusyPhases
    <3>3. \A P \in {VerificationPhases, Counted, Allowed} : c \in At(P, m) <=> c \in At(P, m)'
      BY <3>1, <3>2 DEF At, VerificationPhases, Counted, Allowed
    <3> QED
      BY <3>1, <3>2, <3>3, Still
  <2>7. CASE CheckVerificationCode(c) \/ FindByMobile(c) \/ Register(c) \/ DelActivationCache(c)
    <3>1. /\ pc[c] \in {"check", "find", "insert", "del"} /\ UNCHANGED <<sms, forgiven, overlap, count, late>>
          /\ End(c) \/ GoOn(c, "find") \/ GoOn(c, "insert") \/ GoOn(c, "del")
      BY <2>7 DEF CheckVerificationCode, FindByMobile, Register, DelActivationCache, Error, Token, Counters
    <3>2. /\ pc'[c] \in {"ended", "find", "insert", "del"}
          /\ \A d \in Call \ {c} : pc'[d] = pc[d] /\ call'[d] = call[d]
      BY <3>1, <2>a, <2>e, BusyPhases
    <3>3. \A P \in {VerificationPhases, Counted, Allowed} : c \notin At(P, m) /\ c \notin At(P, m)'
      BY <3>1, <3>2 DEF At, VerificationPhases, Counted, Allowed
    <3> QED
      BY <3>1, <3>2, <3>3, Still
  <2> QED
    BY <1>2, <2>1, <2>2, <2>3, <2>4, <2>5, <2>6, <2>7, <2>8 DEF CallStep
<1>3. ASSUME NEW c \in Call, NEW k \in Mobile, BeginVerification(c, k) PROVE LimitOK(m)'
  <2>1. /\ pc[c] = "new" /\ pc' = [pc EXCEPT ![c] = "count"] /\ UNCHANGED <<late, count, sms, forgiven>>
        /\ call' = [call EXCEPT ![c] = [NoLocals EXCEPT !.kind = "verification", !.mobile = k]]
    BY <1>3 DEF BeginVerification, MayBegin, Goto
  <2>2. /\ \A d \in Call \ {c} : pc'[d] = pc[d] /\ call'[d] = call[d]
        /\ pc'[c] = "count" /\ call'[c].mobile = k
    BY <2>1, <1>p, Constants DEF Locals
  <2>3. \A P \in {Counted, Allowed} : c \notin At(P, m) /\ c \notin At(P, m)'
    BY <2>1, <2>2 DEF At, Counted, Allowed
  <2>4. Size(Counted, m)' = Size(Counted, m) /\ Size(Allowed, m)' = Size(Allowed, m)
    BY <2>2, <2>3, Moved
  <2>5. c \notin At(VerificationPhases, m) /\ (c \in At(VerificationPhases, m)' <=> k = m)
    BY <2>1, <2>2 DEF At, VerificationPhases
  <2>6. Size(VerificationPhases, m)' = Size(VerificationPhases, m) + (IF k = m THEN 1 ELSE 0)
    BY <2>2, <2>5, <1>n, Moved
  <2>7. overlap'[m] >= overlap[m] /\ (k = m => overlap'[m] >= Size(VerificationPhases, m) + 1)
    <3>1. overlap' = [overlap EXCEPT ![k] = IF Cardinality(Verifying(k)) + 1 > @ THEN Cardinality(Verifying(k)) + 1 ELSE @]
      BY <1>3 DEF BeginVerification
    <3>2. Cardinality(Verifying(k)) = Size(VerificationPhases, k) /\ Size(VerificationPhases, k) \in Nat
      BY VerifyingAt, AtFinite DEF CodeInv, Size
    <3> DEFINE now == Cardinality(Verifying(k)) + 1
    <3>3. now \in Nat /\ now = Size(VerificationPhases, k) + 1 /\ overlap[k] \in Nat /\ overlap[m] \in Nat
      BY <3>2, <1>p
    <3> HIDE DEF now
    <3>4. overlap'[k] >= now /\ overlap'[k] >= overlap[k] /\ (k # m => overlap'[m] = overlap[m])
      <4>1. overlap' = [overlap EXCEPT ![k] = IF now > @ THEN now ELSE @]
        BY <3>1 DEF now
      <4> QED
        BY <3>3, <4>1, <1>p
    <3> QED
      BY <3>3, <3>4
  <2>8. overlap'[m] \in Nat
    <3>1. TypeOK'
      BY TypeStep
    <3> QED
      BY <3>1 DEF TypeOK
  <2>9. /\ Since(m) \in Int /\ overlap[m] \in Nat
        /\ Size(VerificationPhases, m) \in Nat /\ Size(Allowed, m) \in Nat
    BY <1>n, <1>p
  <2>10. Size(VerificationPhases, m)' <= overlap'[m]
    BY <2>6, <2>7, <2>8, <2>9 DEF LimitOK
  <2>11. Since(m)' <= Limit + overlap'[m]
    BY <2>1, <2>7, <2>8, <2>9, <1>s DEF LimitOK
  <2>12. ~late' => Since(m)' + Size(Allowed, m)' <= Limit + overlap'[m]
    BY <2>1, <2>4, <2>7, <2>8, <2>9, <1>s DEF LimitOK
  <2>13. ~late' => Since(m)' <= count'[m] + Size(Counted, m)'
    BY <2>1, <2>4, <1>s DEF LimitOK
  <2> QED
    BY <2>10, <2>11, <2>12, <2>13 DEF LimitOK
<1>4. ASSUME NEW c \in Call, NEW k, NEW kind, NEW code, BeginWithCode(c, kind, k, code) PROVE LimitOK(m)'
  <2>1. /\ pc[c] = "new" /\ pc'[c] = "check" /\ UNCHANGED <<sms, forgiven, overlap, count, late>>
        /\ \A d \in Call \ {c} : pc'[d] = pc[d] /\ call'[d] = call[d]
    BY <1>4, <1>p DEF BeginWithCode, MayBegin, Goto, Counters
  <2>2. \A P \in {VerificationPhases, Counted, Allowed} : c \notin At(P, m) /\ c \notin At(P, m)'
    BY <2>1 DEF At, VerificationPhases, Counted, Allowed
  <2> QED
    BY <2>1, <2>2, Still
<1>5. ASSUME NEW c \in Call, Crash(c) PROVE LimitOK(m)'
  BY <1>5 DEF Crash
<1>6. ASSUME NEW k \in Mobile, ExpireCode(k) PROVE LimitOK(m)'
  <2>1. UNCHANGED <<pc, call, sms, forgiven, overlap, count, late>>
    BY <1>6 DEF ExpireCode, Counters
  <2>2. \A P : Size(P, m)' = Size(P, m)
    BY <2>1 DEF Size, At
  <2> QED
    BY <2>1, <2>2, <1>s DEF LimitOK
<1>7. CASE LastSecond
  <2>1. late' = TRUE /\ UNCHANGED <<pc, call, sms, forgiven, overlap>>
    BY <1>7 DEF LastSecond
  <2>2. \A P : Size(P, m)' = Size(P, m)
    BY <2>1 DEF Size, At
  <2> QED
    BY <2>1, <2>2, <1>s DEF LimitOK
<1>8. CASE Midnight
  <2>1. /\ late' = FALSE /\ UNCHANGED <<pc, call, count>> /\ Since(m)' = 0
        /\ overlap'[m] = Cardinality(Verifying(m))
    BY <1>8 DEF Midnight, Since
  <2>2. \A P : Size(P, m)' = Size(P, m)
    BY <2>1 DEF Size, At
  <2>3. overlap'[m] = Size(VerificationPhases, m)
    BY <2>1, VerifyingAt DEF CodeInv, Size
  <2> QED
    BY <2>1, <2>2, <2>3, <1>n, <1>p, Share DEF LimitOK
<1>9. mode.spelt \subseteq Mobile
  BY DEF CodeInv, TypeOK
<1> QED
  BY <1>1, <1>2, <1>3, <1>4, <1>5, <1>6, <1>7, <1>8, <1>9 DEF Next, Begin

\* The daily limit is exceeded by no more than the calls that overlapped: what is below it
\* when a counter is read has already been sent or is with a call that overlaps.
THEOREM LimitHolds == Spec => []DailyLimit
<1>1. Init => CodeInv /\ LimitInv
  BY CodeInit, LimitInit
<1>2. CodeInv /\ LimitInv /\ [Next]_vars => (CodeInv /\ LimitInv)'
  BY CodeStep, LimitStep
<1>3. LimitInv => DailyLimit
  BY DEF LimitInv, LimitOK, DailyLimit, Since
<1> QED
  BY <1>1, <1>2, <1>3, PTL DEF Spec
================================================================================

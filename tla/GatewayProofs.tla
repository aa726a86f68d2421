------------------------------ MODULE GatewayProofs ------------------------------
(* Proofs about the gateways and their services, for any requests, tokens and  *)
(* bodies, with failures, deadlines and deaths: success means the services did *)
(* it, what runs there is what was asked for, a refusal means that nothing was *)
(* changed, and the codes that arrive are those that were meant.               *)
EXTENDS Gateway, TLAPS

USE AsksAssumption, GatewayModeAssumption

\* The errors without a code that checks and logics may end with.
Internal == {RedisError, WrongCode, FormError, ParseError, Plain(Word("sql")), Plain(Word("died"))}
\* What a client's call ends with when the network lets it down.
LostCodes == {"DeadlineExceeded", "Canceled", "Unavailable"}
Reasons == LostCodes \cup {"connection refused"}
Lost == {Err(Grpc(code, Word(w), <<>>)) : code \in LostCodes, w \in Reasons}
\* What a logic may return.
Reported(logic, req) == Results(logic, req) \cup Internal \cup {DeadlineExceeded}

\* A request that passed the middleware for tokens.
Authorized(c) == RouteAsked(c).jwt => asked[c].user # Nobody

Phases == {"new", "parse", "logic", "wait", "answered"}
Called ==
    /\ mode \in Modes
    /\ asked \in [Call -> Ask] /\ \A c \in Call : asked[c] \in Asks[c] \cup {NoAsk}
    /\ pc \in [Call -> Phases]
    /\ stage \in [Call -> Nat]
    /\ \A c \in Call :
         /\ stage[c] \in 1 .. Len(Stages(c))
         /\ pc[c] = "new" => stage[c] = 1
         /\ pc[c] = "wait" => Now(c).call # NoCall
         /\ pc[c] \in {"parse", "logic", "wait"} => Authorized(c)

\* What the caller of a client gets for the error of the connection or the server.
Passed(gateway, e) == IF gateway.clientInterceptor THEN ClientErrorInterceptor(e) ELSE e

\* What a call may have been answered with at a stage of its logic, and for which error.
Verdict(gateway, now, a, e) ==
    \/ a \in {NotAuthorized, OkJson} /\ e = NoError
    \/ e \in {ParseError} \cup now.errors /\ a = ErrHandler(e)
    \/ /\ now.call # NoCall
       /\ e \in Lost /\ a = ErrHandler(Passed(gateway, e))
    \/ /\ now.call # NoCall
       /\ e \in Reported(LogicOf(now.call.method), now.call) \ {NoError}
       /\ a = ErrHandler(Passed(gateway, Sent(ServiceOf(now.call.method), e)))

Causes == {NoError, DeadlineExceeded} \cup Business \cup Internal \cup Lost
Judged ==
    /\ answer \in [Call -> Told]
    /\ cause \in [Call -> Causes]
    /\ \A c \in Call :
         IF pc[c] = "answered"
         THEN Verdict(GatewayOf(asked[c].path), Now(c), answer[c], cause[c])
         ELSE cause[c] = NoError

\* A service's job is the current RPC of its call, which waits for it or has given up.
JobsSound ==
    \A j \in jobs :
        /\ j.call \in Call /\ j = Job(j.call) /\ Now(j.call).call # NoCall
        /\ pc[j.call] \in {"wait", "answered"} /\ Authorized(j.call)
        /\ \A s \in served : s.call = j.call => s.stage < j.stage

\* What was served was an RPC of the call, made once; only errors without a code may
\* follow a change.
ServedSound ==
    /\ \A s \in served :
         /\ s.call \in Call /\ s.stage \in 1 .. stage[s.call] /\ Authorized(s.call)
         /\ pc[s.call] \in {"logic", "wait", "answered"}
         /\ pc[s.call] = "logic" => s.stage < stage[s.call]
         /\ s.req = Stages(s.call)[s.stage].call /\ s.req # NoCall
         /\ s.logic = LogicOf(s.req.method)
         /\ s.err \in Reported(s.logic, s.req)
         /\ s.changed => s.logic \in Writing /\ ~IsXCode(s.err)
    /\ \A s, t \in served : s.call = t.call /\ s.stage = t.stage => s = t

\* A reply is that of what was served for the call that waits.
Reply(s) == [call |-> s.call, sent |-> s.err, err |-> Sent(ServiceOf(s.req.method), s.err)]
RepliesSound ==
    \A r \in replies :
        /\ r.call \in Call /\ pc[r.call] = "wait" /\ \A j \in jobs : j.call # r.call
        /\ \E s \in served : s.call = r.call /\ s.stage = stage[r.call] /\ r = Reply(s)

\* The stages that are over were served without an error.
Progressed ==
    \A c \in Call : \A n \in 1 .. stage[c] - 1 :
        \E s \in served : s.call = c /\ s.stage = n /\ s.err = NoError

\* A call that was answered with an error that has a code has changed nothing.
Untouched ==
    \A c \in Call : pc[c] = "answered" /\ IsXCode(cause[c]) =>
        /\ \A s \in served : s.call = c => ~s.changed
        /\ \A j \in jobs : j.call # c

IInv == Called /\ Judged /\ JobsSound /\ ServedSound /\ RepliesSound /\ Progressed /\ Untouched

--------------------------------------------------------------------------------
(* Errors on their way through the interceptors.                               *)

\* What errors are made of.
HasCode(e) == \E n, w : n \in Nat \ {0} /\ e = New(n, Word(w))

LEMMA BusinessCodes == \A e \in Business : HasCode(e)
<1>1. HasCode(RegisterMobileEmpty)
  BY SMT DEF HasCode, RegisterMobileEmpty
<1>2. HasCode(VerificationCodeEmpty)
  BY SMT DEF HasCode, VerificationCodeEmpty
<1>3. HasCode(MobileHasRegistered)
  BY SMT DEF HasCode, MobileHasRegistered
<1>4. HasCode(LoginMobileEmpty)
  BY SMT DEF HasCode, LoginMobileEmpty
<1>5. HasCode(RegisterPasswdEmpty)
  BY SMT DEF HasCode, RegisterPasswdEmpty
<1>6. HasCode(GetBucketErr)
  BY SMT DEF HasCode, GetBucketErr
<1>7. HasCode(PutBucketErr)
  BY SMT DEF HasCode, PutBucketErr
<1>8. HasCode(ArtitleTitleEmpty)
  BY SMT DEF HasCode, ArtitleTitleEmpty
<1>9. HasCode(ArticleContentTooFewWords)
  BY SMT DEF HasCode, ArticleContentTooFewWords
<1>10. HasCode(ArticleCoverEmpty)
  BY SMT DEF HasCode, ArticleCoverEmpty
<1>11. HasCode(AccessDenied)
  BY SMT DEF HasCode, AccessDenied
<1>12. HasCode(RegisterNameEmpty)
  BY SMT DEF HasCode, RegisterNameEmpty
<1>13. HasCode(FollowedUserIdEmpty)
  BY SMT DEF HasCode, FollowedUserIdEmpty
<1>14. HasCode(CannotFollowSelf)
  BY SMT DEF HasCode, CannotFollowSelf
<1>15. HasCode(SortTypeInvalid)
  BY SMT DEF HasCode, SortTypeInvalid
<1>16. HasCode(UserIdInvalid)
  BY SMT DEF HasCode, UserIdInvalid
<1> QED
  BY <1>1, <1>2, <1>3, <1>4, <1>5, <1>6, <1>7, <1>8, <1>9, <1>10, <1>11, <1>12, <1>13, <1>14, <1>15, <1>16 DEF Business

LEMMA BusinessParts ==
    ASSUME NEW e \in Business
    PROVE  \E n, w :
             /\ n \in Nat \ {0}
             /\ e = New(n, Word(w)) /\ e.kind = "Code" /\ e.code = n /\ e.msg = Word(w)
<1>1. PICK n, w : n \in Nat \ {0} /\ e = New(n, Word(w))
  BY BusinessCodes DEF HasCode
<1> QED
  BY <1>1 DEF New

LEMMA InternalParts == ASSUME NEW e \in Internal PROVE \E w : e = Plain(Word(w))
BY DEF Internal, RedisError, WrongCode, FormError, ParseError

\* What a gateway answers for a code, and for one behind a message.
LEMMA CodeAnswer ==
    ASSUME NEW n, NEW w, NEW x \in {New(n, Word(w)), StatusOf(n, Word(w))}, NEW m
    PROVE  /\ ErrHandler(x) = [http |-> 200, code |-> n, msg |-> Word(w)]
           /\ ErrHandler(WithMessage(x, m)) = [http |-> 200, code |-> n, msg |-> Word(w)]
<1>1. x.kind \in {"Code", "Status"} /\ x.code = n /\ x.msg = Word(w)
  <2>1. CASE x = New(n, Word(w))
    BY <2>1 DEF New
  <2>2. CASE x = StatusOf(n, Word(w))
    BY <2>2 DEF StatusOf
  <2> QED
    BY <2>1, <2>2
<1>2. Word(w) # NoText
  BY DEF Word, NoText
<1>3. Cause(x) = x /\ Cause(WithMessage(x, m)) = x
  BY <1>1 DEF Cause, WithMessage
<1>4. CodeFromError(x) = x /\ CodeFromError(WithMessage(x, m)) = x
  BY <1>1, <1>3 DEF CodeFromError, IsXCode
<1>5. Text(x) = Word(w)
  BY <1>1, <1>2 DEF Text
<1> QED
  BY <1>1, <1>4, <1>5 DEF ErrHandler

\* The answers for the errors of a service that cannot be reached, of a deadline, and
\* for all errors without a code.
Answer(x) == [http |-> 200, code |-> x.code, msg |-> x.msg]

LEMMA CommonAnswers ==
    ASSUME NEW x \in {ServerErr, ServiceUnavailable, Deadline}, NEW m
    PROVE  ErrHandler(x) = Answer(x) /\ ErrHandler(WithMessage(x, m)) = Answer(x)
<1>1. PICK n, w : x = New(n, Word(w))
  BY DEF ServerErr, ServiceUnavailable, Deadline
<1>2. x.code = n /\ x.msg = Word(w)
  BY <1>1 DEF New
<1> QED
  BY <1>1, <1>2, CodeAnswer DEF Answer

LEMMA NoCodeAnswer ==
    ASSUME NEW e, e.kind \in {"plain", "grpc"}
    PROVE  ErrHandler(e) = Answer(ServerErr)
<1>1. Cause(e) = e
  BY DEF Cause
<1>2. CodeFromError(e) = ServerErr
  BY <1>1 DEF CodeFromError, IsXCode
<1>3. CodeFromError(ServerErr) = ServerErr
  <2>1. ServerErr.kind = "Code"
    BY DEF ServerErr, New
  <2>2. Cause(ServerErr) = ServerErr
    BY <2>1 DEF Cause
  <2> QED
    BY <2>1, <2>2 DEF CodeFromError, IsXCode
<1> QED
  BY <1>2, <1>3, CommonAnswers DEF ErrHandler

\* What leaves a server: nothing without an error; the code as the detail of a status,
\* where the interceptor is installed; else its text alone.
Status(code, msg) == Err(Grpc(code, msg, <<>>))
Detailed(n, x) == Err(Grpc("Unknown", Itoa(n), <<Proto(x)>>))

LEMMA StatusesStay ==
    ASSUME NEW gs, gs.code # "OK"
    PROVE  GrpcServer(Err(gs)) = Err(gs) /\ Err(gs).kind = "grpc" /\ Err(gs).status = gs
<1>1. Err(gs) = [kind |-> "grpc", status |-> gs]
  BY DEF Err
<1> QED
  BY <1>1 DEF GrpcServer

LEMMA SentNil == ASSUME NEW service PROVE Sent(service, NoError) = NoError
<1>1. NoError.kind = "nil"
  BY DEF NoError
<1>2. FromError(NoError) = GrpcOK
  BY <1>1 DEF FromError, GrpcFromError, IsXCode, Cause
<1>3. Err(GrpcOK) = NoError
  BY DEF Err, GrpcOK, Grpc
<1>4. GrpcServer(NoError) = NoError
  BY <1>1 DEF GrpcServer
<1> QED
  BY <1>2, <1>3, <1>4 DEF Sent, ServerErrorInterceptor

LEMMA SentCode ==
    ASSUME NEW service, NEW n, NEW w
    PROVE  /\ service.serverInterceptor =>
                Sent(service, New(n, Word(w))) = Detailed(n, New(n, Word(w)))
           /\ ~service.serverInterceptor =>
                Sent(service, New(n, Word(w))) = Status("Unknown", Word(w))
<1> DEFINE x == New(n, Word(w))
<1>1. x.kind = "Code" /\ x.code = n /\ x.msg = Word(w) /\ Word(w) # NoText
  BY DEF New, Word, NoText
<1> HIDE DEF x
<1>2. FromError(x) = Grpc("Unknown", Itoa(n), <<Proto(x)>>)
  BY <1>1 DEF FromError, Cause, IsXCode, gRPCStatusFromXCode
<1>3. GrpcFromError(x) = Grpc("Unknown", Word(w), <<>>)
  BY <1>1 DEF GrpcFromError, IsXCode, Text
<1>4. GrpcServer(x) = Status("Unknown", Word(w))
  BY <1>1, <1>3 DEF GrpcServer, Status
<1>5. GrpcServer(Detailed(n, x)) = Detailed(n, x)
  <2>1. Grpc("Unknown", Itoa(n), <<Proto(x)>>).code = "Unknown"
    BY DEF Grpc
  <2> QED
    BY <2>1, StatusesStay DEF Detailed
<1>6. Sent(service, x) = IF service.serverInterceptor THEN Detailed(n, x)
                                                      ELSE Status("Unknown", Word(w))
  BY <1>2, <1>4, <1>5 DEF Sent, ServerErrorInterceptor, Detailed
<1> QED
  BY <1>6 DEF x

LEMMA SentInternal ==
    ASSUME NEW service, NEW w, service.serverInterceptor \in BOOLEAN
    PROVE  Sent(service, Plain(Word(w))) = Status("Unknown", Word(w))
<1> DEFINE x == Plain(Word(w))
<1>1. x.kind = "plain" /\ x.msg = Word(w)
  BY DEF Plain
<1> HIDE DEF x
<1>2. GrpcFromError(x) = Grpc("Unknown", Word(w), <<>>)
  BY <1>1 DEF GrpcFromError, IsXCode
<1>3. FromError(x) = Grpc("Unknown", Word(w), <<>>)
  BY <1>1, <1>2 DEF FromError, Cause, IsXCode
<1>4. GrpcServer(x) = Status("Unknown", Word(w))
  BY <1>1, <1>2 DEF GrpcServer, Status
<1>5. GrpcServer(Status("Unknown", Word(w))) = Status("Unknown", Word(w))
  <2>1. Grpc("Unknown", Word(w), <<>>).code = "Unknown"
    BY DEF Grpc
  <2> QED
    BY <2>1, StatusesStay DEF Status
<1>6. Sent(service, x) = Status("Unknown", Word(w))
  BY <1>3, <1>4, <1>5 DEF Sent, ServerErrorInterceptor, Status
<1> QED
  BY <1>6 DEF x

LEMMA SentDeadline ==
    ASSUME NEW service, service.serverInterceptor \in BOOLEAN
    PROVE  \E w : Sent(service, DeadlineExceeded) =
             IF service.serverInterceptor THEN Detailed(504, Deadline)
                                          ELSE Status("DeadlineExceeded", Word(w))
<1>1. DeadlineExceeded.kind = "deadline" /\ DeadlineExceeded.msg = Word("context deadline exceeded")
  BY DEF DeadlineExceeded
<1>2. FromError(DeadlineExceeded) = Grpc("Unknown", Itoa(504), <<Proto(Deadline)>>)
  <2>1. Deadline.code = 504
    BY DEF Deadline, New
  <2> QED
    BY <1>1, <2>1 DEF FromError, Cause, IsXCode, gRPCStatusFromXCode
<1>3. GrpcServer(DeadlineExceeded) = Status("DeadlineExceeded", Word("context deadline exceeded"))
  BY <1>1 DEF GrpcServer, Status
<1>4. GrpcServer(Detailed(504, Deadline)) = Detailed(504, Deadline)
  <2>1. Grpc("Unknown", Itoa(504), <<Proto(Deadline)>>).code = "Unknown"
    BY DEF Grpc
  <2> QED
    BY <2>1, StatusesStay DEF Detailed
<1>5. Sent(service, DeadlineExceeded) =
        IF service.serverInterceptor
        THEN Detailed(504, Deadline)
        ELSE Status("DeadlineExceeded", Word("context deadline exceeded"))
  BY <1>2, <1>3, <1>4 DEF Sent, ServerErrorInterceptor, Detailed
<1> QED
  BY <1>5

\* What a client with the interceptor makes of it, and what its caller is answered.
LEMMA ClientStatus ==
    ASSUME NEW code, code # "OK", NEW msg
    PROVE  /\ Status(code, msg).kind = "grpc" /\ Status(code, msg) # NoError
           /\ Status(code, msg).status = Grpc(code, msg, <<>>)
           /\ ClientErrorInterceptor(Status(code, msg))
                = WithMessage(toXCode(Grpc(code, msg, <<>>)), msg)
<1> DEFINE gs == Grpc(code, msg, <<>>)
<1>1. gs.code = code /\ gs.msg = msg /\ gs.details = <<>>
  BY DEF Grpc
<1> HIDE DEF gs
<1>2. Err(gs) = [kind |-> "grpc", status |-> gs]
  BY <1>1 DEF Err
<1>3. Err(gs).kind = "grpc" /\ Err(gs).status = gs /\ Err(gs) # NoError
  BY <1>2 DEF NoError
<1>4. GrpcFromError(Err(gs)) = gs
  BY <1>3 DEF GrpcFromError
<1>5. GrpcStatusToXCode(gs) = toXCode(gs)
  BY <1>1 DEF GrpcStatusToXCode
<1>6. ClientErrorInterceptor(Err(gs)) = WithMessage(toXCode(gs), msg)
  BY <1>1, <1>3, <1>4, <1>5 DEF ClientErrorInterceptor
<1> QED
  BY <1>3, <1>6 DEF Status, gs

LEMMA ClientCommon ==
    ASSUME NEW w
    PROVE  /\ ErrHandler(ClientErrorInterceptor(Status("Unknown", Word(w)))) = Answer(ServerErr)
           /\ ErrHandler(ClientErrorInterceptor(Status("Canceled", Word(w)))) = Answer(ServerErr)
           /\ ErrHandler(ClientErrorInterceptor(Status("Unavailable", Word(w))))
                = Answer(ServiceUnavailable)
           /\ ErrHandler(ClientErrorInterceptor(Status("DeadlineExceeded", Word(w))))
                = Answer(Deadline)
<1>1. toXCode(Grpc("Unknown", Word(w), <<>>)) = ServerErr
  <2>1. String(Word(w)) = ServerErr
    BY DEF String, Word, NoText
  <2> QED
    BY <2>1 DEF toXCode, Grpc
<1>2. /\ toXCode(Grpc("Canceled", Word(w), <<>>)) = ServerErr
      /\ toXCode(Grpc("Unavailable", Word(w), <<>>)) = ServiceUnavailable
      /\ toXCode(Grpc("DeadlineExceeded", Word(w), <<>>)) = Deadline
  BY DEF toXCode, Grpc
<1> QED
  BY <1>1, <1>2, ClientStatus, CommonAnswers

LEMMA ClientCode ==
    ASSUME NEW n \in Nat, NEW w
    PROVE  /\ Detailed(n, New(n, Word(w))).kind = "grpc"
           /\ Detailed(n, New(n, Word(w))) # NoError
           /\ ClientErrorInterceptor(Detailed(n, New(n, Word(w)))) # NoError
           /\ ErrHandler(ClientErrorInterceptor(Detailed(n, New(n, Word(w)))))
                = [http |-> 200, code |-> n, msg |-> Word(w)]
<1> DEFINE x == New(n, Word(w))
           gs == Grpc("Unknown", Itoa(n), <<Proto(x)>>)
<1>1. x.code = n /\ Text(x) = Word(w)
  BY DEF New, Text, Word, NoText
<1>2. Proto(x) = [type |-> "Status", code |-> n, msg |-> Word(w)]
  BY <1>1 DEF Proto
<1>3. FromProto(Proto(x)) = StatusOf(n, Word(w))
  <2>1. Word(w) \notin {NoText, Itoa(n)}
    BY DEF Word, NoText, Itoa
  <2> QED
    BY <1>2, <2>1 DEF FromProto
<1>4. gs.code = "Unknown" /\ gs.details = <<Proto(x)>>
  BY DEF Grpc
<1> HIDE DEF x
<1>5. GrpcStatusToXCode(gs) = StatusOf(n, Word(w))
  <2>1. <<Proto(x)>> # <<>> /\ <<Proto(x)>>[Len(<<Proto(x)>>)] = Proto(x)
    OBVIOUS
  <2> QED
    BY <1>3, <1>4, <2>1 DEF GrpcStatusToXCode
<1> HIDE DEF gs
<1>6. Err(gs) = [kind |-> "grpc", status |-> gs]
  BY <1>4 DEF Err
<1>7. Err(gs).kind = "grpc" /\ Err(gs).status = gs /\ Err(gs) # NoError
  BY <1>6 DEF NoError
<1>8. ClientErrorInterceptor(Err(gs)) = WithMessage(StatusOf(n, Word(w)), gs.msg)
  <2>1. GrpcFromError(Err(gs)) = gs
    BY <1>7 DEF GrpcFromError
  <2> QED
    BY <1>5, <1>7, <2>1 DEF ClientErrorInterceptor
<1>9. ErrHandler(ClientErrorInterceptor(Err(gs))) = [http |-> 200, code |-> n, msg |-> Word(w)]
  BY <1>8, CodeAnswer
<1>10. ClientErrorInterceptor(Err(gs)) # NoError
  BY <1>8 DEF WithMessage, NoError
<1> QED
  BY <1>7, <1>9, <1>10 DEF Detailed, gs, x

\* Whether the call fails, and what the caller is answered for an error of the service
\* or of the network.
LEMMA PassedError ==
    ASSUME NEW gateway, NEW service, gateway.clientInterceptor \in BOOLEAN,
           service.serverInterceptor \in BOOLEAN,
           NEW e \in {NoError, DeadlineExceeded} \cup Business \cup Internal
    PROVE  Passed(gateway, Sent(service, e)) = NoError <=> e = NoError
<1>1. ASSUME e = NoError PROVE Passed(gateway, Sent(service, e)) = NoError
  BY <1>1, SentNil DEF Passed, ClientErrorInterceptor
<1>2. ASSUME NEW code, NEW msg, code # "OK", Sent(service, e) = Status(code, msg)
      PROVE  Passed(gateway, Sent(service, e)) # NoError
  BY <1>2, ClientStatus DEF Passed, WithMessage, NoError
<1>3. ASSUME NEW n \in Nat, NEW w, Sent(service, e) = Detailed(n, New(n, Word(w)))
      PROVE  Passed(gateway, Sent(service, e)) # NoError
  BY <1>3, ClientCode DEF Passed
<1>4. CASE e \in Business
  <2>1. PICK n, w :
          /\ n \in Nat \ {0}
          /\ e = New(n, Word(w)) /\ e.kind = "Code" /\ e.code = n /\ e.msg = Word(w)
    BY <1>4, BusinessParts
  <2>2. e # NoError
    BY <2>1 DEF New, NoError
  <2> QED
    BY <1>2, <1>3, <2>1, <2>2, SentCode
<1>5. CASE e \in Internal
  <2>1. PICK w : e = Plain(Word(w))
    BY <1>5, InternalParts
  <2>2. e # NoError
    BY <2>1 DEF Plain, NoError
  <2> QED
    BY <1>2, <2>1, <2>2, SentInternal
<1>6. CASE e = DeadlineExceeded
  <2>1. e # NoError
    BY <1>6 DEF DeadlineExceeded, NoError
  <2> QED
    BY <1>2, <1>3, <1>6, <2>1, SentDeadline DEF Deadline
<1> QED
  BY <1>1, <1>4, <1>5, <1>6

LEMMA ServiceAnswer ==
    ASSUME NEW gateway, NEW service, gateway.clientInterceptor \in BOOLEAN,
           service.serverInterceptor \in BOOLEAN,
           NEW e \in {DeadlineExceeded} \cup Business \cup Internal
    PROVE  ErrHandler(Passed(gateway, Sent(service, e))) =
             IF e \in Business /\ gateway.clientInterceptor /\ service.serverInterceptor
             THEN Answer(e)
             ELSE IF e = DeadlineExceeded /\ gateway.clientInterceptor THEN Answer(Deadline)
             ELSE Answer(ServerErr)
<1>1. CASE e \in Business
  <2>1. PICK n, w :
          /\ n \in Nat \ {0}
          /\ e = New(n, Word(w)) /\ e.kind = "Code" /\ e.code = n /\ e.msg = Word(w)
    BY <1>1, BusinessParts
  <2>2. e # DeadlineExceeded
    <3>1. DeadlineExceeded.kind = "deadline"
      BY DEF DeadlineExceeded
    <3> QED
      BY <2>1, <3>1
  <2>3. CASE service.serverInterceptor
    <3>1. Sent(service, New(n, Word(w))) = Detailed(n, New(n, Word(w)))
      BY <2>3, SentCode
    <3>2. ErrHandler(ClientErrorInterceptor(Sent(service, e))) = Answer(e)
      BY <2>1, <3>1, ClientCode DEF Answer
    <3>3. ErrHandler(Sent(service, e)) = Answer(ServerErr)
      BY <2>1, <3>1, ClientCode, NoCodeAnswer
    <3> QED
      BY <1>1, <2>2, <2>3, <3>2, <3>3 DEF Passed
  <2>4. CASE ~service.serverInterceptor
    <3>1. Sent(service, e) = Status("Unknown", Word(w))
      BY <2>1, <2>4, SentCode
    <3>2. ErrHandler(ClientErrorInterceptor(Sent(service, e))) = Answer(ServerErr)
      BY <3>1, ClientCommon
    <3>3. ErrHandler(Sent(service, e)) = Answer(ServerErr)
      BY <3>1, ClientStatus, NoCodeAnswer
    <3> QED
      BY <1>1, <2>2, <2>4, <3>2, <3>3 DEF Passed
  <2> QED
    BY <2>3, <2>4
<1>2. CASE e \in Internal
  <2>1. PICK w : e = Plain(Word(w))
    BY <1>2, InternalParts
  <2>2. e # DeadlineExceeded /\ e \notin Business
    BY <2>1, BusinessParts DEF Plain, DeadlineExceeded
  <2>3. Sent(service, e) = Status("Unknown", Word(w))
    BY <2>1, SentInternal
  <2>4. ErrHandler(ClientErrorInterceptor(Sent(service, e))) = Answer(ServerErr)
    BY <2>3, ClientCommon
  <2>5. ErrHandler(Sent(service, e)) = Answer(ServerErr)
    BY <2>3, ClientStatus, NoCodeAnswer
  <2> QED
    BY <2>2, <2>4, <2>5 DEF Passed
<1>3. CASE e = DeadlineExceeded
  <2>1. e \notin Business
    BY <1>3, BusinessParts DEF DeadlineExceeded
  <2>2. PICK w : Sent(service, e) =
             IF service.serverInterceptor THEN Detailed(504, Deadline)
                                          ELSE Status("DeadlineExceeded", Word(w))
    BY <1>3, SentDeadline
  <2>3. ErrHandler(Sent(service, e)) = Answer(ServerErr)
    <3>1. Sent(service, e).kind = "grpc"
      BY <2>2, ClientCode, ClientStatus DEF Deadline
    <3> QED
      BY <3>1, NoCodeAnswer
  <2>4. ErrHandler(ClientErrorInterceptor(Sent(service, e))) = Answer(Deadline)
    <3>1. ErrHandler(ClientErrorInterceptor(Detailed(504, Deadline)))
            = [http |-> 200, code |-> 504, msg |-> Word("DEADLINE_EXCEEDED")]
      BY ClientCode DEF Deadline
    <3>2. Answer(Deadline) = [http |-> 200, code |-> 504, msg |-> Word("DEADLINE_EXCEEDED")]
      BY DEF Answer, Deadline, New
    <3> QED
      BY <2>2, <3>1, <3>2, ClientCommon
  <2> QED
    BY <1>3, <2>1, <2>3, <2>4 DEF Passed
<1> QED
  BY <1>1, <1>2, <1>3

LEMMA LostAnswer ==
    ASSUME NEW gateway, gateway.clientInterceptor \in BOOLEAN, NEW e \in Lost
    PROVE  /\ e.kind = "grpc"
           /\ ErrHandler(Passed(gateway, e)) =
                IF ~gateway.clientInterceptor \/ e.status.code = "Canceled" THEN Answer(ServerErr)
                ELSE IF e.status.code = "Unavailable" THEN Answer(ServiceUnavailable)
                ELSE Answer(Deadline)
           /\ e.status.code \in {"DeadlineExceeded", "Canceled", "Unavailable"}
           /\ Passed(gateway, e) # NoError
<1>1. PICK code \in LostCodes, w \in Reasons : e = Status(code, Word(w))
  BY DEF Lost, Status
<1>0. code # "OK"
  BY DEF LostCodes
<1>2. e.kind = "grpc" /\ e.status = Grpc(code, Word(w), <<>>) /\ e # NoError
  BY <1>0, <1>1, ClientStatus
<1>3. e.status.code = code
  BY <1>2 DEF Grpc
<1>4. ErrHandler(e) = Answer(ServerErr)
  BY <1>2, NoCodeAnswer
<1>5. ClientErrorInterceptor(e) # NoError
  BY <1>0, <1>1, ClientStatus DEF WithMessage, NoError
<1>6. ErrHandler(ClientErrorInterceptor(e)) =
        IF code = "Canceled" THEN Answer(ServerErr)
        ELSE IF code = "Unavailable" THEN Answer(ServiceUnavailable)
        ELSE Answer(Deadline)
  BY <1>1, ClientCommon DEF LostCodes
<1> QED
  BY <1>1, <1>2, <1>3, <1>4, <1>5, <1>6 DEF Passed, LostCodes

\* A check's own error.
LEMMA CheckAnswer ==
    ASSUME NEW e \in Business \cup Internal
    PROVE  ErrHandler(e) = IF e \in Business THEN Answer(e) ELSE Answer(ServerErr)
<1>1. CASE e \in Business
  <2>1. PICK n, w :
          /\ n \in Nat \ {0}
          /\ e = New(n, Word(w)) /\ e.kind = "Code" /\ e.code = n /\ e.msg = Word(w)
    BY <1>1, BusinessParts
  <2> QED
    BY <1>1, <2>1, CodeAnswer DEF Answer
<1>2. CASE e \in Internal
  <2>1. e.kind = "plain"
    BY <1>2, InternalParts DEF Plain
  <2>2. e \notin Business
    BY <2>1, BusinessParts
  <2> QED
    BY <2>1, <2>2, NoCodeAnswer
<1> QED
  BY <1>1, <1>2

--------------------------------------------------------------------------------
(* The wires between clients and logics.                                       *)

LEMMA Wrappers ==
    /\ DOMAIN UserMain.wrapper = {"Register", "FindById", "FindByMobile", "SendSms"}
    /\ DOMAIN LikeMain.wrapper = {"Thumbup", "IsThumbup"}
    /\ DOMAIN FollowMain.wrapper = {"Follow", "UnFollow", "FollowList", "FansList"}
    /\ DOMAIN ArticleMain.wrapper = {"Publish", "Articles", "ArticleDelete", "ArticleDetail"}
BY DEF UserMain, LikeMain, FollowMain, ArticleMain, defaultUser, defaultLike, defaultFollow,
       defaultArticle

\* No two services have a method of the same name.
LEMMA OneService ==
    ASSUME NEW s \in Service, NEW method \in DOMAIN s.wrapper PROVE ServiceOf(method) = s
<1>1. \A t \in Service : method \in DOMAIN t.wrapper => t = s
  BY Wrappers DEF Service
<1> QED
  BY <1>1 DEF ServiceOf

LEMMA UserLogics ==
    \A m \in {"Register", "FindById", "FindByMobile", "SendSms"} :
        ServiceOf(m) = UserMain /\ LogicOf(m) = UserServer[m]
<1>1. \A m \in {"Register", "FindById", "FindByMobile", "SendSms"} : ServiceOf(m) = UserMain
  BY Wrappers, OneService DEF Service
<1>2. \A m \in {"Register", "FindById", "FindByMobile", "SendSms"} : defaultUser[m] = m
  BY DEF defaultUser
<1>3. DOMAIN UserServer = {"Register", "FindById", "FindByMobile", "SendSms"}
  BY DEF UserServer
<1>4. \A m, n \in {"Register", "FindById", "FindByMobile", "SendSms"} :
        <<userClient[m], n>> \in User_ServiceDesc <=> n = m
  BY DEF User_ServiceDesc, userClient
<1> SUFFICES ASSUME NEW m \in {"Register", "FindById", "FindByMobile", "SendSms"}
             PROVE  LogicOf(m) = UserServer[m]
  BY <1>1
<1>5. /\ UserMain.stub = userClient /\ UserMain.wrapper = defaultUser
      /\ UserMain.server = UserServer /\ UserMain.desc = User_ServiceDesc
  BY DEF UserMain
<1>6. (CHOOSE n \in DOMAIN UserServer : <<userClient[m], n>> \in User_ServiceDesc) = m
  BY <1>3, <1>4
<1> QED
  BY <1>1, <1>2, <1>5, <1>6 DEF LogicOf

LEMMA LikeLogics ==
    \A m \in {"Thumbup", "IsThumbup"} :
        ServiceOf(m) = LikeMain /\ LogicOf(m) = LikeServer[m]
<1>1. \A m \in {"Thumbup", "IsThumbup"} : ServiceOf(m) = LikeMain
  BY Wrappers, OneService DEF Service
<1>2. \A m \in {"Thumbup", "IsThumbup"} : defaultLike[m] = m
  BY DEF defaultLike
<1>3. DOMAIN LikeServer = {"Thumbup", "IsThumbup"}
  BY DEF LikeServer
<1>4. \A m, n \in {"Thumbup", "IsThumbup"} :
        <<likeClient[m], n>> \in Like_ServiceDesc <=> n = m
  BY DEF Like_ServiceDesc, likeClient
<1> SUFFICES ASSUME NEW m \in {"Thumbup", "IsThumbup"}
             PROVE  LogicOf(m) = LikeServer[m]
  BY <1>1
<1>5. /\ LikeMain.stub = likeClient /\ LikeMain.wrapper = defaultLike
      /\ LikeMain.server = LikeServer /\ LikeMain.desc = Like_ServiceDesc
  BY DEF LikeMain
<1>6. (CHOOSE n \in DOMAIN LikeServer : <<likeClient[m], n>> \in Like_ServiceDesc) = m
  BY <1>3, <1>4
<1> QED
  BY <1>1, <1>2, <1>5, <1>6 DEF LogicOf

LEMMA FollowLogics ==
    \A m \in {"Follow", "UnFollow", "FollowList", "FansList"} :
        ServiceOf(m) = FollowMain /\ LogicOf(m) = FollowServer[m]
<1>1. \A m \in {"Follow", "UnFollow", "FollowList", "FansList"} : ServiceOf(m) = FollowMain
  BY Wrappers, OneService DEF Service
<1>2. \A m \in {"Follow", "UnFollow", "FollowList", "FansList"} : defaultFollow[m] = m
  BY DEF defaultFollow
<1>3. DOMAIN FollowServer = {"Follow", "UnFollow", "FollowList", "FansList"}
  BY DEF FollowServer
<1>4. \A m, n \in {"Follow", "UnFollow", "FollowList", "FansList"} :
        <<followClient[m], n>> \in Follow_ServiceDesc <=> n = m
  BY DEF Follow_ServiceDesc, followClient
<1> SUFFICES ASSUME NEW m \in {"Follow", "UnFollow", "FollowList", "FansList"}
             PROVE  LogicOf(m) = FollowServer[m]
  BY <1>1
<1>5. /\ FollowMain.stub = followClient /\ FollowMain.wrapper = defaultFollow
      /\ FollowMain.server = FollowServer /\ FollowMain.desc = Follow_ServiceDesc
  BY DEF FollowMain
<1>6. (CHOOSE n \in DOMAIN FollowServer : <<followClient[m], n>> \in Follow_ServiceDesc) = m
  BY <1>3, <1>4
<1> QED
  BY <1>1, <1>2, <1>5, <1>6 DEF LogicOf

LEMMA ArticleLogics ==
    \A m \in {"Publish", "Articles", "ArticleDelete", "ArticleDetail"} :
        ServiceOf(m) = ArticleMain /\ LogicOf(m) = ArticleServer[m]
<1>1. \A m \in {"Publish", "Articles", "ArticleDelete", "ArticleDetail"} : ServiceOf(m) = ArticleMain
  BY Wrappers, OneService DEF Service
<1>2. \A m \in {"Publish", "Articles", "ArticleDelete", "ArticleDetail"} : defaultArticle[m] = m
  BY DEF defaultArticle
<1>3. DOMAIN ArticleServer = {"Publish", "Articles", "ArticleDelete", "ArticleDetail"}
  BY DEF ArticleServer
<1>4. \A m, n \in {"Publish", "Articles", "ArticleDelete", "ArticleDetail"} :
        <<articleClient[m], n>> \in Article_ServiceDesc <=> n = m
  BY DEF Article_ServiceDesc, articleClient
<1> SUFFICES ASSUME NEW m \in {"Publish", "Articles", "ArticleDelete", "ArticleDetail"}
             PROVE  LogicOf(m) = ArticleServer[m]
  BY <1>1
<1>5. /\ ArticleMain.stub = articleClient /\ ArticleMain.wrapper = defaultArticle
      /\ ArticleMain.server = ArticleServer /\ ArticleMain.desc = Article_ServiceDesc
  BY DEF ArticleMain
<1>6. (CHOOSE n \in DOMAIN ArticleServer : <<articleClient[m], n>> \in Article_ServiceDesc) = m
  BY <1>3, <1>4
<1> QED
  BY <1>1, <1>2, <1>5, <1>6 DEF LogicOf

Methods == {"Register", "FindById", "FindByMobile", "SendSms", "Thumbup", "IsThumbup",
            "Follow", "UnFollow", "FollowList", "FansList",
            "Publish", "Articles", "ArticleDelete", "ArticleDetail"}

LEMMA ServiceFacts ==
    ASSUME NEW m \in Methods
    PROVE  /\ ServiceOf(m) \in Service /\ ServiceOf(m).serverInterceptor \in BOOLEAN
           /\ m # ""
<1>1. \A s \in Service : s.serverInterceptor \in BOOLEAN
  <2>1. UserMain.serverInterceptor = TRUE
    BY DEF UserMain
  <2>2. LikeMain.serverInterceptor = FALSE
    BY DEF LikeMain
  <2>3. FollowMain.serverInterceptor = FALSE
    BY DEF FollowMain
  <2>4. ArticleMain.serverInterceptor = FALSE
    BY DEF ArticleMain
  <2> QED
    BY <2>1, <2>2, <2>3, <2>4 DEF Service
<1>2. ServiceOf(m) \in {UserMain, LikeMain, FollowMain, ArticleMain}
  <2>1. CASE m \in {"Register", "FindById", "FindByMobile", "SendSms"}
    BY <2>1, UserLogics
  <2>2. CASE m \in {"Thumbup", "IsThumbup"}
    BY <2>2, LikeLogics
  <2>3. CASE m \in {"Follow", "UnFollow", "FollowList", "FansList"}
    BY <2>3, FollowLogics
  <2>4. CASE m \in {"Publish", "Articles", "ArticleDelete", "ArticleDetail"}
    BY <2>4, ArticleLogics
  <2> QED
    BY <2>1, <2>2, <2>3, <2>4 DEF Methods
<1>3. ServiceOf(m) \in Service
  BY <1>2 DEF Service
<1>4. m # ""
  BY DEF Methods
<1> QED
  BY <1>1, <1>3, <1>4

\* The routes, and the logic each one stands for.
Names == {"Register", "Verification", "Login", "UserInfo", "Thumbup", "IsThumbup", "Follow",
          "UnFollow", "FollowList", "FansList", "UploadCover", "Publish", "ArticleDetail",
          "ArticleList"}

Proper(r) ==
    /\ r.handler.logic \in Names /\ r.jwt \in BOOLEAN
    /\ r.jwt => r.handler.logic # "Register"

LEMMA ProperRoutes == \A r \in Routes : Proper(r)
<1>1. \A name : Handler(name).logic = name
  BY DEF Handler
<1>2. /\ RegisterHandler.logic = "Register" /\ VerificationHandler.logic = "Verification"
      /\ LoginHandler.logic = "Login"
  BY <1>1 DEF RegisterHandler, VerificationHandler, LoginHandler
<1>3. /\ ThumbupHandler.logic = "Thumbup" /\ IsThumbupHandler.logic = "IsThumbup"
      /\ FollowHandler.logic = "Follow" /\ UnFollowHandler.logic = "UnFollow"
      /\ FollowListHandler.logic = "FollowList" /\ FansListHandler.logic = "FansList"
  BY <1>1 DEF ThumbupHandler, IsThumbupHandler, FollowHandler, UnFollowHandler,
     FollowListHandler, FansListHandler
<1>4. /\ PublishHandler.logic = "Publish" /\ ArticleDetailHandler.logic = "ArticleDetail"
      /\ ArticleListHandler.logic = "ArticleList"
  BY <1>1 DEF PublishHandler, ArticleDetailHandler, ArticleListHandler
<1>5. UserInfoHandler.logic = "UserInfo" /\ UploadCoverHandler.logic = "UploadCover"
  BY DEF UserInfoHandler, UploadCoverHandler
<1>6. ASSUME NEW p, NEW h, h.logic \in Names PROVE Proper(Route(p, h, FALSE))
  <2>1. Route(p, h, FALSE).handler = h /\ Route(p, h, FALSE).jwt = FALSE
    BY DEF Route
  <2> QED
    BY <1>6, <2>1 DEF Proper
<1>7. ASSUME NEW p, NEW h, h.logic \in Names \ {"Register"} PROVE Proper(Route(p, h, TRUE))
  <2>1. Route(p, h, TRUE).handler = h /\ Route(p, h, TRUE).jwt = TRUE
    BY DEF Route
  <2> QED
    BY <1>7, <2>1 DEF Proper
<1>8. ASSUME NEW p
      PROVE  \A h \in {RegisterHandler, VerificationHandler, LoginHandler} :
                Proper(Route(p, h, FALSE))
  <2>1. \A h \in {RegisterHandler, VerificationHandler, LoginHandler} : h.logic \in Names
    BY <1>2 DEF Names
  <2> QED
    BY <1>6, <2>1
<1>9. ASSUME NEW p
      PROVE  \A h \in {UserInfoHandler, ThumbupHandler, IsThumbupHandler, FollowHandler,
                        UnFollowHandler, FollowListHandler, FansListHandler} :
                Proper(Route(p, h, TRUE))
  BY <1>3, <1>5, <1>7 DEF Names
<1>10. ASSUME NEW p
       PROVE  \A h \in {UploadCoverHandler, PublishHandler, ArticleDetailHandler,
                         ArticleListHandler} : Proper(Route(p, h, TRUE))
  BY <1>4, <1>5, <1>7 DEF Names
<1>11. \A r \in AppletRoutes : Proper(r)
  BY <1>8, <1>9 DEF AppletRoutes
<1>12. \A r \in ArticleRoutes : Proper(r)
  BY <1>10 DEF ArticleRoutes
<1> QED
  BY <1>11, <1>12 DEF Routes

LEMMA RouteFacts ==
    ASSUME NEW path \in DOMAIN RouteOf
    PROVE  /\ RouteOf[path] \in Routes /\ RouteOf[path].path = path /\ Proper(RouteOf[path])
           /\ GatewayOf(path).clientInterceptor \in BOOLEAN
           /\ GatewayOf(path) = Applet <=> GatewayOf(path).clientInterceptor
<1>1. RouteOf[path] = CHOOSE r \in Routes : r.path = path
  BY DEF RouteOf
<1>2. \E r \in Routes : r.path = path
  BY DEF RouteOf
<1>3. RouteOf[path] \in Routes /\ RouteOf[path].path = path
  BY <1>1, <1>2
<1>4. Applet.clientInterceptor = TRUE
  BY DEF Applet
<1>5. ArticleApi.clientInterceptor = FALSE
  BY DEF ArticleApi
<1>6. GatewayOf(path) \in {Applet, ArticleApi}
  BY DEF GatewayOf
<1> QED
  BY <1>3, <1>4, <1>5, <1>6, ProperRoutes

--------------------------------------------------------------------------------
(* What the logics of the gateways ask for.                                    *)

LEMMA UserLogicNames ==
    /\ LogicOf("Register") = "RegisterLogic" /\ LogicOf("FindById") = "FindByIdLogic"
    /\ LogicOf("FindByMobile") = "FindByMobileLogic" /\ LogicOf("SendSms") = "SendSmsLogic"
BY UserLogics DEF UserServer
LEMMA LikeLogicNames ==
    LogicOf("Thumbup") = "ThumbupLogic" /\ LogicOf("IsThumbup") = "IsThumbupLogic"
BY LikeLogics DEF LikeServer
LEMMA FollowLogicNames ==
    /\ LogicOf("Follow") = "FollowLogic" /\ LogicOf("UnFollow") = "UnFollowLogic"
    /\ LogicOf("FollowList") = "FollowListLogic" /\ LogicOf("FansList") = "FansListLogic"
BY FollowLogics DEF FollowServer
LEMMA ArticleLogicNames ==
    /\ LogicOf("Publish") = "PublishLogic" /\ LogicOf("Articles") = "ArticlesLogic"
    /\ LogicOf("ArticleDetail") = "ArticleDetailLogic"
BY ArticleLogics DEF ArticleServer

\* A stage of the logic of a route: its errors have a code or none; its RPC runs what the
\* route stands for, for whom and on what it was asked if that changes anything, and does
\* not return the errors of the stage's own checks.
Purposeful(name, s, u, t) ==
    LET logic == LogicOf(s.call.method)
    IN  /\ s.call.method \in Methods /\ logic \in Meant[name]
        /\ s.errors \cap Results(logic, s.call) = {}
        /\ logic \in Writing => s.call.target = t /\ (name # "Register" => s.call.userId = u)
Errors(s) == s.errors \subseteq Business \cup Internal

\* What changes anything is the last RPC, and no check comes after it.
Final(q, n) == LogicOf(q[n].call.method) \in Writing => n + 1 = Len(q) /\ q[n + 1].errors = {}

WellMade(name, q, u, t) ==
    /\ Len(q) \in 1 .. 3
    /\ \A n \in 1 .. Len(q) :
         /\ Errors(q[n])
         /\ q[n].call # NoCall => n < Len(q) /\ Purposeful(name, q[n], u, t) /\ Final(q, n)

LEMMA TwoStages ==
    ASSUME NEW name, NEW u, NEW t, NEW s1, NEW s2, Errors(s1), Errors(s2),
           s2.call = NoCall, Purposeful(name, s1, u, t),
           LogicOf(s1.call.method) \in Writing => s2.errors = {}
    PROVE  WellMade(name, <<s1, s2>>, u, t)
<1> DEFINE q == <<s1, s2>>
<1>1. Len(q) = 2 /\ q[1] = s1 /\ q[2] = s2
  OBVIOUS
<1> HIDE DEF q
<1>2. ASSUME NEW n \in 1 .. Len(q)
      PROVE  /\ Errors(q[n])
             /\ q[n].call # NoCall => n < Len(q) /\ Purposeful(name, q[n], u, t) /\ Final(q, n)
  <2>1. n = 1 \/ n = 2
    BY <1>1
  <2>2. CASE n = 1
    BY <1>1, <2>2 DEF Final
  <2>3. CASE n = 2
    BY <1>1, <2>3
  <2> QED
    BY <2>1, <2>2, <2>3
<1>3. WellMade(name, q, u, t)
  BY <1>1, <1>2 DEF WellMade
<1> QED
  BY <1>3 DEF q

LEMMA ThreeStages ==
    ASSUME NEW name, NEW u, NEW t, NEW s1, NEW s2, NEW s3, Errors(s1), Errors(s2), Errors(s3),
           s3.call = NoCall, Purposeful(name, s1, u, t), Purposeful(name, s2, u, t),
           LogicOf(s1.call.method) \notin Writing,
           LogicOf(s2.call.method) \in Writing => s3.errors = {}
    PROVE  WellMade(name, <<s1, s2, s3>>, u, t)
<1> DEFINE q == <<s1, s2, s3>>
<1>1. Len(q) = 3 /\ q[1] = s1 /\ q[2] = s2 /\ q[3] = s3
  OBVIOUS
<1> HIDE DEF q
<1>2. ASSUME NEW n \in 1 .. Len(q)
      PROVE  /\ Errors(q[n])
             /\ q[n].call # NoCall => n < Len(q) /\ Purposeful(name, q[n], u, t) /\ Final(q, n)
  <2>1. n = 1 \/ n = 2 \/ n = 3
    BY <1>1
  <2>2. CASE n = 1
    BY <1>1, <2>2 DEF Final
  <2>3. CASE n = 2
    BY <1>1, <2>3 DEF Final
  <2>4. CASE n = 3
    BY <1>1, <2>4
  <2> QED
    BY <2>1, <2>2, <2>3, <2>4
<1>3. WellMade(name, q, u, t)
  BY <1>1, <1>2 DEF WellMade
<1> QED
  BY <1>3 DEF q

LEMMA Parts ==
    /\ \A e, b, r : Stage(e, b, r).errors = e /\ Stage(e, b, r).call = r
    /\ \A e : Ends(e).errors = e /\ Ends(e).call = NoCall
    /\ \A m, x, y : Rpc(m, x, y).method = m /\ Rpc(m, x, y).userId = x /\ Rpc(m, x, y).target = y
BY DEF Stage, Ends, Rpc

\* A logic that only forwards.
LEMMA Forwards ==
    ASSUME NEW name \in Names \ {"Register"}, NEW u, NEW t, NEW m \in Methods, NEW x, NEW y,
           LogicOf(m) \in Meant[name], LogicOf(m) \in Writing => x = u /\ y = t
    PROVE  WellMade(name, Forward(m, x, y), u, t)
<1> DEFINE s == Stage({}, FALSE, Rpc(m, x, y))
<1>1. s.errors = {} /\ s.call.method = m /\ s.call.userId = x /\ s.call.target = y
  <2>1. s.errors = {}
    BY DEF Stage
  <2>2. s.call = Rpc(m, x, y)
    BY DEF Stage
  <2> HIDE DEF s
  <2> QED
    BY <2>1, <2>2 DEF Rpc
<1>2. Ends({}).errors = {} /\ Ends({}).call = NoCall
  BY Parts
<1> HIDE DEF s
<1>3. Purposeful(name, s, u, t)
  BY <1>1 DEF Purposeful
<1>4. WellMade(name, <<s, Ends({})>>, u, t)
  BY <1>1, <1>2, <1>3, TwoStages DEF Errors
<1> QED
  BY <1>4 DEF s, Forward

LEMMA NilIsNoError == NoError \notin Business /\ NoError \notin Internal
<1>1. NoError \notin Business
  BY BusinessParts DEF NoError
<1>2. NoError \notin Internal
  BY InternalParts DEF NoError, Plain
<1> QED
  BY <1>1, <1>2

\* What services answer of themselves.
LEMMA ResultsAre ==
    ASSUME NEW logic, NEW req PROVE Results(logic, req) \subseteq {NoError} \cup Business
<1>1. Results(logic, req) \in
        {{NoError, RegisterNameEmpty}, {FollowedUserIdEmpty}, {CannotFollowSelf},
         {SortTypeInvalid, UserIdInvalid}, {NoError, SortTypeInvalid}, {NoError}}
  BY DEF Results
<1> QED
  BY <1>1 DEF Business

LEMMA ForwardsMade ==
    ASSUME NEW u, NEW t,
           NEW name \in {"UserInfo", "Thumbup", "IsThumbup", "Follow", "UnFollow", "FollowList",
                         "FansList", "ArticleList"}
    PROVE  WellMade(name, Logic(name, u, t), u, t)
<1>1. CASE name = "UserInfo"
  <2>1. Logic(name, u, t) = Forward("FindById", u, Nobody)
    BY <1>1 DEF Logic, UserInfoLogic
  <2>2. Meant[name] = {"FindByIdLogic"}
    BY <1>1 DEF Meant
  <2>3. "FindByIdLogic" \notin Writing
    BY DEF Writing
  <2> QED
    BY <2>3, <1>1, <2>1, <2>2, UserLogicNames, Forwards DEF Names, Methods
<1>2. CASE name = "Thumbup"
  <2>1. Logic(name, u, t) = Forward("Thumbup", u, t)
    BY <1>2 DEF Logic, ThumbupLogic
  <2>2. Meant[name] = {"ThumbupLogic"}
    BY <1>2 DEF Meant
  <2> QED
    BY <1>2, <2>1, <2>2, LikeLogicNames, Forwards DEF Names, Methods
<1>3. CASE name = "IsThumbup"
  <2>1. Logic(name, u, t) = Forward("IsThumbup", u, t)
    BY <1>3 DEF Logic, IsThumbupLogic
  <2>2. Meant[name] = {"IsThumbupLogic"}
    BY <1>3 DEF Meant
  <2> QED
    BY <1>3, <2>1, <2>2, LikeLogicNames, Forwards DEF Names, Methods
<1>4. CASE name = "Follow"
  <2>1. Logic(name, u, t) = Forward("Follow", u, t)
    BY <1>4 DEF Logic, FollowLogic
  <2>2. Meant[name] = {"FollowLogic"}
    BY <1>4 DEF Meant
  <2> QED
    BY <1>4, <2>1, <2>2, FollowLogicNames, Forwards DEF Names, Methods
<1>5. CASE name = "UnFollow"
  <2>1. Logic(name, u, t) = Forward("UnFollow", u, t)
    BY <1>5 DEF Logic, UnFollowLogic
  <2>2. Meant[name] = {"UnFollowLogic"}
    BY <1>5 DEF Meant
  <2> QED
    BY <1>5, <2>1, <2>2, FollowLogicNames, Forwards DEF Names, Methods
<1>6. CASE name = "FollowList"
  <2>1. Logic(name, u, t) = Forward("FollowList", u, Nobody)
    BY <1>6 DEF Logic, FollowListLogic
  <2>2. Meant[name] = {"FollowListLogic"}
    BY <1>6 DEF Meant
  <2>3. "FollowListLogic" \notin Writing
    BY DEF Writing
  <2> QED
    BY <2>3, <1>6, <2>1, <2>2, FollowLogicNames, Forwards DEF Names, Methods
<1>7. CASE name = "FansList"
  <2>1. Logic(name, u, t) = Forward("FansList", u, Nobody)
    BY <1>7 DEF Logic, FansListLogic
  <2>2. Meant[name] = {"FansListLogic"}
    BY <1>7 DEF Meant
  <2>3. "FansListLogic" \notin Writing
    BY DEF Writing
  <2> QED
    BY <2>3, <1>7, <2>1, <2>2, FollowLogicNames, Forwards DEF Names, Methods
<1>8. CASE name = "ArticleList"
  <2>1. Logic(name, u, t) = Forward("Articles", t, Nobody)
    BY <1>8 DEF Logic, ArticleListLogic
  <2>2. Meant[name] = {"ArticlesLogic"}
    BY <1>8 DEF Meant
  <2>3. "ArticlesLogic" \notin Writing
    BY DEF Writing
  <2> QED
    BY <2>3, <1>8, <2>1, <2>2, ArticleLogicNames, Forwards DEF Names, Methods
<1> QED
  BY <1>1, <1>2, <1>3, <1>4, <1>5, <1>6, <1>7, <1>8

\* Checks whose errors are not those of a service that refuses nothing.
LEMMA Checked ==
    ASSUME NEW name, NEW u, NEW t, NEW s, s.call.method \in Methods,
           LogicOf(s.call.method) \in Meant[name],
           s.errors \cap Results(LogicOf(s.call.method), s.call) = {},
           \/ LogicOf(s.call.method) \notin Writing
           \/ s.call.target = t /\ (name # "Register" => s.call.userId = u)
    PROVE  Purposeful(name, s, u, t)
BY DEF Purposeful

LEMMA EndsMade ==
    ASSUME NEW errors, errors \subseteq Business \cup Internal
    PROVE  Errors(Ends(errors)) /\ Ends(errors).call = NoCall /\ Ends(errors).errors = errors
BY Parts DEF Errors

LEMMA PlainResults ==
    ASSUME NEW req,
           NEW logic \in {"FindByMobileLogic", "FindByIdLogic", "SendSmsLogic", "PublishLogic",
                          "ArticleDetailLogic"}
    PROVE  Results(logic, req) = {NoError}
BY DEF Results

LEMMA ChecksMade ==
    ASSUME NEW u, NEW t,
           NEW name \in {"Register", "Verification", "Login", "UploadCover", "Publish",
                         "ArticleDetail"}
    PROVE  WellMade(name, Logic(name, u, t), u, t)
<1>0. {"Register", "FindByMobile", "FindById", "SendSms", "Publish", "ArticleDetail"} \subseteq Methods
  BY DEF Methods
<1>1. CASE name = "Register"
  <2> DEFINE e1 == {RegisterMobileEmpty, RegisterPasswdEmpty, VerificationCodeEmpty, RedisError,
                    WrongCode}
             r1 == Rpc("FindByMobile", Nobody, t)
             s1 == Stage(e1, FALSE, r1)
             e2 == {MobileHasRegistered}
             r2 == Rpc("Register", Nobody, t)
             s2 == Stage(e2, FALSE, r2)
  <2>1. Logic(name, u, t) = <<s1, s2, Ends({})>>
    BY <1>1 DEF Logic, RegisterLogic
  <2>2. Meant[name] = {"FindByMobileLogic", "RegisterLogic"}
    BY <1>1 DEF Meant
  <2>3. e1 \subseteq Business \cup Internal /\ e2 \subseteq Business \cup Internal
    BY DEF Business, Internal
  <2>4. e2 \cap Results("RegisterLogic", r2) = {}
    <3>1. Results("RegisterLogic", r2) = {NoError, RegisterNameEmpty}
      BY DEF Results
    <3>2. MobileHasRegistered # RegisterNameEmpty
      BY SMT DEF MobileHasRegistered, RegisterNameEmpty, New
    <3>3. MobileHasRegistered # NoError
      BY <2>3, NilIsNoError
    <3> QED
      BY <3>1, <3>2, <3>3
  <2>5. e1 \cap Results("FindByMobileLogic", r1) = {}
    BY <2>3, PlainResults, NilIsNoError
  <2>6. s1.errors = e1 /\ s2.errors = e2
    BY DEF Stage
  <2>7. s1.call = r1 /\ s2.call = r2
    BY DEF Stage
  <2> HIDE DEF e1, e2, s1, s2
  <2>8. "FindByMobileLogic" \notin Writing
    BY DEF Writing
  <2>9. Purposeful(name, s1, u, t) /\ LogicOf(s1.call.method) = "FindByMobileLogic"
    <3>1. s1.call.method = "FindByMobile"
      BY <2>7, Parts
    <3>2. LogicOf(s1.call.method) = "FindByMobileLogic"
      BY <3>1, UserLogicNames
    <3>3. s1.errors \cap Results("FindByMobileLogic", s1.call) = {}
      BY <2>5, <2>6, <2>7
    <3> QED
      BY <1>0, <2>2, <2>8, <3>1, <3>2, <3>3, Checked
  <2>10. Purposeful(name, s2, u, t)
    <3>1. s2.call.method = "Register" /\ s2.call.target = t
      BY <2>7, Parts
    <3>2. LogicOf(s2.call.method) = "RegisterLogic"
      BY <3>1, UserLogicNames
    <3>3. s2.errors \cap Results("RegisterLogic", s2.call) = {}
      BY <2>4, <2>6, <2>7
    <3> QED
      BY <1>0, <1>1, <2>2, <3>1, <3>2, <3>3, Checked
  <2>11. Errors(s1) /\ Errors(s2)
    BY <2>3, <2>6 DEF Errors
  <2> QED
    BY <2>1, <2>8, <2>9, <2>10, <2>11, EndsMade, ThreeStages
<1>2. CASE name = "Verification"
  <2> DEFINE r == Rpc("SendSms", Nobody, t)
             s == Stage({}, TRUE, r)
  <2>1. Logic(name, u, t) = <<s, Ends({RedisError})>>
    BY <1>2 DEF Logic, VerificationLogic
  <2>2. Meant[name] = {"SendSmsLogic"}
    BY <1>2 DEF Meant
  <2>3. {RedisError} \subseteq Business \cup Internal
    BY DEF Internal
  <2>4. "SendSmsLogic" \notin Writing
    BY DEF Writing
  <2>5. s.errors = {} /\ s.call = r
    BY DEF Stage
  <2> HIDE DEF s
  <2>6. Purposeful(name, s, u, t) /\ LogicOf(s.call.method) = "SendSmsLogic"
    <3>1. s.call.method = "SendSms"
      BY <2>5, Parts
    <3>2. LogicOf(s.call.method) = "SendSmsLogic"
      BY <3>1, UserLogicNames
    <3>3. s.errors \cap Results("SendSmsLogic", s.call) = {}
      BY <2>5
    <3> QED
      BY <1>0, <2>2, <2>4, <3>1, <3>2, <3>3, Checked
  <2>7. Errors(s)
    BY <2>5 DEF Errors
  <2> QED
    BY <2>1, <2>3, <2>4, <2>6, <2>7, EndsMade, TwoStages
<1>3. CASE name = "Login"
  <2> DEFINE e == {LoginMobileEmpty, VerificationCodeEmpty, RedisError, WrongCode}
             r == Rpc("FindByMobile", Nobody, t)
             s == Stage(e, FALSE, r)
  <2>1. Logic(name, u, t) = <<s, Ends({AccessDenied})>>
    BY <1>3 DEF Logic, LoginLogic
  <2>2. Meant[name] = {"FindByMobileLogic"}
    BY <1>3 DEF Meant
  <2>3. e \subseteq Business \cup Internal /\ {AccessDenied} \subseteq Business \cup Internal
    BY DEF Business, Internal
  <2>4. "FindByMobileLogic" \notin Writing
    BY DEF Writing
  <2>5. e \cap Results("FindByMobileLogic", r) = {}
    BY <2>3, PlainResults, NilIsNoError
  <2>6. s.errors = e
    BY DEF Stage
  <2>7. s.call = r
    BY DEF Stage
  <2> HIDE DEF e, s
  <2>8. Purposeful(name, s, u, t) /\ LogicOf(s.call.method) = "FindByMobileLogic"
    <3>1. s.call.method = "FindByMobile"
      BY <2>7, Parts
    <3>2. LogicOf(s.call.method) = "FindByMobileLogic"
      BY <3>1, UserLogicNames
    <3>3. s.errors \cap Results("FindByMobileLogic", s.call) = {}
      BY <2>5, <2>6, <2>7
    <3> QED
      BY <1>0, <2>2, <2>4, <3>1, <3>2, <3>3, Checked
  <2>9. Errors(s)
    BY <2>3, <2>6 DEF Errors
  <2> QED
    BY <2>1, <2>3, <2>4, <2>8, <2>9, EndsMade, TwoStages
<1>4. CASE name = "UploadCover"
  <2> DEFINE e == {FormError, GetBucketErr, PutBucketErr}
             q == <<Ends(e)>>
  <2>1. Logic(name, u, t) = q
    BY <1>4 DEF Logic, UploadCoverLogic
  <2>2. e \subseteq Business \cup Internal
    BY DEF Business, Internal
  <2> HIDE DEF e
  <2>3. Len(q) = 1 /\ q[1] = Ends(e)
    OBVIOUS
  <2> HIDE DEF q
  <2> QED
    BY <2>1, <2>2, <2>3, EndsMade DEF WellMade
<1>5. CASE name = "Publish"
  <2> DEFINE e == {ArtitleTitleEmpty, ArticleContentTooFewWords, ArticleCoverEmpty}
             r == Rpc("Publish", u, t)
             s == Stage(e, FALSE, r)
  <2>1. Logic(name, u, t) = <<s, Ends({})>>
    BY <1>5 DEF Logic, PublishLogic
  <2>2. Meant[name] = {"PublishLogic"}
    BY <1>5 DEF Meant
  <2>3. e \subseteq Business \cup Internal
    BY DEF Business
  <2>4. e \cap Results("PublishLogic", r) = {}
    BY <2>3, PlainResults, NilIsNoError
  <2>5. s.errors = e
    BY DEF Stage
  <2>6. s.call = r
    BY DEF Stage
  <2> HIDE DEF e, s
  <2>7. Purposeful(name, s, u, t)
    <3>1. s.call.method = "Publish" /\ s.call.userId = u /\ s.call.target = t
      BY <2>6, Parts
    <3>2. LogicOf(s.call.method) = "PublishLogic"
      BY <3>1, ArticleLogicNames
    <3>3. s.errors \cap Results("PublishLogic", s.call) = {}
      BY <2>4, <2>5, <2>6
    <3> QED
      BY <1>0, <2>2, <3>1, <3>2, <3>3, Checked
  <2>8. Errors(s)
    BY <2>3, <2>5 DEF Errors
  <2> QED
    BY <2>1, <2>7, <2>8, EndsMade, TwoStages
<1>6. CASE name = "ArticleDetail"
  <2> DEFINE r1 == Rpc("ArticleDetail", Nobody, t)
             s1 == Stage({}, FALSE, r1)
             r2 == Rpc("FindById", t, Nobody)
             s2 == Stage({}, TRUE, r2)
  <2>1. Logic(name, u, t) = <<s1, s2, Ends({})>>
    BY <1>6 DEF Logic, ArticleDetailLogic
  <2>2. Meant[name] = {"ArticleDetailLogic", "FindByIdLogic"}
    BY <1>6 DEF Meant
  <2>3. "ArticleDetailLogic" \notin Writing /\ "FindByIdLogic" \notin Writing
    BY DEF Writing
  <2>4. s1.errors = {} /\ s2.errors = {}
    BY DEF Stage
  <2>5. s1.call = r1 /\ s2.call = r2
    BY DEF Stage
  <2> HIDE DEF s1, s2
  <2>6. Purposeful(name, s1, u, t) /\ LogicOf(s1.call.method) = "ArticleDetailLogic"
    <3>1. s1.call.method = "ArticleDetail"
      BY <2>5, Parts
    <3>2. LogicOf(s1.call.method) = "ArticleDetailLogic"
      BY <3>1, ArticleLogicNames
    <3>3. s1.errors \cap Results("ArticleDetailLogic", s1.call) = {}
      BY <2>4
    <3> QED
      BY <1>0, <2>2, <2>3, <3>1, <3>2, <3>3, Checked
  <2>7. Purposeful(name, s2, u, t) /\ LogicOf(s2.call.method) = "FindByIdLogic"
    <3>1. s2.call.method = "FindById"
      BY <2>5, Parts
    <3>2. LogicOf(s2.call.method) = "FindByIdLogic"
      BY <3>1, UserLogicNames
    <3>3. s2.errors \cap Results("FindByIdLogic", s2.call) = {}
      BY <2>4
    <3> QED
      BY <1>0, <2>2, <2>3, <3>1, <3>2, <3>3, Checked
  <2>8. Errors(s1) /\ Errors(s2)
    BY <2>4 DEF Errors
  <2> QED
    BY <2>1, <2>3, <2>6, <2>7, <2>8, EndsMade, ThreeStages
<1> QED
  BY <1>1, <1>2, <1>3, <1>4, <1>5, <1>6

LEMMA LogicMade ==
    ASSUME NEW name \in Names, NEW u, NEW t PROVE WellMade(name, Logic(name, u, t), u, t)
<1>1. CASE name \in {"UserInfo", "Thumbup", "IsThumbup", "Follow", "UnFollow", "FollowList",
                     "FansList", "ArticleList"}
  BY <1>1, ForwardsMade
<1>2. CASE name \in {"Register", "Verification", "Login", "UploadCover", "Publish",
                     "ArticleDetail"}
  BY <1>2, ChecksMade
<1> QED
  BY <1>1, <1>2 DEF Names

--------------------------------------------------------------------------------
(* Calls.                                                                      *)

LEMMA AskFacts ==
    ASSUME NEW a \in Ask
    PROVE  /\ RouteOf[a.path].handler.logic \in Names /\ RouteOf[a.path].jwt \in BOOLEAN
           /\ RouteOf[a.path].jwt => RouteOf[a.path].handler.logic # "Register"
           /\ WellMade(RouteOf[a.path].handler.logic,
                       Logic(RouteOf[a.path].handler.logic, a.user, a.target), a.user, a.target)
           /\ GatewayOf(a.path).clientInterceptor \in BOOLEAN
           /\ GatewayOf(a.path) = Applet <=> GatewayOf(a.path).clientInterceptor
<1>1. a.path \in DOMAIN RouteOf
  BY DEF Ask
<1> QED
  BY <1>1, RouteFacts, LogicMade DEF Proper

LEMMA NoAskIsAsk == NoAsk \in Ask
<1> DEFINE r == Route("/v1/user/info", UserInfoHandler, TRUE)
<1>1. r \in Routes
  BY DEF Routes, AppletRoutes
<1>2. r.path = "/v1/user/info"
  BY DEF Route
<1> HIDE DEF r
<1>3. "/v1/user/info" \in DOMAIN RouteOf
  BY <1>1, <1>2 DEF RouteOf
<1> QED
  BY <1>3 DEF NoAsk, Ask, Form, Nobody

\* A call's stages, and the RPC of one of them.
LEMMA CallFacts ==
    ASSUME Called, NEW c \in Call
    PROVE  /\ asked[c] \in Ask /\ pc[c] \in Phases
           /\ Len(Stages(c)) \in 1 .. 3 /\ stage[c] \in 1 .. Len(Stages(c))
           /\ RouteAsked(c).jwt \in BOOLEAN
           /\ RouteAsked(c).jwt => RouteAsked(c).handler.logic # "Register"
           /\ GatewayOf(asked[c].path).clientInterceptor \in BOOLEAN
           /\ GatewayOf(asked[c].path) = Applet
                <=> GatewayOf(asked[c].path).clientInterceptor
           /\ Errors(Now(c))
           /\ \A n \in 1 .. Len(Stages(c)) : Stages(c)[n].call # NoCall =>
                /\ n < Len(Stages(c)) /\ Final(Stages(c), n)
                /\ Purposeful(RouteAsked(c).handler.logic, Stages(c)[n],
                              asked[c].user, asked[c].target)
<1>1. asked[c] \in Ask /\ pc[c] \in Phases /\ stage[c] \in 1 .. Len(Stages(c))
  BY DEF Called
<1>2. WellMade(RouteAsked(c).handler.logic, Stages(c), asked[c].user, asked[c].target)
  BY <1>1, AskFacts DEF RouteAsked, Stages
<1>3. /\ RouteAsked(c).jwt \in BOOLEAN
      /\ RouteAsked(c).jwt => RouteAsked(c).handler.logic # "Register"
      /\ GatewayOf(asked[c].path).clientInterceptor \in BOOLEAN
      /\ GatewayOf(asked[c].path) = Applet <=> GatewayOf(asked[c].path).clientInterceptor
  BY <1>1, AskFacts DEF RouteAsked
<1> QED
  BY <1>1, <1>2, <1>3 DEF WellMade, Now

LEMMA NowFacts ==
    ASSUME Called, NEW c \in Call, Now(c).call # NoCall
    PROVE  /\ stage[c] + 1 \in 1 .. Len(Stages(c)) /\ Final(Stages(c), stage[c])
           /\ Purposeful(RouteAsked(c).handler.logic, Now(c), asked[c].user, asked[c].target)
           /\ Now(c).call.method \in Methods
           /\ ServiceOf(Now(c).call.method) \in Service
           /\ ServiceOf(Now(c).call.method).serverInterceptor \in BOOLEAN
<1>1. /\ stage[c] < Len(Stages(c)) /\ Final(Stages(c), stage[c])
      /\ Purposeful(RouteAsked(c).handler.logic, Now(c), asked[c].user, asked[c].target)
  BY CallFacts DEF Now
<1>2. Now(c).call.method \in Methods
  BY <1>1 DEF Purposeful
<1>3. stage[c] + 1 \in 1 .. Len(Stages(c))
  BY <1>1, CallFacts
<1> QED
  BY <1>1, <1>2, <1>3, ServiceFacts

\* Two states in which a call is the same.
LEMMA SameCall ==
    ASSUME NEW d, asked'[d] = asked[d], stage'[d] = stage[d]
    PROVE  /\ RouteAsked(d)' = RouteAsked(d) /\ Stages(d)' = Stages(d) /\ Now(d)' = Now(d)
           /\ Job(d)' = Job(d) /\ (Authorized(d)' <=> Authorized(d))
BY DEF RouteAsked, Stages, Now, Job, Authorized

\* The errors and answers of a verdict.
LEMMA ToldAnswers ==
    /\ \A x \in Business : Answer(x) \in Told
    /\ Answer(ServerErr) \in Told /\ Answer(ServiceUnavailable) \in Told /\ Answer(Deadline) \in Told
<1>1. \A x \in Business \cup {ServerErr, ServiceUnavailable, Deadline} : ErrHandler(x) \in Told
  BY DEF Told
<1> QED
  BY <1>1, CheckAnswer, CommonAnswers

LEMMA ReportedAre ==
    ASSUME NEW logic, NEW req
    PROVE  Reported(logic, req) \subseteq {NoError, DeadlineExceeded} \cup Business \cup Internal
BY ResultsAre DEF Reported

LEMMA Verdicts ==
    ASSUME Called, NEW c \in Call, NEW a, NEW e,
           Verdict(GatewayOf(asked[c].path), Now(c), a, e)
    PROVE  a \in Told /\ e \in Causes
<1> DEFINE gateway == GatewayOf(asked[c].path)
<1>0. Errors(Now(c)) /\ gateway.clientInterceptor \in BOOLEAN
  BY CallFacts
<1> HIDE DEF gateway
<1>1. CASE a \in {NotAuthorized, OkJson} /\ e = NoError
  BY <1>1 DEF Told, Causes
<1>2. CASE e \in {ParseError} \cup Now(c).errors /\ a = ErrHandler(e)
  <2>1. e \in Business \cup Internal
    BY <1>0, <1>2 DEF Errors, Internal
  <2> QED
    BY <1>2, <2>1, CheckAnswer, ToldAnswers DEF Causes
<1>3. CASE e \in Lost /\ a = ErrHandler(Passed(gateway, e))
  BY <1>0, <1>3, LostAnswer, ToldAnswers DEF Causes
<1>4. CASE /\ Now(c).call # NoCall
           /\ e \in Reported(LogicOf(Now(c).call.method), Now(c).call) \ {NoError}
           /\ a = ErrHandler(Passed(gateway, Sent(ServiceOf(Now(c).call.method), e)))
  <2>1. ServiceOf(Now(c).call.method).serverInterceptor \in BOOLEAN
    BY <1>4, NowFacts
  <2>2. e \in {DeadlineExceeded} \cup Business \cup Internal
    BY <1>4, ReportedAre
  <2>3. (a = Answer(e) /\ e \in Business) \/ a \in {Answer(Deadline), Answer(ServerErr)}
    BY <1>0, <1>4, <2>1, <2>2, ServiceAnswer
  <2> QED
    BY <2>2, <2>3, ToldAnswers DEF Causes
<1> QED
  BY <1>1, <1>2, <1>3, <1>4 DEF Verdict, gateway

--------------------------------------------------------------------------------
(* The inductive invariant.                                                    *)

LEMMA InitInv == Init => IInv
<1> SUFFICES ASSUME Init PROVE IInv
  OBVIOUS
<1>1. Called
  <2>1. \A c \in Call : Len(Stages(c)) \in 1 .. 3
    <3> TAKE c \in Call
    <3>1. asked[c] \in Ask
      BY NoAskIsAsk DEF Init
    <3> QED
      BY <3>1, AskFacts DEF Stages, RouteAsked, WellMade
  <2>2. /\ mode \in Modes /\ asked \in [Call -> Ask] /\ pc \in [Call -> Phases]
        /\ stage \in [Call -> Nat]
    BY NoAskIsAsk DEF Init, Phases
  <2>3. \A c \in Call : asked[c] = NoAsk /\ pc[c] = "new" /\ stage[c] = 1
    BY DEF Init
  <2>4. \A c \in Call : asked[c] \in Asks[c] \cup {NoAsk}
    BY <2>3
  <2>5. ASSUME NEW c \in Call
        PROVE  /\ stage[c] \in 1 .. Len(Stages(c)) /\ (pc[c] = "new" => stage[c] = 1)
               /\ pc[c] = "wait" => Now(c).call # NoCall
               /\ pc[c] \in {"parse", "logic", "wait"} => Authorized(c)
    BY <2>1, <2>3
  <2> QED
    BY <2>2, <2>4, <2>5 DEF Called
<1>2. Judged
  BY DEF Init, Judged, Told, Causes
<1>3. JobsSound /\ ServedSound /\ RepliesSound
  BY DEF Init, JobsSound, ServedSound, RepliesSound
<1>4. Progressed
  BY DEF Init, Progressed
<1>5. Untouched
  BY DEF Init, Untouched
<1> QED
  BY <1>1, <1>2, <1>3, <1>4, <1>5 DEF IInv

\* A call ends, in whatever way.
Ended(c, a, e) ==
    /\ pc[c] \in {"parse", "logic", "wait"}
    /\ Verdict(GatewayOf(asked[c].path), Now(c), a, e)
    /\ IsXCode(e) => /\ \A s \in served : s.call = c => ~s.changed
                     /\ \A j \in jobs : j.call # c
    /\ UNCHANGED <<mode, asked, stage, jobs, served>>
    /\ pc' = [pc EXCEPT ![c] = "answered"]
    /\ answer' = [answer EXCEPT ![c] = a] /\ cause' = [cause EXCEPT ![c] = e]
    /\ replies' = {r \in replies : r.call # c}

LEMMA Ending == ASSUME IInv, NEW c \in Call, NEW a, NEW e, Ended(c, a, e) PROVE IInv'
<1>0. /\ pc[c] \in {"parse", "logic", "wait"}
      /\ Verdict(GatewayOf(asked[c].path), Now(c), a, e)
      /\ IsXCode(e) => /\ \A s \in served : s.call = c => ~s.changed
                       /\ \A j \in jobs : j.call # c
      /\ UNCHANGED <<mode, asked, stage, jobs, served>>
      /\ pc' = [pc EXCEPT ![c] = "answered"]
      /\ answer' = [answer EXCEPT ![c] = a] /\ cause' = [cause EXCEPT ![c] = e]
      /\ replies' = {r \in replies : r.call # c}
  BY DEF Ended
<1>1. /\ Called /\ Judged /\ JobsSound /\ ServedSound /\ RepliesSound /\ Progressed /\ Untouched
  BY DEF IInv
<1>2. \A d \in Call : /\ Stages(d)' = Stages(d) /\ Now(d)' = Now(d) /\ Job(d)' = Job(d)
                      /\ (Authorized(d)' <=> Authorized(d))
  BY <1>0, SameCall
<1>3. /\ pc' \in [Call -> Phases] /\ pc'[c] = "answered"
      /\ \A d \in Call : d # c => pc'[d] = pc[d]
  BY <1>0, <1>1 DEF Called, Phases
<1>4. /\ answer' \in [Call -> Told] /\ cause' \in [Call -> Causes]
      /\ answer'[c] = a /\ cause'[c] = e
      /\ \A d \in Call : d # c => answer'[d] = answer[d] /\ cause'[d] = cause[d]
  <2>1. a \in Told /\ e \in Causes
    BY <1>0, <1>1, Verdicts
  <2>2. answer \in [Call -> Told] /\ cause \in [Call -> Causes]
    BY <1>1 DEF Judged
  <2> QED
    BY <1>0, <2>1, <2>2
<1>5. Called'
  <2> USE <1>0, <1>1
  <2>1. /\ mode' \in Modes /\ asked' \in [Call -> Ask]
        /\ \A d \in Call : asked'[d] \in Asks[d] \cup {NoAsk}
        /\ stage' \in [Call -> Nat]
    BY DEF Called
  <2>2. ASSUME NEW d \in Call
        PROVE  /\ stage'[d] \in 1 .. Len(Stages(d)') /\ (pc'[d] = "new" => stage'[d] = 1)
               /\ pc'[d] = "wait" => Now(d)'.call # NoCall
               /\ pc'[d] \in {"parse", "logic", "wait"} => Authorized(d)'
    BY <1>2, <1>3 DEF Called
  <2> QED
    BY <1>3, <2>1, <2>2 DEF Called
<1>6. Judged'
  <2>1. ASSUME NEW d \in Call
        PROVE  IF pc'[d] = "answered"
               THEN Verdict(GatewayOf(asked'[d].path), Now(d)', answer'[d], cause'[d])
               ELSE cause'[d] = NoError
    BY <1>0, <1>1, <1>2, <1>3, <1>4 DEF Judged
  <2> QED
    BY <1>4, <2>1 DEF Judged
<1>7. JobsSound'
  BY <1>0, <1>1, <1>2, <1>3 DEF JobsSound
<1>8. ServedSound'
  BY <1>0, <1>1, <1>2, <1>3 DEF ServedSound
<1>9. RepliesSound'
  BY <1>0, <1>1, <1>3 DEF RepliesSound
<1>10. Progressed'
  BY <1>0, <1>1 DEF Progressed
<1>11. Untouched'
  BY <1>0, <1>1, <1>3, <1>4 DEF Untouched
<1> QED
  BY <1>5, <1>6, <1>7, <1>8, <1>9, <1>10, <1>11 DEF IInv

\* Every step that ends a call.
LEMMA NothingPending ==
    ASSUME IInv, NEW c \in Call, pc[c] \in {"new", "parse", "logic"}
    PROVE  /\ \A j \in jobs : j.call # c
           /\ replies = {r \in replies : r.call # c}
           /\ \A s \in served : s.call = c => pc[c] = "logic" /\ s.stage < stage[c]
           /\ cause[c] = NoError
<1>1. \A j \in jobs : j.call # c
  BY DEF IInv, JobsSound
<1>2. \A r \in replies : r.call # c
  BY DEF IInv, RepliesSound
<1>3. \A s \in served : s.call = c => pc[c] = "logic" /\ s.stage < stage[c]
  BY DEF IInv, ServedSound
<1>4. cause[c] = NoError
  BY DEF IInv, Judged
<1> QED
  BY <1>1, <1>2, <1>3, <1>4

\* Before a stage that has a check or an RPC nothing was changed.
LEMMA NothingChanged ==
    ASSUME IInv, NEW c \in Call, Now(c).errors # {} \/ Now(c).call # NoCall
    PROVE  \A s \in served : s.call = c /\ s.stage < stage[c] => ~s.changed
<1> SUFFICES ASSUME NEW s \in served, s.call = c, s.stage < stage[c], s.changed PROVE FALSE
  OBVIOUS
<1>0. Called /\ ServedSound
  BY DEF IInv
<1>1. /\ s.stage \in 1 .. stage[c] /\ s.req = Stages(c)[s.stage].call /\ s.req # NoCall
      /\ s.logic = LogicOf(s.req.method) /\ s.logic \in Writing
  BY <1>0 DEF ServedSound
<1>2. /\ s.stage \in 1 .. Len(Stages(c)) /\ stage[c] \in 1 .. Len(Stages(c))
      /\ Len(Stages(c)) \in 1 .. 3
  BY <1>0, <1>1, CallFacts
<1>3. Final(Stages(c), s.stage)
  BY <1>0, <1>1, <1>2, CallFacts
<1>4. s.stage + 1 = Len(Stages(c)) /\ Stages(c)[s.stage + 1].errors = {}
  BY <1>1, <1>3 DEF Final
<1>5. stage[c] = Len(Stages(c)) /\ Now(c).errors = {}
  BY <1>2, <1>4 DEF Now
<1> QED
  BY <1>0, <1>2, <1>5, NowFacts

LEMMA CodesOf ==
    /\ ~IsXCode(NoError) /\ ~IsXCode(DeadlineExceeded)
    /\ \A e \in Internal \cup Lost : ~IsXCode(e)
    /\ \A e \in Business : IsXCode(e) /\ e.code \in Nat \ {0}
<1>1. ~IsXCode(NoError) /\ ~IsXCode(DeadlineExceeded)
  BY DEF NoError, DeadlineExceeded, IsXCode
<1>2. \A e \in Internal : ~IsXCode(e)
  BY InternalParts DEF Plain, IsXCode
<1>3. \A e \in Lost : ~IsXCode(e)
  <2> TAKE e \in Lost
  <2>1. PICK code \in LostCodes, w \in Reasons : e = Status(code, Word(w))
    BY DEF Lost, Status
  <2>2. e.kind = "grpc"
    BY <2>1, ClientStatus DEF LostCodes
  <2> QED
    BY <2>2 DEF IsXCode
<1>4. \A e \in Business : IsXCode(e) /\ e.code \in Nat \ {0}
  BY BusinessParts DEF IsXCode
<1> QED
  BY <1>1, <1>2, <1>3, <1>4

LEMMA ParseInv ==
    ASSUME IInv, NEW c \in Call, Parse(c), asked[c].form \notin RouteAsked(c).handler.accepts
    PROVE  IInv'
<1>1. /\ pc[c] = "parse" /\ Reject(c, ParseError, ParseError) /\ Services /\ Fixed
  BY DEF Parse
<1>2. Verdict(GatewayOf(asked[c].path), Now(c), ErrHandler(ParseError), ParseError)
  BY DEF Verdict
<1>3. \A j \in jobs : j.call # c
  BY <1>1, NothingPending
<1>4. \A s \in served : s.call # c
  BY <1>1, NothingPending
<1>5. replies' = {r \in replies : r.call # c}
  BY <1>1, NothingPending DEF Services
<1>6. Ended(c, ErrHandler(ParseError), ParseError)
  BY <1>1, <1>2, <1>3, <1>4, <1>5 DEF Ended, Reject, Services, Fixed, Goto
<1> QED
  BY <1>6, Ending

LEMMA CheckInv == ASSUME IInv, NEW c \in Call, Check(c) PROVE IInv'
<1>1. pc[c] = "logic" /\ Services /\ Fixed
  BY DEF Check
<1>2. PICK err \in Now(c).errors : Reject(c, err, err)
  BY DEF Check
<1>3. Verdict(GatewayOf(asked[c].path), Now(c), ErrHandler(err), err)
  BY DEF Verdict
<1>4. \A j \in jobs : j.call # c
  BY <1>1, NothingPending
<1>5. \A s \in served : s.call = c => ~s.changed
  BY <1>1, NothingPending, NothingChanged
<1>6. replies' = {r \in replies : r.call # c}
  BY <1>1, NothingPending DEF Services
<1>7. Ended(c, ErrHandler(err), err)
  BY <1>1, <1>2, <1>3, <1>4, <1>5, <1>6 DEF Ended, Reject, Services, Fixed, Goto
<1> QED
  BY <1>7, Ending

LEMMA FinishInv == ASSUME IInv, NEW c \in Call, Finish(c) PROVE IInv'
<1>1. pc[c] = "logic" /\ Accept(c) /\ Services /\ Fixed
  BY DEF Finish
<1>2. Verdict(GatewayOf(asked[c].path), Now(c), OkJson, NoError)
  BY DEF Verdict
<1>3. replies' = {r \in replies : r.call # c}
  BY <1>1, NothingPending DEF Services
<1>4. cause' = [cause EXCEPT ![c] = NoError]
  <2>1. cause \in [Call -> Causes]
    BY DEF IInv, Judged
  <2> QED
    BY <1>1, <2>1, NothingPending DEF Accept
<1>5. Ended(c, OkJson, NoError)
  BY <1>1, <1>2, <1>3, <1>4, CodesOf DEF Ended, Accept, Services, Fixed, Goto
<1> QED
  BY <1>5, Ending

\* An error that the network makes.
LEMMA LostIs ==
    ASSUME NEW code \in LostCodes, NEW w \in Reasons PROVE Err(Grpc(code, Word(w), <<>>)) \in Lost
BY DEF Lost

LEMMA UnreachableInv == ASSUME IInv, NEW c \in Call, Unreachable(c) PROVE IInv'
<1> DEFINE e == Err(Grpc("Unavailable", Word("connection refused"), <<>>))
<1>1. pc[c] = "logic" /\ Now(c).call # NoCall /\ Failed(c, e) /\ Services /\ Fixed
  BY DEF Unreachable
<1>2. e \in Lost
  BY LostIs DEF LostCodes, Reasons
<1> HIDE DEF e
<1>3. Verdict(GatewayOf(asked[c].path), Now(c), ErrHandler(Returned(c, e)), e)
  BY <1>1, <1>2 DEF Verdict, Returned, Passed
<1>4. replies' = {r \in replies : r.call # c}
  BY <1>1, NothingPending DEF Services
<1>5. ~IsXCode(e)
  BY <1>2, CodesOf
<1>6. Ended(c, ErrHandler(Returned(c, e)), e)
  BY <1>1, <1>3, <1>4, <1>5 DEF Ended, Failed, Reject, Services, Fixed, Goto
<1> QED
  BY <1>6, Ending

LEMMA GiveUpInv == ASSUME IInv, NEW c \in Call, GiveUp(c) PROVE IInv'
<1>1. /\ pc[c] = "wait" /\ replies' = {r \in replies : r.call # c}
      /\ UNCHANGED <<jobs, served>> /\ Fixed
  BY DEF GiveUp
<1>2. PICK code \in LostCodes : Failed(c, Err(Grpc(code, Word(code), <<>>)))
  BY DEF GiveUp, LostCodes
<1> DEFINE e == Err(Grpc(code, Word(code), <<>>))
<1>3. e \in Lost
  BY LostIs DEF LostCodes, Reasons
<1>4. Failed(c, e)
  BY <1>2
<1> HIDE DEF e
<1>5. Now(c).call # NoCall
  BY <1>1 DEF IInv, Called
<1>6. Verdict(GatewayOf(asked[c].path), Now(c), ErrHandler(Returned(c, e)), e)
  BY <1>3, <1>5 DEF Verdict, Returned, Passed
<1>7. ~IsXCode(e)
  BY <1>3, CodesOf
<1>8. Ended(c, ErrHandler(Returned(c, e)), e)
  BY <1>1, <1>4, <1>6, <1>7 DEF Ended, Failed, Reject, Fixed, Goto
<1> QED
  BY <1>8, Ending

\* A call passes the middleware and the parser, or is turned away without a token.
LEMMA AuthorizeInv == ASSUME IInv, NEW c \in Call, Authorize(c) PROVE IInv'
<1>0. /\ Called /\ Judged /\ JobsSound /\ ServedSound /\ RepliesSound /\ Progressed /\ Untouched
  BY DEF IInv
<1>1. pc[c] = "new" /\ UNCHANGED <<mode, stage, cause, jobs, replies, served>>
  BY DEF Authorize, Services
<1>2. PICK ask \in Asks[c] :
        /\ asked' = [asked EXCEPT ![c] = ask]
        /\ IF RouteOf[ask.path].jwt /\ ask.user = Nobody
           THEN Goto(c, "answered") /\ answer' = [answer EXCEPT ![c] = NotAuthorized]
           ELSE Goto(c, "parse") /\ UNCHANGED answer
  BY DEF Authorize
<1>3. asked \in [Call -> Ask] /\ ask \in Ask
  BY <1>0 DEF Called
<1>4. /\ asked' \in [Call -> Ask] /\ asked'[c] = ask
      /\ \A d \in Call : d # c => asked'[d] = asked[d]
  BY <1>2, <1>3
<1>5. /\ pc' \in [Call -> Phases] /\ pc'[c] \in {"answered", "parse"}
      /\ \A d \in Call : d # c => pc'[d] = pc[d]
      /\ pc'[c] = "parse" => ~(RouteOf[ask.path].jwt /\ ask.user = Nobody)
  <2>1. pc \in [Call -> Phases] /\ {"answered", "parse"} \subseteq Phases
    BY <1>0 DEF Called, Phases
  <2>2. CASE RouteOf[ask.path].jwt /\ ask.user = Nobody
    BY <1>2, <2>1, <2>2 DEF Goto
  <2>3. CASE ~(RouteOf[ask.path].jwt /\ ask.user = Nobody)
    BY <1>2, <2>1, <2>3 DEF Goto
  <2> QED
    BY <2>2, <2>3
<1>6. /\ answer' \in [Call -> Told] /\ (pc'[c] = "answered" => answer'[c] = NotAuthorized)
      /\ \A d \in Call : d # c => answer'[d] = answer[d]
  <2>1. answer \in [Call -> Told] /\ NotAuthorized \in Told /\ pc \in [Call -> Phases]
    BY <1>0 DEF Judged, Told, Called
  <2>2. CASE RouteOf[ask.path].jwt /\ ask.user = Nobody
    BY <1>2, <2>1, <2>2
  <2>3. CASE ~(RouteOf[ask.path].jwt /\ ask.user = Nobody)
    BY <1>2, <2>1, <2>3 DEF Goto
  <2> QED
    BY <2>2, <2>3
<1>7. \A d \in Call : d # c =>
        /\ Stages(d)' = Stages(d) /\ Now(d)' = Now(d) /\ Job(d)' = Job(d)
        /\ (Authorized(d)' <=> Authorized(d))
  BY <1>1, <1>4, SameCall
<1>8. /\ \A j \in jobs : j.call # c
      /\ \A r \in replies : r.call # c
      /\ \A s \in served : s.call # c
      /\ cause[c] = NoError
  BY <1>0, <1>1, NothingPending DEF RepliesSound
<1>9. Called'
  <2>1. mode' \in Modes /\ stage' \in [Call -> Nat]
    BY <1>0, <1>1 DEF Called
  <2>2. \A d \in Call : asked'[d] \in Asks[d] \cup {NoAsk}
    BY <1>0, <1>2, <1>4 DEF Called
  <2>3. ASSUME NEW d \in Call
        PROVE  /\ stage'[d] \in 1 .. Len(Stages(d)') /\ (pc'[d] = "new" => stage'[d] = 1)
               /\ pc'[d] = "wait" => Now(d)'.call # NoCall
               /\ pc'[d] \in {"parse", "logic", "wait"} => Authorized(d)'
    <3>1. CASE d = c
      <4>1. Len(Stages(c)') \in 1 .. 3
        BY <1>3, <1>4, AskFacts DEF Stages, RouteAsked, WellMade
      <4>2. stage'[c] = 1
        BY <1>0, <1>1 DEF Called
      <4>3. pc'[c] = "parse" => Authorized(c)'
        BY <1>4, <1>5 DEF Authorized, RouteAsked
      <4> QED
        BY <1>5, <3>1, <4>1, <4>2, <4>3
    <3>2. CASE d # c
      BY <1>0, <1>1, <1>5, <1>7, <3>2 DEF Called
    <3> QED
      BY <3>1, <3>2
  <2> QED
    BY <1>4, <1>5, <2>1, <2>2, <2>3 DEF Called
<1>10. Judged'
  <2>1. ASSUME NEW d \in Call
        PROVE  IF pc'[d] = "answered"
               THEN Verdict(GatewayOf(asked'[d].path), Now(d)', answer'[d], cause'[d])
               ELSE cause'[d] = NoError
    <3>1. CASE d = c
      BY <1>1, <1>6, <1>8, <3>1 DEF Verdict
    <3>2. CASE d # c
      BY <1>0, <1>1, <1>4, <1>5, <1>6, <1>7, <3>2 DEF Judged
    <3> QED
      BY <3>1, <3>2
  <2> QED
    BY <1>0, <1>1, <1>6, <2>1 DEF Judged
<1>11. JobsSound'
  BY <1>0, <1>1, <1>5, <1>7, <1>8 DEF JobsSound
<1>12. ServedSound'
  BY <1>0, <1>1, <1>5, <1>7, <1>8 DEF ServedSound
<1>13. RepliesSound'
  BY <1>0, <1>1, <1>5, <1>8 DEF RepliesSound
<1>14. Progressed'
  BY <1>0, <1>1 DEF Progressed
<1>15. Untouched'
  BY <1>0, <1>1, <1>5, <1>8, CodesOf DEF Untouched
<1> QED
  BY <1>9, <1>10, <1>11, <1>12, <1>13, <1>14, <1>15 DEF IInv

\* A call goes on to its logic, or to wait for its RPC.
LEMMA OnwardInv ==
    ASSUME IInv, NEW c \in Call, NEW phase \in {"logic", "wait"},
           phase = "logic" => pc[c] = "parse" /\ jobs' = jobs,
           phase = "wait" => pc[c] = "logic" /\ Now(c).call # NoCall /\ jobs' = jobs \cup {Job(c)},
           Goto(c, phase),
           UNCHANGED <<mode, asked, stage, answer, cause, replies, served>>
    PROVE  IInv'
<1>0. /\ Called /\ Judged /\ JobsSound /\ ServedSound /\ RepliesSound /\ Progressed /\ Untouched
  BY DEF IInv
<1>1. /\ pc' \in [Call -> Phases] /\ pc'[c] = phase
      /\ \A d \in Call : d # c => pc'[d] = pc[d]
  BY <1>0 DEF Called, Phases, Goto
<1>2. \A d \in Call : /\ Stages(d)' = Stages(d) /\ Now(d)' = Now(d) /\ Job(d)' = Job(d)
                      /\ (Authorized(d)' <=> Authorized(d))
  BY SameCall
<1>3. /\ \A j \in jobs : j.call # c
      /\ \A r \in replies : r.call # c
      /\ \A s \in served : s.call = c => pc[c] = "logic" /\ s.stage < stage[c]
      /\ cause[c] = NoError
  BY <1>0, NothingPending DEF RepliesSound
<1>4. Called'
  <2>1. /\ mode' \in Modes /\ asked' \in [Call -> Ask] /\ stage' \in [Call -> Nat]
        /\ \A d \in Call : asked'[d] \in Asks[d] \cup {NoAsk}
    BY <1>0 DEF Called
  <2>2. ASSUME NEW d \in Call
        PROVE  /\ stage'[d] \in 1 .. Len(Stages(d)') /\ (pc'[d] = "new" => stage'[d] = 1)
               /\ pc'[d] = "wait" => Now(d)'.call # NoCall
               /\ pc'[d] \in {"parse", "logic", "wait"} => Authorized(d)'
    BY <1>0, <1>1, <1>2 DEF Called
  <2> QED
    BY <1>1, <2>1, <2>2 DEF Called
<1>5. Judged'
  <2>1. ASSUME NEW d \in Call
        PROVE  IF pc'[d] = "answered"
               THEN Verdict(GatewayOf(asked'[d].path), Now(d)', answer'[d], cause'[d])
               ELSE cause'[d] = NoError
    BY <1>0, <1>1, <1>2, <1>3 DEF Judged
  <2> QED
    BY <1>0, <2>1 DEF Judged
<1>6. JobsSound'
  <2>1. ASSUME NEW j \in jobs'
        PROVE  /\ j.call \in Call /\ j = Job(j.call)' /\ Now(j.call)'.call # NoCall
               /\ pc'[j.call] \in {"wait", "answered"} /\ Authorized(j.call)'
               /\ \A s \in served : s.call = j.call => s.stage < j.stage
    <3>1. CASE j \in jobs
      BY <1>0, <1>1, <1>2, <1>3, <3>1 DEF JobsSound
    <3>2. CASE j \notin jobs
      <4>1. phase = "wait" /\ j = Job(c) /\ pc[c] = "logic" /\ Now(c).call # NoCall
        BY <3>2
      <4>2. j.call = c /\ j.stage = stage[c]
        BY <4>1 DEF Job
      <4>3. Authorized(c)
        BY <1>0, <4>1 DEF Called
      <4> QED
        BY <1>1, <1>2, <1>3, <4>1, <4>2, <4>3
    <3> QED
      BY <3>1, <3>2
  <2> QED
    BY <2>1 DEF JobsSound
<1>7. ServedSound'
  BY <1>0, <1>1, <1>2, <1>3 DEF ServedSound
<1>8. RepliesSound'
  <2>1. \A j \in jobs' : j \in jobs \/ j.call = c
    BY DEF Job
  <2> QED
    BY <1>0, <1>1, <1>3, <2>1 DEF RepliesSound
<1>9. Progressed'
  BY <1>0 DEF Progressed
<1>10. Untouched'
  <2>1. \A j \in jobs' : j \in jobs \/ j.call = c
    BY DEF Job
  <2> QED
    BY <1>0, <1>1, <2>1 DEF Untouched
<1> QED
  BY <1>4, <1>5, <1>6, <1>7, <1>8, <1>9, <1>10 DEF IInv

\* What a service enters for a request it is given.
Entry(j, s) ==
    /\ s.call = j.call /\ s.stage = j.stage /\ s.req = j.req /\ s.logic = LogicOf(j.req.method)
    /\ s.err \in Reported(s.logic, s.req)
    /\ s.changed => s.logic \in Writing /\ ~IsXCode(s.err)

\* Requests leave a service, and it has entered some of them.
Leaving(gone, entries) ==
    /\ gone \subseteq jobs /\ jobs' = jobs \ gone /\ served' = served \cup entries
    /\ \A s \in entries : \E j \in gone : Entry(j, s)
    /\ \A s, t \in entries : s.call = t.call => s = t
    /\ UNCHANGED <<mode, asked, pc, stage, answer, cause>>

LEMMA LeavingInv ==
    ASSUME IInv, NEW gone, NEW entries, Leaving(gone, entries)
    PROVE  /\ Called' /\ Judged' /\ JobsSound' /\ ServedSound' /\ Progressed' /\ Untouched'
           /\ \A j \in jobs' : j \in jobs /\ \A k \in gone : k.call # j.call
<1>0. /\ Called /\ Judged /\ JobsSound /\ ServedSound /\ RepliesSound /\ Progressed /\ Untouched
  BY DEF IInv
<1>1. /\ gone \subseteq jobs /\ jobs' = jobs \ gone /\ served' = served \cup entries
      /\ \A s \in entries : \E j \in gone : Entry(j, s)
      /\ \A s, t \in entries : s.call = t.call => s = t
      /\ UNCHANGED <<mode, asked, pc, stage, answer, cause>>
  BY DEF Leaving
<1>2. \A d \in Call : /\ Stages(d)' = Stages(d) /\ Now(d)' = Now(d) /\ Job(d)' = Job(d)
                      /\ (Authorized(d)' <=> Authorized(d))
  BY <1>1, SameCall
<1>3. \A j, k \in jobs : j.call = k.call => j = k
  BY <1>0 DEF JobsSound
<1>4. \A j \in jobs' : j \in jobs /\ \A k \in gone : k.call # j.call
  BY <1>1, <1>3
<1>5. ASSUME NEW s \in entries
      PROVE  /\ s.call \in Call /\ s.stage = stage[s.call] /\ Authorized(s.call)
             /\ pc[s.call] \in {"wait", "answered"}
             /\ s.req = Now(s.call).call /\ s.req # NoCall
             /\ s.logic = LogicOf(s.req.method)
             /\ s.err \in Reported(s.logic, s.req)
             /\ s.changed => s.logic \in Writing /\ ~IsXCode(s.err)
             /\ \A t \in served : t.call = s.call => t.stage < s.stage
             /\ \E j \in gone : j.call = s.call
  <2>1. PICK j \in gone : Entry(j, s)
    BY <1>1
  <2>2. /\ s.call = j.call /\ s.stage = j.stage /\ s.req = j.req
        /\ s.logic = LogicOf(s.req.method)
        /\ s.err \in Reported(s.logic, s.req)
        /\ s.changed => s.logic \in Writing /\ ~IsXCode(s.err)
    BY <2>1 DEF Entry
  <2>3. /\ j.call \in Call /\ j = Job(j.call) /\ Now(j.call).call # NoCall
        /\ pc[j.call] \in {"wait", "answered"} /\ Authorized(j.call)
        /\ \A t \in served : t.call = j.call => t.stage < j.stage
    BY <1>0, <1>1 DEF JobsSound
  <2>4. j.stage = stage[j.call] /\ j.req = Now(j.call).call
    BY <2>3 DEF Job
  <2> QED
    BY <2>2, <2>3, <2>4
<1>6. Called'
  <2>1. /\ mode' \in Modes /\ asked' \in [Call -> Ask] /\ stage' \in [Call -> Nat]
        /\ pc' \in [Call -> Phases]
        /\ \A d \in Call : asked'[d] \in Asks[d] \cup {NoAsk}
    BY <1>0, <1>1 DEF Called
  <2>2. ASSUME NEW d \in Call
        PROVE  /\ stage'[d] \in 1 .. Len(Stages(d)') /\ (pc'[d] = "new" => stage'[d] = 1)
               /\ pc'[d] = "wait" => Now(d)'.call # NoCall
               /\ pc'[d] \in {"parse", "logic", "wait"} => Authorized(d)'
    BY <1>0, <1>1, <1>2 DEF Called
  <2> QED
    BY <2>1, <2>2 DEF Called
<1>7. Judged'
  <2>1. ASSUME NEW d \in Call
        PROVE  IF pc'[d] = "answered"
               THEN Verdict(GatewayOf(asked'[d].path), Now(d)', answer'[d], cause'[d])
               ELSE cause'[d] = NoError
    BY <1>0, <1>1, <1>2 DEF Judged
  <2> QED
    BY <1>0, <1>1, <2>1 DEF Judged
<1>8. JobsSound'
  <2>1. ASSUME NEW j \in jobs'
        PROVE  /\ j.call \in Call /\ j = Job(j.call)' /\ Now(j.call)'.call # NoCall
               /\ pc'[j.call] \in {"wait", "answered"} /\ Authorized(j.call)'
               /\ \A s \in served' : s.call = j.call => s.stage < j.stage
    <3>1. \A s \in entries : s.call # j.call
      BY <1>4, <1>5
    <3> QED
      BY <1>0, <1>1, <1>2, <1>4, <3>1 DEF JobsSound
  <2> QED
    BY <2>1 DEF JobsSound
<1>9. ServedSound'
  <2>1. ASSUME NEW s \in served'
        PROVE  /\ s.call \in Call /\ s.stage \in 1 .. stage'[s.call] /\ Authorized(s.call)'
               /\ pc'[s.call] \in {"logic", "wait", "answered"}
               /\ pc'[s.call] = "logic" => s.stage < stage'[s.call]
               /\ s.req = Stages(s.call)'[s.stage].call /\ s.req # NoCall
               /\ s.logic = LogicOf(s.req.method)
               /\ s.err \in Reported(s.logic, s.req)
               /\ s.changed => s.logic \in Writing /\ ~IsXCode(s.err)
    <3>1. CASE s \in served
      BY <1>0, <1>1, <1>2, <3>1 DEF ServedSound
    <3>2. CASE s \in entries
      <4>1. s.stage \in 1 .. stage[s.call]
        BY <1>0, <1>5, <3>2 DEF Called
      <4>2. s.req = Stages(s.call)[s.stage].call
        BY <1>5, <3>2 DEF Now
      <4> QED
        BY <1>1, <1>2, <1>5, <3>2, <4>1, <4>2
    <3> QED
      BY <1>1, <3>1, <3>2
  <2>2. ASSUME NEW s \in served', NEW t \in served', s.call = t.call, s.stage = t.stage
        PROVE  s = t
    <3>1. \A e \in entries : \A o \in served : o.call = e.call => o.stage # e.stage
      <4> TAKE e \in entries
      <4> TAKE o \in served
      <4>1. o.call = e.call => o.stage < e.stage
        BY <1>5
      <4>2. e.stage \in Nat
        BY <1>0, <1>5 DEF Called
      <4>3. o.call \in Call /\ o.stage \in 1 .. stage[o.call] /\ stage[o.call] \in Nat
        BY <1>0 DEF ServedSound, Called
      <4> QED
        BY <4>1, <4>2, <4>3
    <3>2. s \in entries /\ t \in entries => s = t
      BY <1>1, <2>2
    <3>3. s \in served /\ t \in served => s = t
      BY <1>0, <2>2 DEF ServedSound
    <3> QED
      BY <1>1, <2>2, <3>1, <3>2, <3>3
  <2> QED
    BY <2>1, <2>2 DEF ServedSound
<1>10. Progressed'
  BY <1>0, <1>1 DEF Progressed
<1>11. Untouched'
  <2>1. ASSUME NEW d \in Call, pc'[d] = "answered", IsXCode(cause'[d])
        PROVE  /\ \A s \in served' : s.call = d => ~s.changed
               /\ \A j \in jobs' : j.call # d
    <3>1. /\ \A s \in served : s.call = d => ~s.changed
          /\ \A j \in jobs : j.call # d
      BY <1>0, <1>1, <2>1 DEF Untouched
    <3>2. \A s \in entries : s.call # d
      BY <1>1, <1>5, <3>1
    <3> QED
      BY <1>1, <3>1, <3>2
  <2> QED
    BY <2>1 DEF Untouched
<1> QED
  BY <1>4, <1>6, <1>7, <1>8, <1>9, <1>10, <1>11

LEMMA ServeInv == ASSUME IInv, NEW j \in jobs, Serve(j) PROVE IInv'
<1>0. RepliesSound /\ JobsSound /\ Called
  BY DEF IInv
<1> DEFINE logic == LogicOf(j.req.method)
<1>1. PICK o \in Possible(logic, j.req) :
        /\ served' = served \cup {[call |-> j.call, stage |-> j.stage, logic |-> logic,
                                   req |-> j.req, err |-> o.err, changed |-> o.changed]}
        /\ replies' = IF pc[j.call] = "wait" /\ stage[j.call] = j.stage
                      THEN replies \cup {[call |-> j.call, sent |-> o.err,
                                err |-> Sent(ServiceOf(j.req.method), o.err)]}
                      ELSE replies
  BY DEF Serve
<1>2. jobs' = jobs \ {j} /\ UNCHANGED <<mode, asked, pc, stage, answer, cause>>
  BY DEF Serve, Fixed
<1>3. /\ o.err \in Reported(logic, j.req)
      /\ o.changed => logic \in Writing /\ ~IsXCode(o.err)
  <2>1. CASE o \in Outcomes(logic, j.req) /\ (o.changed => o.err = NoError)
    <3>1. o.err \in Results(logic, j.req) /\ (o.changed => logic \in Writing)
      BY <2>1 DEF Outcomes
    <3> QED
      BY <2>1, <3>1, CodesOf DEF Reported
  <2>2. CASE o \in Faults(logic)
    <3>1. o.err \in {Plain(Word("sql")), DeadlineExceeded} /\ (o.changed => logic \in Writing)
      BY <2>2 DEF Faults
    <3>2. Plain(Word("sql")) \in Internal
      BY DEF Internal
    <3> QED
      BY <3>1, <3>2, CodesOf DEF Reported
  <2> QED
    BY <2>1, <2>2 DEF Possible
<1> HIDE DEF logic
<1> DEFINE s == [call |-> j.call, stage |-> j.stage, logic |-> logic,
                 req |-> j.req, err |-> o.err, changed |-> o.changed]
<1>4. /\ s.call = j.call /\ s.stage = j.stage /\ s.req = j.req /\ s.logic = logic
      /\ s.err = o.err /\ (s.changed <=> o.changed)
  OBVIOUS
<1>5. served' = served \cup {s}
  BY <1>1
<1> HIDE DEF s
<1>6. Entry(j, s)
  BY <1>3, <1>4 DEF Entry, logic
<1>7. Leaving({j}, {s})
  BY <1>2, <1>5, <1>6 DEF Leaving
<1>8. /\ Called' /\ Judged' /\ JobsSound' /\ ServedSound' /\ Progressed' /\ Untouched'
      /\ \A k \in jobs' : k \in jobs /\ k.call # j.call
  BY <1>7, LeavingInv
<1>9. RepliesSound'
  <2>1. ASSUME NEW r \in replies'
        PROVE  /\ r.call \in Call /\ pc'[r.call] = "wait" /\ \A k \in jobs' : k.call # r.call
               /\ \E t \in served' : t.call = r.call /\ t.stage = stage'[r.call] /\ r = Reply(t)
    <3>1. CASE r \in replies
      BY <1>0, <1>2, <1>5, <1>8, <3>1 DEF RepliesSound
    <3>2. CASE r \notin replies
      <4>1. /\ pc[j.call] = "wait" /\ stage[j.call] = j.stage
            /\ r = [call |-> j.call, sent |-> o.err, err |-> Sent(ServiceOf(j.req.method), o.err)]
        BY <1>1, <3>2
      <4>2. r = Reply(s) /\ r.call = j.call
        BY <1>4, <4>1 DEF Reply
      <4>3. j.call \in Call
        BY <1>0 DEF JobsSound
      <4> QED
        BY <1>2, <1>4, <1>5, <1>8, <4>1, <4>2, <4>3
    <3> QED
      BY <3>1, <3>2
  <2> QED
    BY <2>1 DEF RepliesSound
<1> QED
  BY <1>8, <1>9 DEF IInv

LEMMA CrashInv == ASSUME IInv, NEW service \in Service, Crash(service) PROVE IInv'
<1>0. RepliesSound /\ JobsSound
  BY DEF IInv
<1> DEFINE lost == {j \in jobs : ServiceOf(j.req.method) = service}
           Died(j) == [call |-> j.call, stage |-> j.stage, logic |-> LogicOf(j.req.method),
                       req |-> j.req, err |-> Plain(Word("died")), changed |-> TRUE]
<1>1. PICK done \in SUBSET {j \in lost : LogicOf(j.req.method) \in Writing} :
        served' = served \cup {Died(j) : j \in done}
  BY DEF Crash
<1>2. jobs' = jobs \ lost /\ UNCHANGED <<mode, asked, pc, stage, replies, answer, cause>>
  BY DEF Crash, Fixed
<1>3. \A j \in done : /\ Died(j).call = j.call /\ Died(j).stage = j.stage /\ Died(j).req = j.req
                      /\ Died(j).logic = LogicOf(j.req.method)
                      /\ Died(j).err = Plain(Word("died"))
  OBVIOUS
<1>4. lost \subseteq jobs /\ done \subseteq lost
  OBVIOUS
<1>5. \A j \in done : LogicOf(j.req.method) \in Writing
  OBVIOUS
<1> HIDE DEF Died, lost
<1>6. Plain(Word("died")) \in Internal
  BY DEF Internal
<1>7. \A j \in done : Entry(j, Died(j))
  BY <1>3, <1>5, <1>6, CodesOf DEF Entry, Reported
<1>8. \A j, k \in done : j.call = k.call => j = k
  BY <1>0, <1>4 DEF JobsSound
<1>9. Leaving(lost, {Died(j) : j \in done})
  <2>1. \A s \in {Died(j) : j \in done} : \E j \in lost : Entry(j, s)
    BY <1>4, <1>7
  <2>2. \A s, t \in {Died(j) : j \in done} : s.call = t.call => s = t
    BY <1>3, <1>8
  <2> QED
    BY <1>1, <1>2, <1>4, <2>1, <2>2 DEF Leaving
<1>10. /\ Called' /\ Judged' /\ JobsSound' /\ ServedSound' /\ Progressed' /\ Untouched'
       /\ \A k \in jobs' : k \in jobs
  BY <1>9, LeavingInv
<1>11. RepliesSound'
  BY <1>0, <1>1, <1>2, <1>10 DEF RepliesSound
<1> QED
  BY <1>10, <1>11 DEF IInv

\* A reply arrives.
LEMMA ReplyIs ==
    ASSUME IInv, NEW r \in replies
    PROVE  \E s \in served :
             /\ s.call = r.call /\ s.stage = stage[r.call] /\ r = Reply(s)
             /\ r.call \in Call /\ pc[r.call] = "wait" /\ \A j \in jobs : j.call # r.call
             /\ s.req = Now(r.call).call /\ Now(r.call).call # NoCall
             /\ s.logic = LogicOf(s.req.method) /\ s.err \in Reported(s.logic, s.req)
             /\ s.changed => ~IsXCode(s.err)
             /\ replies \ {r} = {q \in replies : q.call # r.call}
             /\ \A t \in served : t.call = r.call => t = s \/ t.stage < stage[r.call]
<1>0. Called /\ ServedSound /\ RepliesSound
  BY DEF IInv
<1>1. PICK s \in served : s.call = r.call /\ s.stage = stage[r.call] /\ r = Reply(s)
  BY <1>0 DEF RepliesSound
<1>2. r.call \in Call /\ pc[r.call] = "wait" /\ \A j \in jobs : j.call # r.call
  BY <1>0 DEF RepliesSound
<1>3. /\ s.req = Now(r.call).call /\ Now(r.call).call # NoCall
      /\ s.logic = LogicOf(s.req.method) /\ s.err \in Reported(s.logic, s.req)
      /\ s.changed => ~IsXCode(s.err)
  BY <1>0, <1>1 DEF ServedSound, Now
<1>4. \A t \in served : t.call = s.call /\ t.stage = s.stage => t = s
  BY <1>0 DEF ServedSound
<1>5. \A q \in replies : q.call = r.call => q = r
  BY <1>0, <1>1, <1>4 DEF RepliesSound
<1>6. replies \ {r} = {q \in replies : q.call # r.call}
  BY <1>5
<1>7. \A t \in served : t.call = r.call => t = s \/ t.stage < stage[r.call]
  <2> TAKE t \in served
  <2>1. t.call = r.call => t.stage \in 1 .. stage[r.call]
    BY <1>0 DEF ServedSound
  <2>2. stage[r.call] \in Nat
    BY <1>0, <1>2 DEF Called
  <2> QED
    BY <1>1, <1>4, <2>1, <2>2
<1> QED
  BY <1>1, <1>2, <1>3, <1>6, <1>7

LEMMA ReceiveInv == ASSUME IInv, NEW c \in Call, Receive(c) PROVE IInv'
<1>0. /\ Called /\ Judged /\ JobsSound /\ ServedSound /\ RepliesSound /\ Progressed /\ Untouched
  BY DEF IInv
<1>1. pc[c] = "wait" /\ UNCHANGED <<mode, asked, jobs, served>>
  BY DEF Receive, Fixed
<1>2. PICK r \in replies :
        /\ r.call = c /\ replies' = replies \ {r}
        /\ IF Returned(c, r.err) = NoError
           THEN /\ Goto(c, "logic") /\ stage' = [stage EXCEPT ![c] = @ + 1]
                /\ UNCHANGED <<answer, cause>>
           ELSE Reject(c, r.sent, Returned(c, r.err))
  BY DEF Receive
<1>3. PICK s \in served :
        /\ s.call = c /\ s.stage = stage[c] /\ r = Reply(s)
        /\ \A j \in jobs : j.call # c
        /\ s.req = Now(c).call /\ Now(c).call # NoCall
        /\ s.logic = LogicOf(s.req.method) /\ s.err \in Reported(s.logic, s.req)
        /\ s.changed => ~IsXCode(s.err)
        /\ replies \ {r} = {q \in replies : q.call # c}
        /\ \A t \in served : t.call = c => t = s \/ t.stage < stage[c]
  BY <1>2, ReplyIs
<1> DEFINE gateway == GatewayOf(asked[c].path)
           service == ServiceOf(Now(c).call.method)
<1>4. r.sent = s.err /\ Returned(c, r.err) = Passed(gateway, Sent(service, s.err))
  BY <1>3 DEF Reply, Returned, Passed
<1>5. gateway.clientInterceptor \in BOOLEAN /\ service.serverInterceptor \in BOOLEAN
  BY <1>0, <1>3, CallFacts, NowFacts
<1>6. s.err \in {NoError, DeadlineExceeded} \cup Business \cup Internal
  BY <1>3, ReportedAre
<1>7. Returned(c, r.err) = NoError <=> s.err = NoError
  BY <1>4, <1>5, <1>6, PassedError
<1>8. CASE Returned(c, r.err) # NoError
  <2>1. Reject(c, s.err, Returned(c, r.err)) /\ s.err # NoError
    BY <1>2, <1>4, <1>7, <1>8
  <2>2. Verdict(gateway, Now(c), ErrHandler(Returned(c, r.err)), s.err)
    BY <1>3, <1>4, <2>1 DEF Verdict
  <2>3. IsXCode(s.err) => \A t \in served : t.call = c => ~t.changed
    BY <1>3, NothingChanged
  <2>4. Ended(c, ErrHandler(Returned(c, r.err)), s.err)
    BY <1>1, <1>2, <1>3, <2>1, <2>2, <2>3 DEF Ended, Reject, Goto
  <2> QED
    BY <2>4, Ending
<1>9. CASE Returned(c, r.err) = NoError
  <2> HIDE DEF gateway, service
  <2>1. s.err = NoError /\ UNCHANGED <<answer, cause>>
    BY <1>2, <1>7, <1>9
  <2>2. /\ pc' \in [Call -> Phases] /\ pc'[c] = "logic"
        /\ \A d \in Call : d # c => pc'[d] = pc[d]
    BY <1>0, <1>2, <1>9 DEF Called, Phases, Goto
  <2>3. /\ stage' \in [Call -> Nat] /\ stage'[c] = stage[c] + 1 /\ stage[c] \in Nat
        /\ \A d \in Call : d # c => stage'[d] = stage[d]
    <3>1. stage \in [Call -> Nat]
      BY <1>0 DEF Called
    <3>2. stage' = [stage EXCEPT ![c] = @ + 1]
      BY <1>2, <1>9
    <3> QED
      BY <3>1, <3>2
  <2>4. Stages(c)' = Stages(c) /\ (Authorized(c)' <=> Authorized(c))
    BY <1>1 DEF Stages, RouteAsked, Authorized
  <2>5. \A d \in Call : d # c =>
          /\ Stages(d)' = Stages(d) /\ Now(d)' = Now(d) /\ Job(d)' = Job(d)
          /\ (Authorized(d)' <=> Authorized(d))
    BY <1>1, <2>3, SameCall
  <2>6. stage'[c] \in 1 .. Len(Stages(c)')
    BY <1>0, <1>3, <2>3, <2>4, NowFacts
  <2>7. Called'
    <3>1. /\ mode' \in Modes /\ asked' \in [Call -> Ask]
          /\ \A d \in Call : asked'[d] \in Asks[d] \cup {NoAsk}
      BY <1>0, <1>1 DEF Called
    <3>2. ASSUME NEW d \in Call
          PROVE  /\ stage'[d] \in 1 .. Len(Stages(d)') /\ (pc'[d] = "new" => stage'[d] = 1)
                 /\ pc'[d] = "wait" => Now(d)'.call # NoCall
                 /\ pc'[d] \in {"parse", "logic", "wait"} => Authorized(d)'
      <4>1. CASE d = c
        <5>1. Authorized(c)
          BY <1>0, <1>1 DEF Called
        <5> QED
          BY <2>2, <2>4, <2>6, <4>1, <5>1
      <4>2. CASE d # c
        BY <1>0, <2>2, <2>3, <2>5, <4>2 DEF Called
      <4> QED
        BY <4>1, <4>2
    <3> QED
      BY <2>2, <2>3, <3>1, <3>2 DEF Called
  <2>8. Judged'
    <3>1. ASSUME NEW d \in Call
          PROVE  IF pc'[d] = "answered"
                 THEN Verdict(GatewayOf(asked'[d].path), Now(d)', answer'[d], cause'[d])
                 ELSE cause'[d] = NoError
      <4>1. CASE d = c
        BY <1>0, <1>1, <2>1, <2>2, <4>1 DEF Judged
      <4>2. CASE d # c
        BY <1>0, <1>1, <2>1, <2>2, <2>5, <4>2 DEF Judged
      <4> QED
        BY <4>1, <4>2
    <3> QED
      BY <1>0, <2>1, <3>1 DEF Judged
  <2>9. JobsSound'
    BY <1>0, <1>1, <1>3, <2>2, <2>5 DEF JobsSound
  <2>10. ServedSound'
    <3>1. ASSUME NEW t \in served'
          PROVE  /\ t.call \in Call /\ t.stage \in 1 .. stage'[t.call] /\ Authorized(t.call)'
                 /\ pc'[t.call] \in {"logic", "wait", "answered"}
                 /\ pc'[t.call] = "logic" => t.stage < stage'[t.call]
                 /\ t.req = Stages(t.call)'[t.stage].call /\ t.req # NoCall
                 /\ t.logic = LogicOf(t.req.method)
                 /\ t.err \in Reported(t.logic, t.req)
                 /\ t.changed => t.logic \in Writing /\ ~IsXCode(t.err)
      <4>1. t \in served
        BY <1>1
      <4>2. CASE t.call = c
        <5>1. t.stage \in 1 .. stage[c]
          BY <1>0, <4>1, <4>2 DEF ServedSound
        <5>2. t.stage \in 1 .. stage'[c] /\ t.stage < stage'[c]
          BY <2>3, <5>1
        <5> QED
          BY <1>0, <2>2, <2>4, <4>1, <4>2, <5>2 DEF ServedSound
      <4>3. CASE t.call # c
        BY <1>0, <2>2, <2>3, <2>5, <4>1, <4>3 DEF ServedSound
      <4> QED
        BY <4>2, <4>3
    <3>2. \A t, o \in served' : t.call = o.call /\ t.stage = o.stage => t = o
      BY <1>0, <1>1 DEF ServedSound
    <3> QED
      BY <3>1, <3>2 DEF ServedSound
  <2>11. RepliesSound'
    BY <1>0, <1>1, <1>2, <1>3, <2>2, <2>3 DEF RepliesSound
  <2>12. Progressed'
    <3>1. ASSUME NEW d \in Call, NEW n \in 1 .. stage'[d] - 1
          PROVE  \E t \in served' : t.call = d /\ t.stage = n /\ t.err = NoError
      <4>1. CASE d = c /\ n = stage[c]
        BY <1>1, <1>3, <2>1, <4>1
      <4>2. CASE ~(d = c /\ n = stage[c])
        <5>1. n \in 1 .. stage[d] - 1
          <6>1. stage[d] \in Nat
            BY <1>0 DEF Called
          <6> QED
            BY <2>3, <4>2, <6>1
        <5> QED
          BY <1>0, <1>1, <5>1 DEF Progressed
      <4> QED
        BY <4>1, <4>2
    <3> QED
      BY <3>1 DEF Progressed
  <2>13. Untouched'
    BY <1>0, <1>1, <2>1, <2>2 DEF Untouched
  <2> QED
    BY <2>7, <2>8, <2>9, <2>10, <2>11, <2>12, <2>13 DEF IInv
<1> QED
  BY <1>8, <1>9

LEMMA NextInv == IInv /\ [Next]_vars => IInv'
<1> SUFFICES ASSUME IInv, [Next]_vars PROVE IInv'
  OBVIOUS
<1>1. ASSUME NEW c \in Call, Authorize(c) PROVE IInv'
  BY <1>1, AuthorizeInv
<1>2. ASSUME NEW c \in Call, Parse(c) PROVE IInv'
  <2>1. CASE asked[c].form \notin RouteAsked(c).handler.accepts
    BY <1>2, <2>1, ParseInv
  <2>2. CASE asked[c].form \in RouteAsked(c).handler.accepts
    <3>1. pc[c] = "parse" /\ Goto(c, "logic") /\ UNCHANGED <<stage, answer, cause>>
          /\ Services /\ Fixed
      BY <1>2, <2>2 DEF Parse
    <3> QED
      BY <3>1, OnwardInv DEF Services, Fixed
  <2> QED
    BY <2>1, <2>2
<1>3. ASSUME NEW c \in Call, Check(c) PROVE IInv'
  BY <1>3, CheckInv
<1>4. ASSUME NEW c \in Call, Finish(c) PROVE IInv'
  BY <1>4, FinishInv
<1>5. ASSUME NEW c \in Call, Invoke(c) PROVE IInv'
  BY <1>5, OnwardInv DEF Invoke, Fixed
<1>6. ASSUME NEW c \in Call, Unreachable(c) PROVE IInv'
  BY <1>6, UnreachableInv
<1>7. ASSUME NEW c \in Call, Receive(c) PROVE IInv'
  BY <1>7, ReceiveInv
<1>8. ASSUME NEW c \in Call, GiveUp(c) PROVE IInv'
  BY <1>8, GiveUpInv
<1>9. ASSUME NEW j \in jobs, Serve(j) PROVE IInv'
  BY <1>9, ServeInv
<1>10. ASSUME NEW service \in Service, Crash(service) PROVE IInv'
  BY <1>10, CrashInv
<1>11. CASE UNCHANGED vars
  <2>1. UNCHANGED <<mode, asked, pc, stage, jobs, replies, answer, cause, served>>
    BY <1>11 DEF vars
  <2>2. Leaving({}, {})
    BY <2>1 DEF Leaving
  <2>3. Called' /\ Judged' /\ JobsSound' /\ ServedSound' /\ Progressed' /\ Untouched'
    BY <2>2, LeavingInv
  <2>4. RepliesSound'
    BY <2>1 DEF IInv, RepliesSound
  <2> QED
    BY <2>3, <2>4 DEF IInv
<1> QED
  BY <1>1, <1>2, <1>3, <1>4, <1>5, <1>6, <1>7, <1>8, <1>9, <1>10, <1>11 DEF Next, CallStep

--------------------------------------------------------------------------------
(* The theorems.                                                               *)

\* Every reachable state satisfies the inductive invariant.
LEMMA Invariant == Spec => []IInv
<1> QED
  BY InitInv, NextInv, PTL DEF Spec

\* Values have their types: in particular a client is only ever told a result, that it has
\* no token, or a code with the text that belongs to it.
THEOREM WellTyped == Spec => []TypeOK
<1>1. IInv => TypeOK
  <2> SUFFICES ASSUME IInv PROVE TypeOK
    OBVIOUS
  <2>0. /\ Called /\ Judged /\ JobsSound /\ RepliesSound
    BY DEF IInv
  <2>1. mode \in Modes /\ \A c \in Call : asked[c] \in Asks[c] \cup {NoAsk}
    BY <2>0 DEF Called
  <2>2. pc \in [Call -> {"new", "parse", "logic", "wait", "answered"}]
    BY <2>0 DEF Called, Phases
  <2>3. stage \in [Call -> 1 .. 3]
    <3>1. stage \in [Call -> Nat]
      BY <2>0 DEF Called
    <3>2. \A c \in Call : stage[c] \in 1 .. 3
      BY <2>0, CallFacts
    <3> QED
      BY <3>1, <3>2
  <2>4. \A j \in jobs : j.call \in Call /\ j.stage \in 1 .. 3
    <3> TAKE j \in jobs
    <3>1. j.call \in Call /\ j = Job(j.call)
      BY <2>0 DEF JobsSound
    <3>2. j.stage = stage[j.call]
      BY <3>1 DEF Job
    <3> QED
      BY <2>3, <3>1, <3>2
  <2>5. \A r \in replies : r.call \in Call /\ pc[r.call] = "wait"
    BY <2>0 DEF RepliesSound
  <2>6. answer \in [Call -> Told]
    BY <2>0 DEF Judged
  <2> QED
    BY <2>1, <2>2, <2>3, <2>4, <2>5, <2>6 DEF TypeOK
<1> QED
  BY <1>1, Invariant, PTL

\* What runs in a service on behalf of a call is what its route stands for, for the user of
\* the token and the target of the body, whatever the routes, wires and fields.
THEOREM Faithful == Spec => []ServedAsAsked
<1>1. IInv => ServedAsAsked
  <2> SUFFICES ASSUME IInv, NEW s \in served
               PROVE  LET a == asked[s.call]
                      IN  /\ s.logic \in Meant[RouteOf[a.path].handler.logic]
                          /\ s.changed /\ RouteOf[a.path].jwt
                               => s.req.userId = a.user /\ a.user # Nobody
                          /\ s.changed => s.req.target = a.target
    BY DEF ServedAsAsked
  <2> DEFINE c == s.call
             name == RouteAsked(c).handler.logic
  <2>0. Called /\ ServedSound
    BY DEF IInv
  <2>1. /\ c \in Call /\ s.stage \in 1 .. stage[c] /\ Authorized(c)
        /\ s.req = Stages(c)[s.stage].call /\ s.req # NoCall
        /\ s.logic = LogicOf(s.req.method) /\ (s.changed => s.logic \in Writing)
    BY <2>0 DEF ServedSound
  <2> HIDE DEF c
  <2>2. /\ s.stage \in 1 .. Len(Stages(c))
        /\ RouteAsked(c).jwt => name # "Register"
    BY <2>0, <2>1, CallFacts
  <2>3. Purposeful(name, Stages(c)[s.stage], asked[c].user, asked[c].target)
    BY <2>0, <2>1, <2>2, CallFacts
  <2>4. /\ s.logic \in Meant[name]
        /\ s.changed => s.req.target = asked[c].target
        /\ s.changed /\ name # "Register" => s.req.userId = asked[c].user
    BY <2>1, <2>3 DEF Purposeful
  <2> QED
    BY <2>1, <2>2, <2>4 DEF RouteAsked, Authorized, c
<1> QED
  BY <1>1, Invariant, PTL

\* The codes of an answer, by the error it is for.
Survived(c, e) ==
    \/ Now(c).call = NoCall \/ e \in Now(c).errors
    \/ /\ GatewayOf(asked[c].path).clientInterceptor
       /\ ServiceOf(Now(c).call.method).serverInterceptor

LEMMA CommonCodes ==
    /\ Answer(ServerErr).code = 500 /\ Answer(ServiceUnavailable).code = 503
    /\ Answer(Deadline).code = 504
BY DEF Answer, ServerErr, ServiceUnavailable, Deadline, New

LEMMA VerdictCodes ==
    ASSUME Called, NEW c \in Call, NEW a, NEW e, e # NoError,
           Verdict(GatewayOf(asked[c].path), Now(c), a, e)
    PROVE  /\ IF IsXCode(e) /\ Survived(c, e)
              THEN a = Answer(e) /\ e \in Business
              ELSE a.code \in {500, 503, 504}
           /\ GatewayOf(asked[c].path) = Applet /\ e.kind = "deadline" => a.code = 504
           /\ GatewayOf(asked[c].path) = Applet /\ e.kind = "grpc" =>
                 a.code = IF e.status.code \in DOMAIN Trouble THEN Trouble[e.status.code] ELSE 500
<1> DEFINE gateway == GatewayOf(asked[c].path)
<1>0. /\ Errors(Now(c)) /\ gateway.clientInterceptor \in BOOLEAN
      /\ gateway = Applet => gateway.clientInterceptor
  BY CallFacts
<1>1. CASE e \in {ParseError} \cup Now(c).errors /\ a = ErrHandler(e)
  <2>1. e \in Business \cup Internal
    BY <1>0, <1>1 DEF Errors, Internal
  <2>2. CASE e \in Business
    <3>1. e # ParseError
      BY <2>2, BusinessParts DEF ParseError, Plain
    <3>2. a = Answer(e) /\ IsXCode(e) /\ Survived(c, e)
      BY <1>1, <2>2, <3>1, CheckAnswer, CodesOf DEF Survived
    <3> QED
      BY <2>2, <3>2 DEF IsXCode
  <2>3. CASE e \in Internal
    <3>1. e.kind = "plain"
      BY <2>3, InternalParts DEF Plain
    <3>2. a = Answer(ServerErr)
      BY <1>1, <3>1, NoCodeAnswer
    <3> QED
      BY <3>1, <3>2, CommonCodes DEF IsXCode
  <2> QED
    BY <2>1, <2>2, <2>3
<1>2. CASE e \in Lost /\ a = ErrHandler(Passed(gateway, e))
  <2>1. e.kind = "grpc" /\ e.status.code \in LostCodes
    BY <1>0, <1>2, LostAnswer DEF LostCodes
  <2>2. a = IF ~gateway.clientInterceptor \/ e.status.code = "Canceled" THEN Answer(ServerErr)
            ELSE IF e.status.code = "Unavailable" THEN Answer(ServiceUnavailable)
            ELSE Answer(Deadline)
    BY <1>0, <1>2, LostAnswer
  <2>3. /\ DOMAIN Trouble = {"DeadlineExceeded", "Unavailable"}
        /\ Trouble["DeadlineExceeded"] = 504 /\ Trouble["Unavailable"] = 503
    BY DEF Trouble
  <2> HIDE DEF gateway
  <2>4. a.code \in {500, 503, 504}
    BY <2>2, CommonCodes
  <2>5. gateway.clientInterceptor =>
          a.code = IF e.status.code \in DOMAIN Trouble THEN Trouble[e.status.code] ELSE 500
    BY <2>1, <2>2, <2>3, CommonCodes DEF LostCodes
  <2> QED
    BY <1>0, <2>1, <2>4, <2>5 DEF IsXCode, gateway
<1>3. CASE /\ Now(c).call # NoCall
           /\ e \in Reported(LogicOf(Now(c).call.method), Now(c).call) \ {NoError}
           /\ a = ErrHandler(Passed(gateway, Sent(ServiceOf(Now(c).call.method), e)))
  <2> DEFINE service == ServiceOf(Now(c).call.method)
  <2>1. service.serverInterceptor \in BOOLEAN
    BY <1>3, NowFacts
  <2>2. e \in {DeadlineExceeded} \cup Business \cup Internal
    BY <1>3, ReportedAre
  <2>3. a = IF e \in Business /\ gateway.clientInterceptor /\ service.serverInterceptor
            THEN Answer(e)
            ELSE IF e = DeadlineExceeded /\ gateway.clientInterceptor THEN Answer(Deadline)
            ELSE Answer(ServerErr)
    BY <1>0, <1>3, <2>1, <2>2, ServiceAnswer
  <2>4. CASE e \in Business
    <3>1. IsXCode(e)
      BY <2>4, CodesOf
    <3>2. e # DeadlineExceeded /\ e \notin Internal
      BY <3>1, CodesOf
    <3>3. e \notin Now(c).errors
      <4>1. e \in Results(LogicOf(Now(c).call.method), Now(c).call)
        BY <1>3, <3>2 DEF Reported
      <4>2. Now(c).errors \cap Results(LogicOf(Now(c).call.method), Now(c).call) = {}
        BY <1>3, NowFacts DEF Purposeful
      <4> QED
        BY <4>1, <4>2
    <3>4. Survived(c, e) <=> gateway.clientInterceptor /\ service.serverInterceptor
      BY <1>3, <3>3 DEF Survived
    <3> HIDE DEF gateway, service
    <3>5. IF Survived(c, e) THEN a = Answer(e) ELSE a.code = 500
      BY <2>3, <2>4, <3>2, <3>4, CommonCodes
    <3>6. e.kind \in {"Code", "Status"}
      BY <3>1 DEF IsXCode
    <3>7. e.kind \notin {"deadline", "grpc"}
      BY <3>6
    <3>8. IF IsXCode(e) /\ Survived(c, e)
          THEN a = Answer(e) /\ e \in Business
          ELSE a.code \in {500, 503, 504}
      <4>1. CASE Survived(c, e)
        BY <2>4, <3>1, <3>5, <4>1
      <4>2. CASE ~Survived(c, e)
        <5>1. a.code \in {500, 503, 504}
          BY <3>5, <4>2
        <5> QED
          BY <4>2, <5>1
      <4> QED
        BY <4>1, <4>2
    <3> QED
      BY <3>7, <3>8
  <2>5. CASE e \in Internal
    <3>1. e.kind = "plain"
      BY <2>5, InternalParts DEF Plain
    <3>2. e \notin Business
      BY <3>1, BusinessParts
    <3>4. e # DeadlineExceeded
      <4>1. DeadlineExceeded.kind = "deadline"
        BY DEF DeadlineExceeded
      <4> QED
        BY <3>1, <4>1
    <3>3. a = Answer(ServerErr)
      BY <2>3, <3>2, <3>4
    <3> QED
      BY <3>1, <3>3, CommonCodes DEF IsXCode
  <2>6. CASE e = DeadlineExceeded
    <3>1. e.kind = "deadline"
      BY <2>6 DEF DeadlineExceeded
    <3>2. e \notin Business
      BY <3>1, BusinessParts
    <3> HIDE DEF gateway, service
    <3>3. a = IF gateway.clientInterceptor THEN Answer(Deadline) ELSE Answer(ServerErr)
      BY <2>3, <2>6, <3>2
    <3>4. a.code \in {500, 504} /\ (gateway.clientInterceptor => a.code = 504)
      BY <3>3, CommonCodes
    <3> QED
      BY <1>0, <3>1, <3>4 DEF IsXCode, gateway
  <2> QED
    BY <2>2, <2>4, <2>5, <2>6
<1> QED
  BY <1>1, <1>2, <1>3 DEF Verdict

LEMMA Answered ==
    ASSUME IInv, NEW c \in Call, pc[c] = "answered"
    PROVE  /\ Called /\ Verdict(GatewayOf(asked[c].path), Now(c), answer[c], cause[c])
           /\ cause[c] = NoError => answer[c].code = 0
<1>1. Called /\ Verdict(GatewayOf(asked[c].path), Now(c), answer[c], cause[c])
  BY DEF IInv, Judged
<1>2. ASSUME cause[c] = NoError PROVE answer[c] \in {NotAuthorized, OkJson}
  <2>1. Errors(Now(c))
    BY <1>1, CallFacts
  <2>2. cause[c] \notin {ParseError} \cup Now(c).errors
    BY <1>2, <2>1, NilIsNoError DEF Errors, Internal
  <2>3. cause[c] \notin Lost
    <3> SUFFICES ASSUME NoError \in Lost PROVE FALSE
      BY <1>2
    <3>1. PICK code \in LostCodes, w \in Reasons : NoError = Status(code, Word(w))
      BY DEF Lost, Status
    <3> QED
      BY <3>1, ClientStatus DEF LostCodes
  <2> QED
    BY <1>1, <1>2, <2>2, <2>3 DEF Verdict
<1>3. NotAuthorized.code = 0 /\ OkJson.code = 0
  BY DEF NotAuthorized, OkJson
<1> QED
  BY <1>1, <1>2, <1>3

\* Success is never false: a call that is answered with a result, or with code 0, met no
\* error, and the services ran every RPC of its stages and returned no error.
THEOREM SuccessIsReal == Spec => []NoFalseSuccess
<1>1. IInv => NoFalseSuccess
  <2> SUFFICES ASSUME IInv, NEW c \in Call, Succeeded(c)
               PROVE  /\ cause[c] = NoError
                      /\ \A n \in 1 .. stage[c] - 1 :
                            \E s \in served : s.call = c /\ s.stage = n /\ s.err = NoError
    BY DEF NoFalseSuccess
  <2>1. pc[c] = "answered" /\ answer[c].code = 0
    BY DEF Succeeded
  <2>2. cause[c] = NoError
    <3> SUFFICES ASSUME cause[c] # NoError PROVE FALSE
      OBVIOUS
    <3>1. IF IsXCode(cause[c]) /\ Survived(c, cause[c])
          THEN answer[c] = Answer(cause[c]) /\ cause[c] \in Business
          ELSE answer[c].code \in {500, 503, 504}
      BY <2>1, Answered, VerdictCodes
    <3>2. cause[c] \in Business => Answer(cause[c]).code # 0
      BY CodesOf DEF Answer
    <3> QED
      BY <2>1, <3>1, <3>2
  <2> QED
    BY <2>2 DEF IInv, Progressed
<1> QED
  BY <1>1, Invariant, PTL

\* A refusal means that nothing was done: the services have changed nothing for a call
\* answered with a code that says so, and run nothing for it any more.
THEOREM RefusalIsClean == Spec => []RefusedMeansUntouched
<1>1. IInv => RefusedMeansUntouched
  <2> SUFFICES ASSUME IInv, NEW c \in Call, pc[c] = "answered", Refusal(answer[c].code)
               PROVE  /\ \A s \in served : s.call = c => ~s.changed
                      /\ \A j \in jobs : j.call # c
    BY DEF RefusedMeansUntouched
  <2>1. answer[c].code \notin {0, 500, 503, 504}
    <3>1. \A k \in {0, 500, 503, 504} : ~Refusal(k)
      BY SMT DEF Refusal
    <3> QED
      BY <3>1
  <2>2. cause[c] # NoError
    BY <2>1, Answered
  <2>3. IsXCode(cause[c])
    BY <2>1, <2>2, Answered, VerdictCodes
  <2> QED
    BY <2>3 DEF IInv, Untouched
<1> QED
  BY <1>1, Invariant, PTL

\* The code and the text of an answer are those of the error that arose, where both
\* interceptors are installed or the gateway's own check found it; elsewhere they are those
\* of an internal error, and applet tells a deadline and an unreachable service apart.
THEOREM CodesArrive == Spec => []CodesAreGenuine
<1>1. IInv => CodesAreGenuine
  <2> SUFFICES ASSUME IInv, NEW c \in Call, pc[c] = "answered", cause[c] # NoError
               PROVE  LET code == answer[c].code
                          gateway == GatewayOf(asked[c].path)
                      IN  /\ IF IsXCode(cause[c]) /\ Survives(c)
                             THEN code = cause[c].code /\ answer[c].msg = cause[c].msg
                             ELSE code \in {500, 503, 504}
                          /\ gateway = Applet /\ cause[c].kind = "deadline" => code = 504
                          /\ gateway = Applet /\ cause[c].kind = "grpc" =>
                                code = IF cause[c].status.code \in DOMAIN Trouble
                                       THEN Trouble[cause[c].status.code] ELSE 500
    BY DEF CodesAreGenuine
  <2>1. /\ IF IsXCode(cause[c]) /\ Survived(c, cause[c])
           THEN answer[c] = Answer(cause[c]) /\ cause[c] \in Business
           ELSE answer[c].code \in {500, 503, 504}
        /\ GatewayOf(asked[c].path) = Applet /\ cause[c].kind = "deadline"
             => answer[c].code = 504
        /\ GatewayOf(asked[c].path) = Applet /\ cause[c].kind = "grpc" =>
             answer[c].code = IF cause[c].status.code \in DOMAIN Trouble
                              THEN Trouble[cause[c].status.code] ELSE 500
    <3>1. Called /\ Verdict(GatewayOf(asked[c].path), Now(c), answer[c], cause[c])
      BY Answered
    <3> QED
      BY <3>1, VerdictCodes
  <2>2. Survives(c) <=> Survived(c, cause[c])
    BY DEF Survives, Survived
  <2>3. Answer(cause[c]).code = cause[c].code /\ Answer(cause[c]).msg = cause[c].msg
    BY DEF Answer
  <2> QED
    BY <2>1, <2>2, <2>3
<1> QED
  BY <1>1, Invariant, PTL
================================================================================

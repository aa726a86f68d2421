-------------------------------- MODULE Gateway --------------------------------
(* An HTTP request on its way through a gateway: the token, httpx.Parse, the   *)
(* logic's checks, its RPCs one after the other, each through client           *)
(* interceptor, stub, network, server interceptor and the service's logic, and *)
(* the answer.  A client gives up at its deadline while the service goes on;   *)
(* services fail, die and come back.  The services' own state is the subject   *)
(* of the other modules; here a service answers or fails, and may have changed *)
(* something either way.                                                       *)
EXTENDS Services, FiniteSets

CONSTANTS
    Call,      \* HTTP requests
    Asks,      \* Asks[c]: what call c may be
    Modes      \* faulty - services fail, die and are slow

Routes == AppletRoutes \cup ArticleRoutes
RouteOf == [path \in {r.path : r \in Routes} |-> CHOOSE r \in Routes : r.path = path]
GatewayOf(path) == IF RouteOf[path] \in AppletRoutes THEN Applet ELSE ArticleApi

\* What a call is: a path, the user of its token (Nobody without a valid one), how
\* its body is, and whom or what the body names.
Ask == [path : DOMAIN RouteOf, user : Nat, form : Form, target : Nat]

ASSUME AsksAssumption == \A c \in Call : Asks[c] \subseteq Ask
ASSUME GatewayModeAssumption == Modes \subseteq [faulty : BOOLEAN]

VARIABLES
    mode,      \* of the behaviour, fixed
    asked,     \* what each call is, once it has come
    pc,        \* where each call is
    stage,     \* the stage its logic is in
    jobs,      \* the RPCs that services have received and not answered
    replies,   \* answers of services on their way back
    answer,    \* the HTTP answer
    cause,     \* history: the error a call was answered with, as it arose
    served     \* history: what the services' logics did

vars == <<mode, asked, pc, stage, jobs, replies, answer, cause, served>>

NoAsk == [path |-> "/v1/user/info", user |-> Nobody, form |-> "complete", target |-> Nobody]
NoAnswer == [http |-> 0, code |-> 0, msg |-> NoText]
\* httpx.OkJson: the logic's response, no code.
OkJson == [http |-> 200, code |-> 0, msg |-> NoText]
NotAuthorized == [http |-> 401, code |-> 0, msg |-> NoText]
ParseError == Plain(Word("field is not set"))

RouteAsked(c) == RouteOf[asked[c].path]
Stages(c) == Logic(RouteAsked(c).handler.logic, asked[c].user, asked[c].target)
Now(c) == Stages(c)[stage[c]]
Job(c) == [call |-> c, stage |-> stage[c], req |-> Now(c).call]

Init ==
    /\ mode \in Modes
    /\ asked = [c \in Call |-> NoAsk]
    /\ pc = [c \in Call |-> "new"]
    /\ stage = [c \in Call |-> 1]
    /\ jobs = {}
    /\ replies = {}
    /\ answer = [c \in Call |-> NoAnswer]
    /\ cause = [c \in Call |-> NoError]
    /\ served = {}

Fixed == UNCHANGED <<mode, asked>>
Services == UNCHANGED <<jobs, replies, served>>
Goto(c, phase) == pc' = [pc EXCEPT ![c] = phase]

\* The handler's two ends: httpx.ErrorCtx (error: what arose, err: what the logic
\* returns for it) and httpx.OkJsonCtx.
Reject(c, error, err) ==
    /\ Goto(c, "answered")
    /\ answer' = [answer EXCEPT ![c] = ErrHandler(err)]
    /\ cause' = [cause EXCEPT ![c] = error]
    /\ UNCHANGED stage
Accept(c) ==
    /\ Goto(c, "answered")
    /\ answer' = [answer EXCEPT ![c] = OkJson]
    /\ UNCHANGED <<stage, cause>>

\* A request comes to the middleware for tokens, which lets it through to the handler.
Authorize(c) ==
    /\ pc[c] = "new"
    /\ \E ask \in Asks[c] :
         /\ asked' = [asked EXCEPT ![c] = ask]
         /\ IF RouteOf[ask.path].jwt /\ ask.user = Nobody
            THEN Goto(c, "answered") /\ answer' = [answer EXCEPT ![c] = NotAuthorized]
            ELSE Goto(c, "parse") /\ UNCHANGED answer
    /\ UNCHANGED <<mode, stage, cause>> /\ Services

\* The handler parses the request.
Parse(c) ==
    /\ pc[c] = "parse"
    /\ IF asked[c].form \in RouteAsked(c).handler.accepts
       THEN Goto(c, "logic") /\ UNCHANGED <<stage, answer, cause>>
       ELSE Reject(c, ParseError, ParseError)
    /\ Services /\ Fixed

\* One stage of the logic: a check fails, the logic ends, or the RPC is made.
Check(c) ==
    /\ pc[c] = "logic"
    /\ \E err \in Now(c).errors : Reject(c, err, err)
    /\ Services /\ Fixed

Finish(c) ==
    /\ pc[c] = "logic"
    /\ Now(c).ends \/ Now(c).call = NoCall
    /\ Accept(c)
    /\ Services /\ Fixed

\* Bug: it returns the reply without the error.
Returned_DropsError(c, err) == NoError

\* What a client's call returns for the error of the connection or the server.
Returned(c, err) ==
    IF GatewayOf(asked[c].path).clientInterceptor THEN ClientErrorInterceptor(err) ELSE err

Failed(c, err) == Reject(c, err, Returned(c, err))

\* The stub sends the request; or the service cannot be reached, as while it restarts.
Invoke(c) ==
    /\ pc[c] = "logic" /\ Now(c).call # NoCall
    /\ Goto(c, "wait")
    /\ jobs' = jobs \cup {Job(c)}
    /\ UNCHANGED <<stage, answer, cause, replies, served>> /\ Fixed

Unreachable(c) ==
    /\ mode.faulty /\ pc[c] = "logic" /\ Now(c).call # NoCall
    /\ Failed(c, Err(Grpc("Unavailable", Word("connection refused"), <<>>)))
    /\ Services /\ Fixed

--------------------------------------------------------------------------------
\* The server's side.  What leaves it for the error of the logic.
Sent(service, err) ==
    GrpcServer(IF service.serverInterceptor THEN ServerErrorInterceptor(err) ELSE err)

\* What a logic may do: the errors it returns, and whether it has changed anything.
Outcomes(logic, req) ==
    [err : Results(logic, req), changed : IF logic \in Writing THEN BOOLEAN ELSE {FALSE}]
Faults(logic) ==
    [err : {Plain(Word("sql")), DeadlineExceeded},
     changed : IF logic \in Writing THEN BOOLEAN ELSE {FALSE}]
\* Bug: the checks come after the change.
Possible_ChecksLate(logic, req) ==
    Outcomes(logic, req) \cup (IF mode.faulty THEN Faults(logic) ELSE {})

\* Refusals come before any change; success need not mean a change (a like that
\* is a duplicate); an error may come after the change.
Possible(logic, req) ==
    {o \in Outcomes(logic, req) : o.changed => o.err = NoError} \cup
    (IF mode.faulty THEN Faults(logic) ELSE {})

\* A service runs the logic of a request and replies.
Serve(j) ==
    /\ j \in jobs
    /\ LET logic == LogicOf(j.req.method)
       IN  \E o \in Possible(logic, j.req) :
             /\ served' = served \cup {[call |-> j.call, stage |-> j.stage, logic |-> logic,
                                        req |-> j.req, err |-> o.err, changed |-> o.changed]}
             /\ replies' = IF pc[j.call] = "wait" /\ stage[j.call] = j.stage
                           THEN replies \cup {[call |-> j.call, sent |-> o.err,
                                     err |-> Sent(ServiceOf(j.req.method), o.err)]}
                           ELSE replies
    /\ jobs' = jobs \ {j}
    /\ UNCHANGED <<pc, stage, answer, cause>> /\ Fixed

\* A process dies; the logics it ran may have changed what they were to change.
Crash(service) ==
    /\ mode.faulty
    /\ LET lost == {j \in jobs : ServiceOf(j.req.method) = service}
       IN  /\ lost # {}
           /\ jobs' = jobs \ lost
           /\ \E done \in SUBSET {j \in lost : LogicOf(j.req.method) \in Writing} :
                 served' = served \cup
                     {[call |-> j.call, stage |-> j.stage, logic |-> LogicOf(j.req.method),
                       req |-> j.req, err |-> Plain(Word("died")), changed |-> TRUE] : j \in done}
    /\ UNCHANGED <<pc, stage, replies, answer, cause>> /\ Fixed

--------------------------------------------------------------------------------
\* The reply arrives: the logic goes on or returns the error.
Receive(c) ==
    /\ pc[c] = "wait"
    /\ \E r \in replies :
         /\ r.call = c
         /\ replies' = replies \ {r}
         /\ IF Returned(c, r.err) = NoError
            THEN Goto(c, "logic") /\ stage' = [stage EXCEPT ![c] = @ + 1] /\ UNCHANGED <<answer, cause>>
            ELSE Reject(c, r.sent, Returned(c, r.err))
    /\ UNCHANGED <<jobs, served>> /\ Fixed

\* Bug: the reply of a call that was given up is kept.
GiveUp_KeepsReply(c) ==
    /\ mode.faulty /\ pc[c] = "wait"
    /\ Failed(c, Err(Grpc("DeadlineExceeded", Word("DeadlineExceeded"), <<>>)))
    /\ UNCHANGED <<jobs, replies, served>> /\ Fixed

\* The call ends without its reply: deadline, client gone, connection broken.
GiveUp(c) ==
    /\ mode.faulty /\ pc[c] = "wait"
    /\ \E code \in {"DeadlineExceeded", "Canceled", "Unavailable"} :
         /\ code = "Unavailable" => Job(c) \notin jobs
         /\ Failed(c, Err(Grpc(code, Word(code), <<>>)))
    /\ replies' = {r \in replies : r.call # c}
    /\ UNCHANGED <<jobs, served>> /\ Fixed

CallStep(c) ==
    Parse(c) \/ Check(c) \/ Finish(c) \/ Invoke(c) \/ Unreachable(c)
    \/ Receive(c) \/ GiveUp(c)

Next ==
    \/ \E c \in Call : Authorize(c) \/ CallStep(c)
    \/ \E j \in jobs : Serve(j)
    \/ \E service \in Service : Crash(service)

Spec == Init /\ [][Next]_vars

--------------------------------------------------------------------------------
\* The codes that gateways and services choose, each with its text.
Business ==
    {RegisterMobileEmpty, VerificationCodeEmpty, MobileHasRegistered, LoginMobileEmpty,
     RegisterPasswdEmpty, GetBucketErr, PutBucketErr, ArtitleTitleEmpty,
     ArticleContentTooFewWords, ArticleCoverEmpty, AccessDenied, RegisterNameEmpty,
     FollowedUserIdEmpty, CannotFollowSelf, SortTypeInvalid, UserIdInvalid}
\* What a client may be told: a result, no token, or a code with its own text - never the
\* text of a driver, a connection or a status.
Told == {NoAnswer, OkJson, NotAuthorized} \cup
        {ErrHandler(x) : x \in Business \cup {ServerErr, ServiceUnavailable, Deadline}}

TypeOK ==
    /\ mode \in Modes
    /\ \A c \in Call : asked[c] \in Asks[c] \cup {NoAsk}
    /\ pc \in [Call -> {"new", "parse", "logic", "wait", "answered"}]
    /\ stage \in [Call -> 1 .. 3]
    /\ \A j \in jobs : j.call \in Call /\ j.stage \in 1 .. 3
    /\ \A r \in replies : r.call \in Call /\ pc[r.call] = "wait"
    /\ answer \in [Call -> Told]

Succeeded(c) == pc[c] = "answered" /\ answer[c].http = 200 /\ answer[c].code = 0

\* A call answered with success (no code, or code 0) was served: every RPC its logic had to
\* make before it ended was run by the service and returned no error.
NoFalseSuccess ==
    \A c \in Call : Succeeded(c) =>
        /\ cause[c] = NoError
        /\ \A n \in 1 .. stage[c] - 1 :
              \E s \in served : s.call = c /\ s.stage = n /\ s.err = NoError

Meant == [Register |-> {"FindByMobileLogic", "RegisterLogic"}, Verification |-> {"SendSmsLogic"},
          Login |-> {"FindByMobileLogic"}, UserInfo |-> {"FindByIdLogic"},
          Thumbup |-> {"ThumbupLogic"}, IsThumbup |-> {"IsThumbupLogic"},
          Follow |-> {"FollowLogic"}, UnFollow |-> {"UnFollowLogic"},
          FollowList |-> {"FollowListLogic"}, FansList |-> {"FansListLogic"},
          UploadCover |-> {}, Publish |-> {"PublishLogic"},
          ArticleDetail |-> {"ArticleDetailLogic", "FindByIdLogic"}, ArticleList |-> {"ArticlesLogic"}]

\* What runs in a service on behalf of a call is the logic the route stands for, for the
\* user of the token and the target of the body: neither a wrong wire among stubs,
\* descriptions and servers nor a mixed-up field can make it another's.
ServedAsAsked ==
    \A s \in served :
        LET a == asked[s.call]
        IN  /\ s.logic \in Meant[RouteOf[a.path].handler.logic]
            /\ s.changed /\ RouteOf[a.path].jwt => s.req.userId = a.user /\ a.user # Nobody
            /\ s.changed => s.req.target = a.target

\* Codes a client takes as "nothing was done, correct the request and repeat it":
\* refusals and business codes, but for a failed upload.
Refusal(code) == code \in 1 .. 497 \/ (code > 10000 /\ code # PutBucketErr.code)

\* A refused call has changed nothing, and nothing it started is still going on: what is
\* reported as a timeout or an internal error is not dressed up as a refusal.
RefusedMeansUntouched ==
    \A c \in Call : pc[c] = "answered" /\ Refusal(answer[c].code) =>
        /\ \A s \in served : s.call = c => ~s.changed
        /\ \A j \in jobs : j.call # c

Survives(c) ==
    Now(c).call = NoCall \/ cause[c] \in Now(c).errors \/
    (GatewayOf(asked[c].path).clientInterceptor /\ ServiceOf(Now(c).call.method).serverInterceptor)
Trouble == [DeadlineExceeded |-> 504, Unavailable |-> 503]

\* The code and text a logic chose reach the client where both interceptors are installed
\* or the check is the gateway's own; elsewhere they become the internal error, never the
\* code of something else.  applet also tells its callers why there was no answer, the
\* deadline or a service that cannot be reached; article-api, whose clients have no
\* interceptor, answers 500 for both.
CodesAreGenuine ==
    \A c \in Call : pc[c] = "answered" /\ cause[c] # NoError =>
        LET code == answer[c].code
            gateway == GatewayOf(asked[c].path)
        IN  /\ IF IsXCode(cause[c]) /\ Survives(c)
               THEN code = cause[c].code /\ answer[c].msg = cause[c].msg
               ELSE code \in {500, 503, 504}
            /\ gateway = Applet /\ cause[c].kind = "deadline" => code = 504
            /\ gateway = Applet /\ cause[c].kind = "grpc" =>
                  code = IF cause[c].status.code \in DOMAIN Trouble THEN Trouble[cause[c].status.code] ELSE 500
================================================================================

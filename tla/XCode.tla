--------------------------------- MODULE XCode ---------------------------------
(* pkg/xcode and pkg/interceptors: business codes and other Go errors, what    *)
(* they become as a gRPC status, and back.  A text is a word or the decimal    *)
(* form of a number, because strconv.Atoi tells these two apart; an error is   *)
(* a record whose kind is its dynamic type.  Nothing here keeps state.         *)
EXTENDS Integers, Sequences, SequencesExt

Word(w) == [form |-> "word", word |-> w, number |-> 0]
Itoa(n) == [form |-> "number", word |-> "", number |-> n]
NoText == [form |-> "empty", word |-> "", number |-> 0]

\* The two types that implement the interface XCode: Code, and the Status that
\* wraps a protobuf message.  Both are a number and a text.
New(code, msg) == [kind |-> "Code", code |-> code, msg |-> msg]
StatusOf(code, msg) == [kind |-> "Status", code |-> code, msg |-> msg]
IsXCode(err) == err.kind \in {"Code", "Status"}

OK == New(0, Word("OK"))
NoLogin == New(101, Word("NOT_LOGIN"))
RequestErr == New(400, Word("INVALID_ARGUMENT"))
Unauthorized == New(401, Word("UNAUTHENTICATED"))
AccessDenied == New(403, Word("PERMISSION_DENIED"))
NotFound == New(404, Word("NOT_FOUND"))
MethodNotAllowed == New(405, Word("METHOD_NOT_ALLOWED"))
Canceled == New(498, Word("CANCELED"))
ServerErr == New(500, Word("INTERNAL_ERROR"))
ServiceUnavailable == New(503, Word("UNAVAILABLE"))
Deadline == New(504, Word("DEADLINE_EXCEEDED"))
LimitExceed == New(509, Word("RESOURCE_EXHAUSTED"))

\* Errors that are not XCodes: nil, the two errors of a context, an error with
\* a text, a gRPC status, and an error wrapped with a message.
NoError == [kind |-> "nil"]
ContextCanceled == [kind |-> "canceled", msg |-> Word("context canceled")]
DeadlineExceeded == [kind |-> "deadline", msg |-> Word("context deadline exceeded")]
Plain(msg) == [kind |-> "plain", msg |-> msg]
WithMessage(err, msg) == [kind |-> "wrap", cause |-> err, msg |-> msg]
Cause(err) == IF err.kind = "wrap" THEN err.cause ELSE err

\* A gRPC status: its code, its message and its details (protobuf messages).
Grpc(code, msg, details) == [code |-> code, msg |-> msg, details |-> details]
GrpcOK == Grpc("OK", NoText, <<>>)
Err(gs) == IF gs.code = "OK" THEN NoError ELSE [kind |-> "grpc", status |-> gs]

\* The message of an XCode, never empty: its number stands in for a missing text.
Text(x) == IF x.msg = NoText THEN Itoa(x.code) ELSE x.msg

\* The code that a text stands for.
String(text) ==
    CASE text = NoText          -> OK
      [] text.form = "number"   -> New(text.number, NoText)
      [] OTHER                  -> ServerErr

\* The protobuf message of a code: its number and its Message().
Proto(x) == [type |-> "Status", code |-> x.code, msg |-> Text(x)]
FromProto(pb) ==
    CASE pb.type # "Status"              -> StatusOf(ServerErr.code, Word("invalid proto message"))
      [] pb.msg \in {NoText, Itoa(pb.code)} -> New(pb.code, NoText)
      [] OTHER                           -> StatusOf(pb.code, pb.msg)

toXCode(gs) ==
    CASE gs.code = "OK"                -> OK
      [] gs.code = "InvalidArgument"   -> RequestErr
      [] gs.code = "NotFound"          -> NotFound
      [] gs.code = "PermissionDenied"  -> AccessDenied
      [] gs.code = "Unauthenticated"   -> Unauthorized
      [] gs.code = "ResourceExhausted" -> LimitExceed
      [] gs.code = "Unimplemented"     -> MethodNotAllowed
      [] gs.code = "DeadlineExceeded"  -> Deadline
      [] gs.code = "Unavailable"       -> ServiceUnavailable
      [] gs.code = "Unknown"           -> String(gs.msg)
      [] OTHER                         -> ServerErr

\* Code -> status: the number as the message, the code itself as the detail.
gRPCStatusFromXCode(x) == Grpc("Unknown", Itoa(x.code), <<Proto(x)>>)

\* Status -> code: the last detail, or what the status itself says.
GrpcStatusToXCode(gs) ==
    IF gs.details = <<>> THEN toXCode(gs) ELSE FromProto(gs.details[Len(gs.details)])

\* google.golang.org/grpc/status.FromError.
GrpcFromError(err) ==
    CASE err.kind = "nil"  -> GrpcOK
      [] err.kind = "grpc" -> err.status
      [] OTHER             -> Grpc("Unknown", IF IsXCode(err) THEN Text(err) ELSE err.msg, <<>>)

FromError(error) ==
    LET err == Cause(error)
    IN  CASE IsXCode(err)           -> gRPCStatusFromXCode(err)
          [] err.kind = "canceled"  -> gRPCStatusFromXCode(Canceled)
          [] err.kind = "deadline"  -> gRPCStatusFromXCode(Deadline)
          [] OTHER                  -> GrpcFromError(err)

CodeFromError(error) ==
    LET err == Cause(error)
    IN  CASE IsXCode(err)           -> err
          [] err.kind = "canceled"  -> Canceled
          [] err.kind = "deadline"  -> Deadline
          [] OTHER                  -> ServerErr

--------------------------------------------------------------------------------
\* What the server's interceptor makes of the error its handler returned.
ServerErrorInterceptor(err) == Err(FromError(err))

\* What grpc-go sends for an error the handlers and interceptors return.
GrpcServer(err) ==
    CASE err.kind \in {"nil", "grpc"} -> err
      [] err.kind = "canceled"        -> Err(Grpc("Canceled", err.msg, <<>>))
      [] err.kind = "deadline"        -> Err(Grpc("DeadlineExceeded", err.msg, <<>>))
      [] OTHER                        -> Err(GrpcFromError(err))

\* What the client's interceptor makes of the error of a call.
ClientErrorInterceptor(err) ==
    IF err = NoError
    THEN NoError
    ELSE LET gs == GrpcFromError(err) IN WithMessage(GrpcStatusToXCode(gs), gs.msg)

\* The body httpx.Error writes: always with HTTP status 200.
ErrHandler(err) ==
    LET x == CodeFromError(err) IN [http |-> 200, code |-> x.code, msg |-> Text(x)]
================================================================================

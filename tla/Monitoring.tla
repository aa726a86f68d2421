------------------------------- MODULE Monitoring ------------------------------
(* What can be seen of a process from outside: its entry in Consul, and the    *)
(* metrics and spans of the statements it makes through gorm (follow-rpc) or   *)
(* the Elasticsearch client (article-mq).  pkg/orm's plugin adds two callbacks *)
(* to each of gorm's six chains; pkg/es wraps the HTTP transport.  gorm puts a *)
(* callback whose named neighbour it does not know at the end of the chain, so *)
(* the plugin's pair may come around the SQL or behind it.  Durations are left *)
(* out.                                                                        *)
EXTENDS Registration, FiniteSets, Sequences

CONSTANT Statement      \* statements and HTTP requests; modes say how many come, in
                        \* mode.statements, by which methods, in mode.methods, and whether
                        \* gorm finds the neighbours, in mode.around

VARIABLES
    stmt,      \* each statement: its method, its place in the chain, whether it has failed
               \* or, in Elasticsearch's answer, been refused
    setting,   \* gorm's InstanceSet: what before callbacks leave for after callbacks
    span,      \* each statement's span: has the error been recorded, is its status Error
    errTotal   \* metricClientReqErrTotal by method and is_error

stmtVars == <<stmt, setting, span, errTotal>>
vars == <<mode, consulVars, stmtVars>>

gormMethods == {"create", "query", "update", "delete", "row", "raw"}
Method == gormMethods \cup {"es"}
NoStmt == [step |-> "none", method |-> "es", at |-> 0, failed |-> FALSE, refused |-> FALSE]
NoSpan == [open |-> FALSE, ended |-> FALSE, recorded |-> FALSE, error |-> FALSE]

ASSUME MonitoringAssumption ==
    /\ IsFiniteSet(Statement)
    /\ \A m \in Modes : m.statements \subseteq Statement /\ m.methods \subseteq Method /\ m.around \in BOOLEAN

\* A process that starts has counted nothing.
NothingCounted ==
    /\ stmt' = [s \in Statement |-> NoStmt]
    /\ setting' = {}
    /\ span' = [s \in Statement |-> NoSpan]
    /\ errTotal' = [m \in Method |-> [e \in BOOLEAN |-> 0]]

Init ==
    /\ mode \in Modes
    /\ InitRegistration
    /\ stmt = [s \in Statement |-> NoStmt]
    /\ setting = {}
    /\ span = [s \in Statement |-> NoSpan]
    /\ errTotal = [m \in Method |-> [e \in BOOLEAN |-> 0]]

\* Initialize: the order of a chain's callbacks.
Chain(m) ==
    IF m = "es" THEN <<"start", "request", "deferred">>
    ELSE IF mode.around THEN <<"before", "execute", "after">>
    ELSE <<"execute", "before", "after">>

At(s, callback) == stmt[s].step = "running" /\ Chain(stmt[s].method)[stmt[s].at] = callback

\* On to the next callback; over behind the last.
GoOn(s, failed, refused) ==
    stmt' = [stmt EXCEPT ![s].failed = failed, ![s].refused = refused, ![s].at = @ + 1,
                         ![s].step = IF stmt[s].at = Len(Chain(stmt[s].method)) THEN "over" ELSE @]

Make(s, m) ==
    /\ proc = "serving" /\ s \in mode.statements /\ m \in mode.methods
    /\ stmt[s].step = "none"
    /\ stmt' = [stmt EXCEPT ![s] = [step |-> "running", method |-> m, at |-> 1,
                                    failed |-> FALSE, refused |-> FALSE]]
    /\ UNCHANGED <<setting, span, errTotal>>

\* Bug: the setting is shared by the statements of a method.
InstanceKey_Shared(s, m) == <<m>>

\* InstanceSet and InstanceGet: a setting belongs to its statement and method.
InstanceKey(s, m) == <<s, m>>

StartSpan(s) == span' = [span EXCEPT ![s] = [NoSpan EXCEPT !.open = TRUE]]
EndSpan(s, recorded) ==
    span' = [span EXCEPT ![s].open = FALSE, ![s].ended = TRUE, ![s].recorded = recorded]
Inc(m, isError) == errTotal' = [errTotal EXCEPT ![m][isError] = @ + 1]

\* The six before callbacks: the start time, then the span.
Before(s) ==
    /\ At(s, "before")
    /\ LET key == InstanceKey(s, stmt[s].method)
       IN  setting' = {x \in setting : x.key # key} \cup {[key |-> key, span |-> s]}
    /\ StartSpan(s)
    /\ GoOn(s, stmt[s].failed, FALSE) /\ UNCHANGED errTotal

\* The SQL, with gorm's own callbacks around it.
Execute(s) ==
    /\ At(s, "execute")
    /\ \E failed \in BOOLEAN : GoOn(s, failed, FALSE)
    /\ UNCHANGED <<setting, span, errTotal>>

\* The six after callbacks: the counter, then the span (both settings are always there),
\* which has an error recorded but never a status set.
After(s) ==
    /\ At(s, "after")
    /\ \E x \in setting :
          /\ x.key = InstanceKey(s, stmt[s].method)
          /\ EndSpan(x.span, stmt[s].failed) /\ Inc(stmt[s].method, stmt[s].failed)
    /\ GoOn(s, stmt[s].failed, FALSE) /\ UNCHANGED setting

\* RoundTrip's span is started before the request...
RoundTripStart(s) ==
    /\ At(s, "start")
    /\ StartSpan(s)
    /\ GoOn(s, FALSE, FALSE) /\ UNCHANGED <<setting, errTotal>>

\* ... which fails, the error recorded and the status set, or is answered: an HTTP status
\* of 400 or more (refused) sets the span's status too, but is no error.
RoundTrip(s) ==
    /\ At(s, "request")
    /\ \/ /\ GoOn(s, TRUE, FALSE)
          /\ span' = [span EXCEPT ![s] = [@ EXCEPT !.recorded = TRUE, !.error = TRUE]]
       \/ \E refused \in BOOLEAN :
             GoOn(s, FALSE, refused) /\ span' = [span EXCEPT ![s].error = refused]
    /\ UNCHANGED <<setting, errTotal>>

\* ... and the deferred function counts the request by its error and ends the span.
RoundTripDeferred(s) ==
    /\ At(s, "deferred")
    /\ EndSpan(s, span[s].recorded) /\ Inc("es", stmt[s].failed)
    /\ GoOn(s, stmt[s].failed, stmt[s].refused) /\ UNCHANGED setting

\* A panic in the driver, recovered above: callbacks that follow are not called, the
\* deferred function is, without an error to see.
Unwind(s) ==
    /\ \/ At(s, "request") /\ GoOn(s, FALSE, FALSE)
       \/ At(s, "execute") /\ stmt' = [stmt EXCEPT ![s].step = "unwound"]
    /\ UNCHANGED <<setting, span, errTotal>>

StatementStep(s) ==
    \/ Before(s) \/ Execute(s) \/ After(s)
    \/ RoundTripStart(s) \/ RoundTrip(s) \/ RoundTripDeferred(s)
    \/ Unwind(s)

Next ==
    /\ UNCHANGED mode
    /\ \/ (Start \/ Panic \/ Shutdown \/ Die) /\ NothingCounted
       \/ /\ Opened \/ ServiceRegister \/ CheckRegister \/ UpdateTTL \/ Tick \/ \E h \in Address : Reap(h)
          /\ UNCHANGED stmtVars
       \/ /\ \E s \in Statement : StatementStep(s) \/ \E m \in Method : Make(s, m)
          /\ UNCHANGED consulVars

Spec == Init /\ [][Next]_vars

\* Time passes, due updates are made and Consul clears up.
FairSpec ==
    /\ Spec
    /\ WF_vars(Tick /\ UNCHANGED <<mode, stmtVars>>)
    /\ WF_vars(UpdateTTL /\ UNCHANGED <<mode, stmtVars>>)
    /\ \A h \in Address : WF_vars(Reap(h) /\ UNCHANGED <<mode, stmtVars>>)

--------------------------------------------------------------------------------
TypeOK ==
    /\ TypeOKRegistration
    /\ stmt \in [Statement -> [step : {"none", "running", "over", "unwound"}, method : Method,
                               at : 0 .. 4, failed : BOOLEAN, refused : BOOLEAN]]
    /\ \A x \in setting : x.span \in Statement
    /\ span \in [Statement -> [open : BOOLEAN, ended : BOOLEAN, recorded : BOOLEAN, error : BOOLEAN]]
    /\ errTotal \in [Method -> [BOOLEAN -> Nat]]

Over(m, e) == {s \in Statement : stmt[s].step = "over" /\ stmt[s].method = m /\ stmt[s].failed = e}

\* What a span shows of its statement: the error it failed with, and the status Error, which
\* only requests to Elasticsearch get, those that were refused among them.
Shown(s) ==
    /\ span[s].recorded <=> stmt[s].failed
    /\ span[s].error <=> stmt[s].method = "es" /\ (stmt[s].failed \/ stmt[s].refused)

\* Whatever runs at once and fails, each statement that has come to its end has been counted
\* once, under its method and with whether it failed, and its own span has been ended and
\* shows its outcome; those in progress and those that panicked in gorm have not.
Accounted ==
    \A m \in Method, e \in BOOLEAN :
        /\ errTotal[m][e] = Cardinality(Over(m, e))
        /\ \A s \in Over(m, e) : span[s].ended /\ Shown(s)
================================================================================

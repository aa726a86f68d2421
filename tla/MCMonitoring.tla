------------------------------ MODULE MCMonitoring -----------------------------
(* Small instances of Monitoring: two addresses, three statements.             *)
EXTENDS Monitoring

CONSTANTS h1, h2

Listed == [TTL |-> 2, listenOn |-> allEths, podIP |-> {NoIP}, internalIP |-> {h1, h2}, starts |-> 2,
           registers |-> TRUE, statements |-> {}, methods |-> {}, around |-> TRUE]

\* Short TTLs and a process that comes back, perhaps at another address; the default TTL.
Lists == {[Listed EXCEPT !.TTL = t] : t \in {1, 2, 3}}
         \cup {[Listed EXCEPT !.TTL = 0, !.starts = 1],
               [Listed EXCEPT !.podIP = {h1}, !.internalIP = {h2, NoIP}],
               [Listed EXCEPT !.listenOn = h2, !.podIP = {h1}], [Listed EXCEPT !.internalIP = {NoIP}]}

\* Services that are not listed make statements.
Unlisted == [Listed EXCEPT !.registers = FALSE, !.starts = 1, !.statements = Statement]
Makes == {[Unlisted EXCEPT !.methods = {"query", m}, !.around = a] : m \in gormMethods, a \in BOOLEAN}
         \cup {[Unlisted EXCEPT !.methods = {"es"}]}

AllModes == Lists \cup Makes
================================================================================

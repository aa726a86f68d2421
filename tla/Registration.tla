------------------------------ MODULE Registration -----------------------------
(* How a process of user-rpc, article-rpc or article-api is listed in Consul:  *)
(* pkg/consul's Register lists it with a check that has to be updated within   *)
(* the TTL; a goroutine updates it every TTL - 1 seconds, a shutdown takes the *)
(* entry away, a crash leaves it to Consul.  One process at a time; it may     *)
(* come back at another host.  One Tick is a second; an update that does not   *)
(* return within its period counts as lost.                                    *)
EXTENDS Integers

CONSTANTS
    Host,       \* addresses of this machine's interfaces
    Modes       \* conf.TTL, listenOn - the configured host, podIP, internalIP - sets of
                \* addresses the process may find, starts - bound on its starts,
                \* registers - its main calls Register

allEths == "0.0.0.0"
NoIP == "none"
defaultTTL == 10

ASSUME RegistrationAssumption ==
    /\ allEths \notin Host /\ NoIP \notin Host
    /\ \A m \in Modes : /\ m.TTL \in Int /\ m.starts \in Nat /\ m.registers \in BOOLEAN
                        /\ m.listenOn \in Host \cup {allEths, NoIP}
                        /\ m.podIP \subseteq Host \cup {NoIP} /\ m.internalIP \subseteq Host \cup {NoIP}

VARIABLES
    mode,      \* of the behaviour, fixed
    proc,      \* where main is
    host,      \* the address the process registers
    ticker,    \* seconds to the next UpdateTTL
    lost,      \* history: updates in a row without effect
    entry,     \* Consul: seconds since each host's entry was last reported passing
    starts     \* history: starts of the process

consulVars == <<proc, host, ticker, lost, entry, starts>>

Absent == -1
NoTicker == -1
MaxLost == 4
Address == Host \cup {allEths, NoIP}

\* Bug: the default is not applied.
ttl_NoDefault == mode.TTL

ttl == IF mode.TTL <= 0 THEN defaultTTL ELSE mode.TTL

\* Bug: an update a second after the TTL.
ttlTicker_TTLPlusOne == ttl + 1

\* A second before the TTL, but no shorter than a second.
ttlTicker == IF ttl - 1 < 1 THEN 1 ELSE ttl - 1

\* Bug: a critical service stays.
expiredTTL_Never == 100 * ttl

\* DeregisterCriticalServiceAfter.
expiredTTL == 3 * ttl

\* Ages are told apart up to the one at which Consul takes the entry away.
Oldest == ttl + 3 * ttl

\* listenOn with the machine's address for "all interfaces", if there is one.
figureOutListenOn(listenOn, podIP, internalIP) ==
    IF listenOn \notin {NoIP, allEths} THEN listenOn
    ELSE IF podIP # NoIP THEN podIP
    ELSE IF internalIP # NoIP THEN internalIP
    ELSE listenOn

InitRegistration ==
    /\ proc = "down" /\ host = NoIP
    /\ ticker = NoTicker /\ lost = 0
    /\ entry = [h \in Address |-> Absent]
    /\ starts = 0

\* A process is started; its resources are opened before it registers.
Start ==
    /\ proc = "down" /\ starts < mode.starts
    /\ proc' = "opening" /\ starts' = starts + 1
    /\ UNCHANGED <<host, ticker, lost, entry>>

\* The Must... constructors panic.
Panic ==
    /\ proc = "opening" /\ proc' = "down"
    /\ UNCHANGED <<host, ticker, lost, entry, starts>>

\* The address, the port and the client's configuration are fine, or main goes on unlisted.
Opened ==
    /\ proc = "opening"
    /\ \E podIP \in mode.podIP, ip \in mode.internalIP :
          host' = figureOutListenOn(mode.listenOn, podIP, ip)
    /\ \/ proc' = "serving"
       \/ mode.registers /\ proc' = "registering"
    /\ UNCHANGED <<ticker, lost, entry, starts>>

\* An error of Consul's may come before or after the entry is made; either way main goes on.
ServiceRegister ==
    /\ proc = "registering"
    /\ \/ proc' = "checking" /\ entry' = [entry EXCEPT ![host] = 0]
       \/ proc' = "serving" /\ \E age \in {0, entry[host]} : entry' = [entry EXCEPT ![host] = age]
    /\ UNCHANGED <<host, ticker, lost, starts>>

\* The check starts passing; Consul refuses one for a service it does not know.
CheckRegister ==
    /\ proc = "checking" /\ proc' = "serving"
    /\ \/ /\ entry[host] # Absent
          /\ entry' = [entry EXCEPT ![host] = 0]
          /\ ticker' = ttlTicker /\ lost' = 0
       \/ /\ \E age \in {0, entry[host]} : entry[host] # Absent /\ entry' = [entry EXCEPT ![host] = age]
          /\ UNCHANGED <<ticker, lost>>
       \/ UNCHANGED <<entry, ticker, lost>>
    /\ UNCHANGED <<host, starts>>

Registered == proc = "serving" /\ ticker # NoTicker

\* An entry that is gone is not made again: the error is logged.
UpdateTTL ==
    /\ Registered /\ ticker = 0
    /\ ticker' = ttlTicker
    /\ \/ entry[host] # Absent /\ entry' = [entry EXCEPT ![host] = 0] /\ lost' = 0
       \/ lost' = (IF lost < MaxLost THEN lost + 1 ELSE lost) /\ UNCHANGED entry
    /\ UNCHANGED <<proc, host, starts>>

\* The process ends in order: the listener, if Register added it, deregisters.
Shutdown ==
    /\ proc = "serving" /\ proc' = "down"
    /\ ticker' = NoTicker /\ lost' = 0
    /\ \/ Registered /\ entry' = [entry EXCEPT ![host] = Absent]
       \/ UNCHANGED entry
    /\ UNCHANGED <<host, starts>>

Die ==
    /\ proc # "down" /\ proc' = "down"
    /\ ticker' = NoTicker /\ lost' = 0
    /\ UNCHANGED <<host, entry, starts>>

\* Consul takes away an entry that has been critical for expiredTTL.
Reap(h) ==
    /\ entry[h] >= ttl + expiredTTL
    /\ entry' = [entry EXCEPT ![h] = Absent]
    /\ UNCHANGED <<proc, host, ticker, lost, starts>>

\* A due update comes before the next second.
Tick ==
    /\ ticker # 0
    /\ ticker' = IF ticker = NoTicker THEN NoTicker ELSE ticker - 1
    /\ entry' = [h \in Address |-> IF entry[h] = Absent \/ entry[h] = Oldest THEN entry[h] ELSE entry[h] + 1]
    /\ UNCHANGED <<proc, host, lost, starts>>

TypeOKRegistration ==
    /\ mode \in Modes
    /\ proc \in {"down", "opening", "registering", "checking", "serving"}
    /\ host \in Address
    /\ ticker \in NoTicker .. ttl /\ lost \in 0 .. MaxLost
    /\ entry \in [Address -> Absent .. Oldest]
    /\ starts \in 0 .. mode.starts

\* "Keep marking the service passing, so that Consul does not take it for dead": a process
\* that updates its entry is listed until four updates in a row are lost, and never critical
\* while none is.  With a TTL of one second the period is no shorter than the TTL: the entry
\* turns critical between updates, and three losses are enough to lose it.
StaysListed ==
    Registered /\ (lost < 3 \/ (lost = 3 /\ ttl > 1)) =>
        /\ entry[host] # Absent
        /\ lost = 0 /\ ttl > 1 => entry[host] < ttl

Attended(h) == Registered /\ host = h

\* Whatever Register left half done and whoever died or moved: an entry that nobody updates
\* goes.
EntriesGo == \A h \in Address : entry[h] # Absent /\ ~Attended(h) ~> entry[h] = Absent \/ Attended(h)
================================================================================

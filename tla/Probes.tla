-------------------------------- MODULE Probes --------------------------------
(***************************************************************************)
(* ndn-ping and ndn-traceroute (ndn-tools-core/src/ping.rs, traceroute.rs) *)
(* asking one ping server, which answers behind the last of a line of      *)
(* forwarders.  Both number their probes from 0 in every run, under the    *)
(* server's prefix; the traceroute raises the hop limit from 1 until the   *)
(* server answers.                                                         *)
(*                                                                         *)
(* The forwarders are external.  An Interest is answered by the first one  *)
(* that has Data of its name, fresh if it must be; by the server, if its   *)
(* hop limit takes it there; or, if it asks for identities, by the         *)
(* forwarder where it expires, if that one gives its own.  Data is cached  *)
(* on its way; either packet may be lost, the server may be gone, and so   *)
(* may a route.                                                            *)
(***************************************************************************)
EXTENDS Naturals

CONSTANTS
    Distance,   \* forwarders between the clients and the server
    MaxHops,    \* --max-hops
    ProbeCounts,\* --probes, of one run or another
    Count,      \* --count of the pings
    Naming,     \* forwarders that give their identity
    MaxRuns     \* bound: runs in all

Line == 1 .. Distance
Server == 0     \* who answers: a forwarder of the line, or the server
None == [by |-> Server, probe |-> 0]

ASSUME ProbesAssumption ==
    /\ Distance \in Nat \ {0} /\ MaxHops \in Nat \ {0} /\ MaxRuns \in Nat
    /\ ProbeCounts \subseteq Nat \ {0} /\ Count \in Nat \ {0} /\ Naming \subseteq Line

VARIABLES
    fresh,  \* answers have a freshness period
    store,  \* forwarder -> its content store
    trace,  \* the traceroute
    ping    \* the ping client

probeVars == <<fresh, store, trace, ping>>

Idle(run) == [pc |-> "idle", run |-> run]

\* run counts the runs; what a run has is set when it starts.  answer is a history
\* variable: who made the last answer, for which of its probes; stale is another:
\* how many answers were made for other runs.
ProbesInit ==
    /\ fresh \in BOOLEAN
    /\ store = [k \in Line |-> {}]
    /\ trace = Idle(0) /\ ping = Idle(0)

-----------------------------------------------------------------------------
(* The network, as one Interest sees it. *)

Usable(d, i) == d.name = i.name /\ (i.mustBeFresh => d.fresh)
Caching(i) == {k \in Line : k <= i.hops /\ \E d \in store[k] : Usable(d, i)}

\* The first of them.
Nearest(i) == {k \in Caching(i) : \A j \in Caching(i) : k <= j}

\* Who was asked makes it, under the name it was asked by.
Made(i, by) == [name |-> i.name, by |-> by, run |-> i.run, probe |-> i.probe, fresh |-> fresh]

\* The Data that may answer i, with the forwarders it passes.
Answers(i) ==
    IF Caching(i) # {}
    THEN UNION {{[data |-> d, passes |-> 1 .. k - 1] : d \in {x \in store[k] : Usable(x, i)}} :
                    k \in Nearest(i)}
    ELSE {[data |-> Made(i, IF h = Distance THEN Server ELSE h), passes |-> 1 .. h] :
              h \in {k \in Line : (i.hops >= k /\ k = Distance) \/ (i.marked /\ k = i.hops /\ k \in Naming)}}

Cached(a) == [k \in Line |-> IF k \in a.passes
                             THEN {d \in store[k] : d.name # a.data.name} \cup {a.data} ELSE store[k]]

\* fetch_wire: Data, a Nack for want of a route, or no answer in time.  Data that
\* is lost on its last hop is cached all the same.
Fetch(i, Got(_), Nacked, TimedOut) ==
    \/ \E a \in Answers(i) : store' = Cached(a) /\ (Got(a.data) \/ TimedOut)
    \/ Caching(i) = {} /\ Nacked /\ UNCHANGED store
    \/ TimedOut /\ UNCHANGED store

-----------------------------------------------------------------------------
(* traceroute::run_client *)

TraceStart ==
    /\ trace.pc \in {"idle", "done", "failed"} /\ trace.run + ping.run < MaxRuns
    /\ \E n \in ProbeCounts, identify \in BOOLEAN :
        trace' = [pc |-> "hop", run |-> trace.run + 1, probes |-> n, identify |-> identify,
                  hop |-> 1, tries |-> 0, seq |-> 0, outcome |-> "timeout", reached |-> 0,
                  missed |-> {}, answer |-> None, stale |-> 0]
    /\ UNCHANGED <<fresh, store, ping>>

\* <prefix>/ping/<seq>, with the marker if identities are asked for.
ProbeName == [seq |-> trace.seq, marked |-> trace.identify]

TraceInterest ==
    [name |-> ProbeName, marked |-> trace.identify, hops |-> trace.hop, mustBeFresh |-> TRUE,
     run |-> <<"trace", trace.run>>, probe |-> trace.seq]

\* Mutant of Outcome: every answer is the server's.
OutcomeReached(d) == "reached"

\* An identity, if it was asked for, is no answer of the server.
Outcome(d) == IF trace.identify /\ d.by # Server THEN "hop" ELSE "reached"

\* One probe: Data ends the hop, after a Nack or a timeout the next probe follows.
Probe ==
    /\ trace.pc = "hop" /\ trace.tries < trace.probes
    /\ Fetch(TraceInterest,
             LAMBDA d : trace' = [trace EXCEPT !.seq = @ + 1, !.tries = trace.probes, !.outcome = Outcome(d),
                                               !.answer = [by |-> d.by, probe |-> d.probe],
                                               !.stale = IF d.run = <<"trace", trace.run>> THEN @ ELSE @ + 1],
             trace' = [trace EXCEPT !.seq = @ + 1, !.tries = @ + 1, !.outcome = "nack"],
             trace' = [trace EXCEPT !.seq = @ + 1, !.tries = @ + 1])
    /\ UNCHANGED <<fresh, ping>>

\* The consumer loses the forwarder: the run ends without a summary.
TraceFails ==
    /\ trace.pc = "hop" /\ trace.tries < trace.probes
    /\ trace' = [trace EXCEPT !.pc = "failed"]
    /\ UNCHANGED <<fresh, store, ping>>

\* The hop is over: the server was reached, there is no route, or the next hop
\* follows, if there is one and somebody still listens.
HopDone ==
    /\ trace.pc = "hop" /\ trace.tries = trace.probes
    /\ LET over == [trace EXCEPT !.pc = "done",
                        !.missed = IF trace.outcome = "timeout" THEN @ \cup {trace.hop} ELSE @]
       IN CASE trace.outcome = "reached" -> trace' = [over EXCEPT !.reached = trace.hop]
            [] trace.outcome = "nack" -> trace' = over
            [] OTHER -> \/ trace' = over
                        \/ /\ trace.hop < MaxHops
                           /\ trace' = [over EXCEPT !.pc = "hop", !.hop = @ + 1, !.tries = 0, !.outcome = "timeout"]
    /\ UNCHANGED <<fresh, store, ping>>

-----------------------------------------------------------------------------
(* ping::run_client *)

PingStart ==
    /\ ping.pc \in {"idle", "done"} /\ trace.run + ping.run < MaxRuns
    /\ ping' = [pc |-> "ping", run |-> ping.run + 1, seq |-> 0, received |-> 0, nacks |-> 0,
                timeouts |-> 0, stale |-> 0]
    /\ UNCHANGED <<fresh, store, trace>>

PingInterest ==
    [name |-> [seq |-> ping.seq, marked |-> FALSE], marked |-> FALSE, hops |-> Distance,
     mustBeFresh |-> FALSE, run |-> <<"ping", ping.run>>, probe |-> ping.seq]

Lost(p) == [p EXCEPT !.timeouts = @ + 1, !.seq = @ + 1]

\* Mutant of Received: the answer alone is counted.
ReceivedOnly(p, d) == [p EXCEPT !.received = @ + 1]

\* stale is history: answers that were made for another run.
Received(p, d) == [p EXCEPT !.received = @ + 1, !.seq = @ + 1,
                            !.stale = IF d.run = <<"ping", p.run>> THEN @ ELSE @ + 1]

Ping ==
    /\ ping.pc = "ping" /\ ping.seq < Count
    /\ Fetch(PingInterest, LAMBDA d : ping' = Received(ping, d),
             ping' = [ping EXCEPT !.nacks = @ + 1, !.seq = @ + 1], ping' = Lost(ping))
    /\ UNCHANGED <<fresh, trace>>

\* All sent, nobody listens any more, or the consumer lost the forwarder: the
\* summary.
PingEnds ==
    /\ ping.pc = "ping"
    /\ ping' = [ping EXCEPT !.pc = "done"]
    /\ UNCHANGED <<fresh, store, trace>>

Aged(d) == [name |-> d.name, by |-> d.by, run |-> d.run, probe |-> d.probe, fresh |-> FALSE]

\* A freshness period is over.
Age ==
    /\ store' = [k \in Line |-> {Aged(d) : d \in store[k]}]
    /\ store' # store
    /\ UNCHANGED <<fresh, trace, ping>>

ProbesNext == TraceStart \/ Probe \/ TraceFails \/ HopDone \/ PingStart \/ Ping \/ PingEnds \/ Age

ProbesSpec == ProbesInit /\ [][ProbesNext]_probeVars

-----------------------------------------------------------------------------
(* Properties *)

\* traceroute.rs: "the smallest HopLimit that draws a response": a distance that is
\* reported is the server's, unless its probes were lost there, and a hop that
\* names itself is the one asked, whatever Nacks and losses came before; only
\* Data made for another run can make it otherwise.
TraceIsTrue ==
    trace.pc \in {"hop", "done"} /\ trace.stale = 0 =>
        /\ trace.outcome = "hop" => trace.answer.by = trace.hop
        /\ trace.reached # 0 =>
              /\ trace.answer.by = Server
              /\ trace.reached >= Distance /\ Distance .. trace.reached - 1 \subseteq trace.missed

\* traceroute.rs: "fresh per probe so the Content Store never aliases an earlier
\* hop's answer": no probe is answered from Data made for an earlier one of its
\* run.
ProbesAreFresh ==
    trace.pc = "hop" /\ trace.stale = 0 /\ trace.outcome \in {"hop", "reached"}
        => trace.answer.probe = trace.seq - 1

\* What a trace says of the path, and what its probes were answered by.
TraceInv == TraceIsTrue /\ ProbesAreFresh

\* The ping's report: every ping sent was answered, refused or lost, each counted
\* once, whichever of them the cache answered, and the loss is never negative.
PingReport ==
    ping.pc # "idle" =>
        /\ ping.seq = ping.received + ping.nacks + ping.timeouts
        /\ ping.stale <= ping.received /\ ping.seq <= Count

\* README.md of ndn-tools: ndn-ping probes "reachability + latency": an answer is
\* from the server, asked for by this run.  It is not: the names are those of the
\* run before, and stale Data will do.
PingProvesReachable == ping.pc # "idle" => ping.stale = 0

\* traceroute.rs: "Ramp HopLimit from 1 until a response returns (the target's
\* forwarder-hop distance)".  With a server that gives its Data a freshness period
\* a ping's cached answer is nearer than the server.
DistanceIsTheServers == trace.pc = "done" /\ trace.reached # 0 => trace.reached >= Distance
===============================================================================

----------------------------- MODULE IperfClient -----------------------------
(***************************************************************************)
(* ndn-iperf's forward client, run_client in                               *)
(* crates/tooling/ndn-tools-core/src/iperf.rs: a sliding-window consumer   *)
(* that negotiates a session, keeps a congestion window of Interests       *)
(* outstanding until its deadline, retransmits the stale ones a bounded    *)
(* number of times, drains what is left and reports the loss.              *)
(*                                                                         *)
(* Time is counted in check intervals (100 ms).  The forwarder and the     *)
(* server are the network: every Interest sent puts one copy of its name   *)
(* in net, and a copy comes back as Data, comes back as a Nack, or is      *)
(* lost.  The window of the congestion controller (crate ndn-transport,    *)
(* outside this repository) moves as its interface says: up on Data, down  *)
(* on a timeout, between its two bounds.                                   *)
(***************************************************************************)
EXTENDS FiniteSets, Naturals

CONSTANTS
    InitialWindow,  \* --window
    MinWindow,      \* the congestion controller's lower bound
    MaxWindow,      \* and its upper bound
    Deadline,       \* --duration, in check intervals
    DrainTicks,     \* drain_timeout, in check intervals (5)
    MinRto,         \* 200 ms, in check intervals (2)
    MaxRto,         \* bound on 3 * srtt, in check intervals
    MAX_RETRIES,    \* 3 in the code
    MaxSeq          \* bound of the model: sequence numbers the flow may use

ASSUME WindowAssumption ==
    /\ InitialWindow \in Nat
    /\ MinWindow \in Nat /\ MaxWindow \in Nat
    /\ MinWindow <= MaxWindow
ASSUME TimeAssumption ==
    /\ Deadline \in Nat
    /\ DrainTicks \in Nat \ {0}
    /\ MinRto \in Nat /\ MaxRto \in Nat
    /\ 0 < MinRto /\ MinRto <= MaxRto
ASSUME BoundAssumption ==
    /\ MAX_RETRIES \in Nat
    /\ MaxSeq \in Nat

Seqs == 0 .. MaxSeq - 1
Phases == {"negotiating", "testing", "done", "failed"}

VARIABLES
    phase,          \* where run_client is; "failed" when it returns an error
    clock,          \* check intervals since the start of the test
    timestamps,     \* seq -> when it was last sent and how often it was resent
    next_seq,
    in_flight,      \* the counter the window is compared with
    received,       \* packets received, whatever they are
    acked,          \* how many RTT samples were taken (rtts.len())
    retx_count,
    timed_out,
    past_deadline,
    cwnd,           \* cc.window().floor()
    net,            \* seq -> copies still travelling, as Interest, Data or Nack
    sessionLate     \* the session reply was not there in time and may still come

counters == <<next_seq, in_flight, received, acked, retx_count, timed_out>>
vars == <<phase, clock, timestamps, counters, past_deadline, cwnd, net,
          sessionLate>>

(***************************************************************************)
(* Helpers.                                                                *)
(***************************************************************************)
Lesser(a, b) == IF a <= b THEN a ELSE b
Greater(a, b) == IF a >= b THEN a ELSE b
Less(a, b) == Greater(a, b) - b     \* a.saturating_sub(b)

\* Mutant of Fresh: numbers that start one too early.
FreshReusing(flying, allowed) ==
    Less(next_seq, 1) .. Lesser(next_seq + Less(allowed, flying), MaxSeq + 1) - 2

\* The sequence numbers `while in_flight < allowed` sends, as far as MaxSeq
\* lets it.
Fresh(flying, allowed) ==
    next_seq .. Lesser(next_seq + Less(allowed, flying), MaxSeq) - 1

\* The map once `gone` left it and `sent` was stamped with the present clock
\* and the retry counts r.
Restamp(gone, sent, r) ==
    [s \in (DOMAIN timestamps \ gone) \cup sent |->
        IF s \in sent THEN [t0 |-> clock', retries |-> r[s]]
                      ELSE timestamps[s]]

\* timestamps.remove(&seq): the outstanding Interests a packet answers.
\* (Mutant: every packet with a sequence number counts as an answer.)
HitAny(seqs) == seqs
Hit(seqs) == seqs \cap DOMAIN timestamps

MayRefill == ~past_deadline /\ clock' < Deadline

Exhausted(s) == timestamps[s].retries >= MAX_RETRIES

Transmit(copies, sent) ==
    [s \in Seqs |-> IF s \in sent THEN copies[s] + 1 ELSE copies[s]]

(***************************************************************************)
(* Start: connect, register, send the session Interest.                    *)
(***************************************************************************)
Init ==
    /\ phase = "negotiating"
    /\ clock = 0
    /\ timestamps = [s \in {} |-> [t0 |-> 0, retries |-> 0]]
    /\ next_seq = 0 /\ in_flight = 0
    /\ received = 0 /\ acked = 0
    /\ retx_count = 0 /\ timed_out = 0
    /\ past_deadline = FALSE
    /\ cwnd \in MinWindow .. MaxWindow
    /\ net = [s \in Seqs |-> 0]
    /\ sessionLate = FALSE

(***************************************************************************)
(* The session reply arrives, or the wait for it times out and the test    *)
(* goes ahead without it; either way the first window is sent.             *)
(***************************************************************************)
Negotiated(late) ==
    LET burst == Fresh(0, Lesser(InitialWindow, cwnd))
    IN  /\ phase = "negotiating"
        /\ phase' = "testing"
        /\ sessionLate' = late
        /\ UNCHANGED clock
        /\ timestamps' = Restamp({}, burst, [s \in burst |-> 0])
        /\ next_seq' = next_seq + Cardinality(burst)
        /\ in_flight' = in_flight + Cardinality(burst)
        /\ net' = Transmit(net, burst)
        /\ UNCHANGED <<received, acked, retx_count, timed_out, past_deadline,
                       cwnd>>

(***************************************************************************)
(* A packet arrives before the timeout.  seqs holds the sequence number    *)
(* extract_seq finds in it, if any; copies is what still travels.  The     *)
(* handler counts the packet whatever it is, settles the Interest if it is *)
(* outstanding, and refills the window unless the deadline has passed.     *)
(***************************************************************************)
OnPacket(seqs, copies) ==
    /\ phase = "testing"
    /\ clock' \in {clock, clock + 1}
    /\ cwnd' \in cwnd .. MaxWindow
    /\ LET hit == Hit(seqs)
           flying == Less(in_flight, Cardinality(hit))
           fresh == IF MayRefill THEN Fresh(flying, cwnd') ELSE {}
       IN  /\ received' = received + 1
           /\ acked' = acked + Cardinality(hit)
           /\ timestamps' = Restamp(hit, fresh, [s \in fresh |-> 0])
           /\ next_seq' = next_seq + Cardinality(fresh)
           /\ in_flight' = flying + Cardinality(fresh)
           /\ net' = Transmit(copies, fresh)
           /\ past_deadline' = ~MayRefill
    /\ phase' = IF past_deadline' /\ DOMAIN timestamps' = {}
                THEN "done" ELSE "testing"
    /\ UNCHANGED <<retx_count, timed_out>>

RecvData(s) ==
    /\ net[s] > 0
    /\ OnPacket({s}, [net EXCEPT ![s] = @ - 1])
    /\ UNCHANGED sessionLate

\* A Nack is not a Data packet: it has no sequence number for extract_seq.
RecvNack(s) ==
    /\ net[s] > 0
    /\ OnPacket({}, [net EXCEPT ![s] = @ - 1])
    /\ UNCHANGED sessionLate

\* The session reply nobody waits for any more: its last name component is
\* not a number.
RecvLateSession ==
    /\ sessionLate
    /\ sessionLate' = FALSE
    /\ OnPacket({}, net)

(***************************************************************************)
(* Nothing arrived for one check interval before the deadline: Interests   *)
(* older than the retransmission timeout are given up after MAX_RETRIES    *)
(* resends; of the others, at most max(cwnd / 2, 2), in the map's          *)
(* arbitrary order, are sent again.                                        *)
(***************************************************************************)
RetransmitTimeout ==
    /\ phase = "testing" /\ ~past_deadline
    /\ clock' = clock + 1
    /\ clock' < Deadline
    /\ \E rto \in MinRto .. MaxRto :
        LET stale == {s \in DOMAIN timestamps :
                        clock' - timestamps[s].t0 >= rto}
            gave_up == {s \in stale : Exhausted(s)}
            max_retx == Greater(cwnd \div 2, 2)
        IN  \E resend \in SUBSET (stale \ gave_up) :
            /\ Cardinality(resend) =
                    Lesser(Cardinality(stale \ gave_up), max_retx)
            /\ timestamps' = Restamp(gave_up, resend,
                    [s \in resend |-> timestamps[s].retries + 1])
            /\ in_flight' = Less(in_flight, Cardinality(gave_up))
            /\ timed_out' = timed_out + Cardinality(gave_up)
            /\ retx_count' = retx_count + Cardinality(resend)
            /\ cwnd' \in IF resend = {} THEN {cwnd} ELSE MinWindow .. cwnd
            /\ net' = Transmit(net, resend)
    /\ UNCHANGED <<phase, next_seq, received, acked, past_deadline, sessionLate>>

\* Nothing arrived and the deadline has passed: from here on, drain.
DeadlineTimeout ==
    /\ phase = "testing" /\ ~past_deadline
    /\ clock' = clock + 1
    /\ clock' >= Deadline
    /\ past_deadline' = TRUE
    /\ UNCHANGED <<phase, timestamps, counters, cwnd, net, sessionLate>>

(***************************************************************************)
(* Nothing arrived for drain_timeout: drop what is at least that old and   *)
(* stop when nothing is left.  in_flight is not adjusted here.             *)
(***************************************************************************)
DrainTimeout ==
    LET kept == {s \in DOMAIN timestamps : clock' - timestamps[s].t0 < DrainTicks}
    IN  /\ phase = "testing" /\ past_deadline
        /\ clock' = clock + DrainTicks
        /\ timestamps' = [s \in kept |-> timestamps[s]]
        /\ phase' = IF kept = {} THEN "done" ELSE "testing"
        /\ UNCHANGED <<counters, past_deadline, cwnd, net, sessionLate>>

\* The forwarder closes the connection: during the negotiation this is an
\* error, during the test the client stops and reports.
ConnectionClosed ==
    /\ phase \in {"negotiating", "testing"}
    /\ phase' = IF phase = "testing" THEN "done" ELSE "failed"
    /\ UNCHANGED <<clock, timestamps, counters, past_deadline, cwnd, net,
                   sessionLate>>

\* client.send fails: the `?` returns the error and no summary is printed.
SendFails ==
    /\ phase \in {"negotiating", "testing"}
    /\ phase' = "failed"
    /\ UNCHANGED <<clock, timestamps, counters, past_deadline, cwnd, net,
                   sessionLate>>

\* The network loses a copy.
Lose(s) ==
    /\ phase \in {"negotiating", "testing"}
    /\ net[s] > 0
    /\ net' = [net EXCEPT ![s] = @ - 1]
    /\ UNCHANGED <<phase, clock, timestamps, counters, past_deadline, cwnd,
                   sessionLate>>

\* Mutants of Timeouts: nothing is drained; an empty window is refilled, as
\* the reverse consumer does it.
TimeoutsWaiting == RetransmitTimeout \/ DeadlineTimeout
TimeoutsRefilling ==
    \/ RetransmitTimeout \/ DeadlineTimeout \/ DrainTimeout
    \/ LET burst == Fresh(0, cwnd)
       IN  /\ phase = "testing" /\ ~past_deadline /\ DOMAIN timestamps = {}
           /\ clock' = clock + 1 /\ clock' < Deadline
           /\ timestamps' = Restamp({}, burst, [s \in burst |-> 0])
           /\ next_seq' = next_seq + Cardinality(burst)
           /\ in_flight' = Cardinality(burst)
           /\ net' = Transmit(net, burst)
           /\ UNCHANGED <<phase, received, acked, retx_count, timed_out,
                          past_deadline, cwnd, sessionLate>>

Timeouts == RetransmitTimeout \/ DeadlineTimeout \/ DrainTimeout

Next ==
    \/ Negotiated(FALSE)
    \/ Negotiated(TRUE)
    \/ \E s \in Seqs : RecvData(s) \/ RecvNack(s) \/ Lose(s)
    \/ RecvLateSession
    \/ Timeouts
    \/ ConnectionClosed
    \/ SendFails

Spec == Init /\ [][Next]_vars

\* tokio's timers always fire, so neither the wait for the session reply nor
\* a wait of the test loop lasts for ever.
FairSpec == Spec /\ WF_vars(Negotiated(TRUE)) /\ WF_vars(Timeouts)

(***************************************************************************)
(* The final report.                                                       *)
(***************************************************************************)
InFlightAtEnd == Cardinality(DOMAIN timestamps)
EffectiveSent == Less(next_seq, InFlightAtEnd)
\* (Mutant: what was given up is subtracted twice.)
LostTwice == Less(EffectiveSent, received) + timed_out
Lost == Less(EffectiveSent, received)

(***************************************************************************)
(* Properties.                                                             *)
(***************************************************************************)
Outstanding == DOMAIN timestamps

TypeOK ==
    /\ phase \in Phases
    /\ clock \in Nat
    /\ Outstanding \subseteq Seqs
    /\ timestamps \in [Outstanding -> [t0 : Nat, retries : Nat]]
    /\ next_seq \in 0 .. MaxSeq
    /\ in_flight \in Nat
    /\ received \in Nat /\ acked \in Nat
    /\ retx_count \in Nat /\ timed_out \in Nat
    /\ past_deadline \in BOOLEAN
    /\ cwnd \in MinWindow .. MaxWindow
    /\ net \in [Seqs -> Nat]
    /\ sessionLate \in BOOLEAN

\* The counter the window is compared with is the number of outstanding
\* Interests throughout the test, although it is kept apart from the map,
\* duplicates, Nacks and unknown packets arrive, and the drain does not
\* adjust it (it can only be wrong once the loop has ended).
WindowAccounting ==
    phase = "testing" => in_flight = Cardinality(Outstanding)

\* As long as the test runs, every Interest ever sent is exactly one of
\* outstanding, answered (one RTT sample) and given up.
Conservation ==
    phase = "testing" => next_seq = Cardinality(Outstanding) + acked + timed_out

\* Of no Interest do more than 1 + MAX_RETRIES copies ever travel, and of an
\* outstanding one no more than it was sent.
RetryBudget ==
    \A s \in Seqs :
        /\ net[s] <= MAX_RETRIES + 1
        /\ s \in Outstanding => /\ net[s] <= timestamps[s].retries + 1
                                /\ timestamps[s].retries <= MAX_RETRIES

\* Once the client has drained, the loss it prints never exceeds the number
\* of Interests that were never answered (it may fall short of it: Nacks,
\* duplicates and a late session reply count as received).
LossNeverOverstated ==
    phase = "done" => Lost <= next_seq - acked

\* A step that asks for something new leaves no more outstanding than the
\* congestion window it decided by.
NewWithinWindow ==
    [][next_seq' > next_seq => Cardinality(Outstanding') <= cwnd']_vars

\* The retransmission branch never refills the window: if every outstanding
\* Interest was given up and no copy travels any more, nothing is sent for
\* the rest of the test, however far away the deadline is.
EmptyWindowIsFinal ==
    [][/\ phase = "testing" /\ Outstanding = {}
       /\ \A s \in Seqs : net[s] = 0
       /\ ~sessionLate
       => net' = net /\ next_seq' = next_seq]_vars

\* The client implements the abstract flow: a sequence number is asked for
\* once as new, settles once, and none is asked for after the deadline.
Flow == INSTANCE WindowedFlow WITH
            Names <- Seqs, Cap <- MaxWindow,
            out <- Outstanding,
            settled <- (0 .. next_seq - 1) \ Outstanding,
            open <- ~past_deadline
ImplementsFlow == Flow!FlowSpec

\* Whatever is lost, the client comes to an end: it reports or fails.
Terminates == <>(phase \in {"done", "failed"})

\* README of ndn-tools: --window is "Max outstanding Interests".
WindowFlagIsMaximum == Cardinality(Outstanding) <= InitialWindow
===============================================================================

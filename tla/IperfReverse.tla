---------------------------- MODULE IperfReverse ----------------------------
(***************************************************************************)
(* ndn-iperf in reverse mode, crates/tooling/ndn-tools-core/src/iperf.rs:  *)
(* the client registers a callback prefix, negotiates a session with the   *)
(* server (run_client, run_server, handle_session_negotiation) and then    *)
(* produces Data (run_reverse_producer) for a consumer the server starts   *)
(* on a connection of its own (run_reverse_consumer); at the end the       *)
(* client fetches the consumer's report.                                   *)
(*                                                                         *)
(* Three tasks and the forwarder between them run at their own pace.  Time *)
(* passes in check intervals: what the code compares with the clock is a   *)
(* time left that runs down, or an age that grows up to the largest        *)
(* retransmission timeout.  The forwarder is outside this repository: it   *)
(* delivers a prefix's Interests to whoever registered it, in order, may   *)
(* lose packets, and drops Data nobody has asked for.                      *)
(***************************************************************************)
EXTENDS FiniteSets, Integers, Sequences

CONSTANTS
    MinWindow, MaxWindow,   \* bounds of the congestion controller, aimd() as it comes:
                            \* it never shuts the window
    Duration,               \* --duration, in check intervals
    MinRto,                 \* 200 ms
    MaxRto,                 \* bound on 3 * srtt
    MAX_RETRIES,            \* 3 in the code
    MaxSeq,                 \* bounds of the model: sequence numbers,
    MaxLosses               \* and packets lost

ASSUME ReverseAssumption ==
    /\ MinWindow \in Nat \ {0} /\ MaxWindow \in Nat /\ MinWindow <= MaxWindow
    /\ {Duration, MAX_RETRIES, MaxSeq, MaxLosses} \subseteq Nat
    /\ MinRto \in Nat \ {0} /\ MaxRto \in Nat /\ MinRto <= MaxRto

Seqs == 0 .. MaxSeq - 1
Result == MaxSeq        \* in an inbox: the consumer's report,
Filler == MaxSeq + 1    \* and what run_server answers any other name with

VARIABLES
    client,     \* "register", "ask", "await", "serve", "fetch", "done", "closed",
                \* "failed"
    serveLeft,  \* time until the producer's deadline
    registered, \* the callback prefix is in the FIB
    inbox,      \* what waits for client.recv() of the producer, in order
    printed,    \* the client printed the report
    session,    \* the session exchange: "none", "asked", "answered", "lost"
    asked,      \* the result Interest is pending in the forwarder
    consumer,   \* "none", "connect", "run", "report", "cut", "done", "failed"
    runLeft,    \* time until the consumer's deadline
    timestamps, \* seq -> its age and how often it was resent
    next_seq, in_flight, received,
    gave_up,    \* Interests given up, which the code does not count
    past_deadline,
    cwnd,       \* cc.window().floor()
    interests,  \* seq -> Interests travelling to the producer
    datas,      \* seq -> Data travelling to the consumer
    nacks,      \* Nacks travelling to the consumer
    dropped,    \* Interests that found no route
    losses

clientVars == <<client, serveLeft, registered, inbox, printed, session, asked>>
flowVars == <<timestamps, next_seq, in_flight, received, gave_up, past_deadline, cwnd>>
consumerVars == <<consumer, runLeft, flowVars>>
net == <<interests, datas, nacks, dropped, losses>>
vars == <<clientVars, consumerVars, net>>

NoCopies == [s \in Seqs |-> 0]
Gone(copies, s) == [copies EXCEPT ![s] = @ - 1]
Transmit(copies, sent) == [s \in Seqs |-> copies[s] + IF s \in sent THEN 1 ELSE 0]
Lesser(a, b) == IF a <= b THEN a ELSE b
Less(a, b) == IF a <= b THEN 0 ELSE a - b       \* saturating_sub

Init ==
    /\ client = "register" /\ serveLeft = Duration
    /\ registered = FALSE /\ inbox = <<>> /\ printed = FALSE
    /\ session = "none" /\ asked = FALSE
    /\ consumer = "none" /\ runLeft = Duration
    /\ timestamps = <<>> /\ next_seq = 0 /\ in_flight = 0 /\ received = 0
    /\ gave_up = 0 /\ past_deadline = FALSE
    /\ cwnd \in MinWindow .. MaxWindow
    /\ interests = NoCopies /\ datas = NoCopies /\ nacks = 0 /\ dropped = 0 /\ losses = 0

(***************************************************************************)
(* The client negotiates.                                                  *)
(***************************************************************************)
Register ==
    /\ client = "register" /\ client' = "ask"
    /\ registered' = TRUE
    /\ UNCHANGED <<serveLeft, inbox, printed, session, asked, consumerVars, net>>

SendSession ==
    /\ client = "ask" /\ client' = "await"
    /\ session' = "asked"
    /\ UNCHANGED <<serveLeft, registered, inbox, printed, asked, consumerVars, net>>

\* The reply, or lifetime + 500 ms without one: the client proceeds either way.
Negotiated ==
    /\ client = "await" /\ client' = "serve"
    /\ UNCHANGED <<serveLeft, registered, inbox, printed, session, asked, consumerVars, net>>

\* The connection in use is closed; with the client its registration goes.
ConnectionClosed ==
    /\ client \in {"await", "serve", "fetch"}
    /\ client' = IF client = "await" THEN "failed" ELSE "closed"
    /\ registered' = FALSE /\ inbox' = <<>>
    /\ UNCHANGED <<serveLeft, printed, session, asked, consumerVars, net>>

\* run_server: the reply goes out first, then the consumer is spawned; if the
\* reply cannot be sent there is no consumer.
HandleSession ==
    /\ session = "asked"
    /\ \/ session' = "answered" /\ consumer' = "connect"
       \/ session' = "lost" /\ UNCHANGED consumer
    /\ UNCHANGED <<client, serveLeft, registered, inbox, printed, asked,
                   runLeft, flowVars, net>>

(***************************************************************************)
(* The client produces.                                                    *)
(***************************************************************************)
\* Whatever Interest comes is answered, until the deadline.
Serve ==
    /\ client = "serve" /\ serveLeft > 0 /\ inbox # <<>>
    /\ inbox' = Tail(inbox)
    /\ datas' = Transmit(datas, {Head(inbox)})
    /\ UNCHANGED <<client, serveLeft, registered, printed, session, asked,
                   consumerVars, interests, nacks, dropped, losses>>

\* Then the report is asked for, on the same connection.
AskResult ==
    /\ client = "serve" /\ serveLeft = 0
    /\ client' = "fetch" /\ asked' = TRUE
    /\ UNCHANGED <<serveLeft, registered, inbox, printed, session, consumerVars, net>>

\* run_server gets the Interest, for its prefix is above the name, and answers
\* it as it answers any name that is not a session.
AnswerResult ==
    /\ asked /\ asked' = FALSE
    /\ inbox' = IF registered THEN Append(inbox, Filler) ELSE inbox
    /\ UNCHANGED <<client, serveLeft, registered, printed, session, consumerVars, net>>

\* One packet is taken, or 12 s pass (more than the Interest's lifetime); only a
\* report is printed.
FetchResult ==
    /\ client = "fetch" /\ client' = "done"
    /\ inbox # <<>> \/ ~asked
    /\ registered' = FALSE
    /\ printed' = (inbox # <<>> /\ Head(inbox) = Result)
    /\ inbox' = <<>>
    /\ UNCHANGED <<serveLeft, session, asked, consumerVars, net>>

(***************************************************************************)
(* The consumer: connecting, and asking for what the window allows.        *)
(***************************************************************************)
Connect ==
    /\ consumer = "connect"
    /\ consumer' \in {"run", "failed"}
    /\ UNCHANGED <<clientVars, runLeft, flowVars, net>>

\* in_flight, less what was answered or given up (saturating_sub).
Flying(gone) == Less(in_flight, Cardinality(gone))

\* Mutant of Fresh: numbers that start one too early.
FreshReusing(flying, allowed) ==
    Less(next_seq, 1) .. Lesser(next_seq + Less(allowed, flying), MaxSeq + 1) - 2

\* What `while in_flight < allowed` sends, as far as MaxSeq lets it.
Fresh(flying, allowed) ==
    next_seq .. Lesser(next_seq + Less(allowed, flying), MaxSeq) - 1

\* Mutant of Refill: after the first window only a packet refills.
RefillAfterPacket(flying, past) ==
    IF past \/ runLeft = 0 \/ (next_seq > 0 /\ received' = received)
    THEN {} ELSE Fresh(flying, cwnd')

\* Both a packet and a timeout end with a refill before the deadline.
Refill(flying, past) == IF past \/ runLeft = 0 THEN {} ELSE Fresh(flying, cwnd')

\* Outstanding Interests leave, some are sent again, new ones are sent.
Asks(gone, resend, past) ==
    LET flying == Flying(gone)
        fresh == Refill(flying, past)
    IN  /\ timestamps' = [s \in ((DOMAIN timestamps) \ gone) \cup fresh |->
                IF s \in fresh THEN [age |-> 0, retries |-> 0]
                ELSE IF s \in resend
                THEN [age |-> 0, retries |-> timestamps[s].retries + 1]
                ELSE timestamps[s]]
        /\ next_seq' = next_seq + Cardinality(fresh)
        /\ in_flight' = flying + Cardinality(fresh)
        /\ interests' = Transmit(interests, fresh \cup resend)

\* Mutant of MayEnd: the deadline alone ends the consumer.
MayEndAtOnce(past, left) == past
MayEnd(past, left) == past /\ left = {}

\* A packet is counted whatever it answers.
Recv(hit) ==
    /\ consumer = "run"
    /\ received' = received + 1
    /\ cwnd' \in cwnd .. MaxWindow
    /\ past_deadline' = (past_deadline \/ runLeft = 0)
    /\ Asks(hit, {}, past_deadline')
    /\ consumer' = IF MayEnd(past_deadline', DOMAIN timestamps') THEN "report" ELSE "run"
    /\ UNCHANGED <<clientVars, runLeft, gave_up, dropped, losses>>

RecvData(s) ==
    /\ datas[s] > 0 /\ datas' = Gone(datas, s) /\ UNCHANGED nacks
    /\ Recv({s} \cap DOMAIN timestamps)

\* A Nack has no sequence number for extract_seq.
RecvNack ==
    /\ nacks > 0 /\ nacks' = nacks - 1 /\ UNCHANGED datas
    /\ Recv({})

Exhausted(s) == timestamps[s].retries >= MAX_RETRIES

\* Mutant of Stale: nothing is given up once the deadline has passed.
StaleInTime(rto) == {s \in DOMAIN timestamps : timestamps[s].age >= rto /\ runLeft > 0}
Stale(rto) == {s \in DOMAIN timestamps : timestamps[s].age >= rto}

\* Nothing came for a check interval: the stale Interests are given up or sent
\* again, past the deadline too.
Timeout ==
    LET past == past_deadline \/ runLeft = 0
    IN  /\ consumer = "run" /\ ~MayEnd(past, DOMAIN timestamps)
        /\ past_deadline' = past
        /\ UNCHANGED <<clientVars, consumer, runLeft, received, datas, nacks, dropped, losses>>
        /\ \E rto \in MinRto .. MaxRto :
            LET over == {s \in Stale(rto) : Exhausted(s)}
                resend == Stale(rto) \ over
            IN  /\ cwnd' \in IF resend = {} THEN {cwnd} ELSE MinWindow .. cwnd
                /\ gave_up' = gave_up + Cardinality(over)
                /\ Asks(over, resend, past)

TimeoutEnds ==
    /\ consumer = "run" /\ MayEnd(past_deadline \/ runLeft = 0, DOMAIN timestamps)
    /\ consumer' = "report" /\ past_deadline' = TRUE
    /\ UNCHANGED <<clientVars, runLeft, timestamps, next_seq, in_flight, received,
                   gave_up, cwnd, net>>

\* The connection is closed, or a send fails and the `?` skips the report.
ConsumerCut ==
    /\ consumer = "run" /\ consumer' \in {"cut", "failed"}
    /\ UNCHANGED <<clientVars, runLeft, flowVars, net>>

\* The report is sent once, unasked; it only gets through while it is pending.
Report ==
    /\ consumer \in {"report", "cut"}
    /\ consumer' = IF consumer = "cut" THEN "failed" ELSE "done"
    /\ asked' = FALSE
    /\ inbox' = IF asked /\ registered THEN Append(inbox, Result) ELSE inbox
    /\ UNCHANGED <<client, serveLeft, registered, printed, session, runLeft, flowVars, net>>

(***************************************************************************)
(* The forwarder and time.                                                 *)
(***************************************************************************)
Deliver(s) ==
    /\ interests[s] > 0
    /\ interests' = Gone(interests, s)
    /\ IF registered
       THEN inbox' = Append(inbox, s) /\ UNCHANGED <<dropped, nacks>>
       ELSE dropped' = dropped + 1 /\ nacks' \in {nacks, nacks + 1} /\ UNCHANGED inbox
    /\ UNCHANGED <<client, serveLeft, registered, printed, session, asked, consumerVars,
                   datas, losses>>

Lose ==
    /\ losses < MaxLosses /\ losses' = losses + 1
    /\ \/ \E s \in Seqs : /\ interests[s] > 0 /\ interests' = Gone(interests, s)
                          /\ UNCHANGED <<datas, session, asked>>
       \/ \E s \in Seqs : /\ datas[s] > 0 /\ datas' = Gone(datas, s)
                          /\ UNCHANGED <<interests, session, asked>>
       \/ session = "asked" /\ session' = "lost" /\ UNCHANGED <<interests, datas, asked>>
       \/ asked /\ asked' = FALSE /\ UNCHANGED <<interests, datas, session>>
    /\ UNCHANGED <<client, serveLeft, registered, inbox, printed, consumerVars, nacks, dropped>>

\* A check interval passes.
Tick ==
    /\ serveLeft' = IF client = "serve" THEN Less(serveLeft, 1) ELSE serveLeft
    /\ runLeft' = IF consumer = "run" THEN Less(runLeft, 1) ELSE runLeft
    /\ timestamps' = [s \in DOMAIN timestamps |->
            [timestamps[s] EXCEPT !.age = Lesser(@ + 1, MaxRto)]]
    /\ UNCHANGED <<client, registered, inbox, printed, session, asked, consumer, next_seq,
                   in_flight, received, gave_up, past_deadline, cwnd, net>>

ClientNext ==
    \/ Register \/ SendSession \/ Negotiated \/ ConnectionClosed
    \/ Serve \/ AskResult \/ FetchResult
ConsumerNext ==
    \/ Connect \/ (\E s \in Seqs : RecvData(s)) \/ RecvNack \/ Timeout \/ TimeoutEnds
    \/ ConsumerCut \/ Report

Next ==
    \/ ClientNext \/ ConsumerNext
    \/ HandleSession \/ AnswerResult
    \/ (\E s \in Seqs : Deliver(s)) \/ Lose \/ Tick

Spec == Init /\ [][Next]_vars

\* tokio's timers fire and tasks that can run do; packets may travel for ever.
FairSpec ==
    /\ Spec
    /\ WF_vars(Tick) /\ WF_vars(HandleSession)
    /\ WF_vars(Timeout \/ TimeoutEnds) /\ WF_vars(Connect) /\ WF_vars(Report)
    /\ WF_vars(Register) /\ WF_vars(SendSession) /\ WF_vars(Negotiated)
    /\ WF_vars(AskResult) /\ WF_vars(AnswerResult) /\ WF_vars(FetchResult)

(***************************************************************************)
(* Properties.                                                             *)
(***************************************************************************)
Outstanding == DOMAIN timestamps

TypeOK ==
    /\ client \in {"register", "ask", "await", "serve", "fetch", "done", "closed", "failed"}
    /\ consumer \in {"none", "connect", "run", "report", "cut", "done", "failed"}
    /\ session \in {"none", "asked", "answered", "lost"}
    /\ {registered, printed, asked, past_deadline} \subseteq BOOLEAN
    /\ {serveLeft, runLeft} \subseteq 0 .. Duration
    /\ \A i \in DOMAIN inbox : inbox[i] \in Seqs \cup {Result, Filler}
    /\ Outstanding \subseteq Seqs
    /\ timestamps \in [Outstanding -> [age : 0 .. MaxRto, retries : 0 .. MAX_RETRIES]]
    /\ next_seq \in 0 .. MaxSeq
    /\ {in_flight, received, gave_up, nacks, dropped} \subseteq Nat
    /\ cwnd \in MinWindow .. MaxWindow
    /\ interests \in [Seqs -> Nat] /\ datas \in [Seqs -> Nat]
    /\ losses \in 0 .. MaxLosses

\* run_client: "Register callback prefix BEFORE session negotiation": none of
\* the consumer's Interests is dropped for want of a route as long as the client
\* runs, however the session, the consumer and the packets race.
CallbackReady == client \notin {"done", "closed", "failed"} => dropped = 0

\* The counter the window is compared with is the number of outstanding
\* Interests, to the end: unlike the forward client's drain, this loop goes on
\* accounting for what it gives up after the deadline.
WindowAccounting == consumer \in {"run", "report"} => in_flight = Cardinality(Outstanding)

\* A consumer that was not cut off reports only when every Interest it sent has
\* been answered or given up after MAX_RETRIES resends, duplicates or not.
ReportIsComplete ==
    consumer = "report" => Outstanding = {} /\ next_seq <= received + gave_up

\* What holds of client, server and consumer between any two of their steps: no
\* Interest of the consumer is without a route, its window counter is its map's
\* size to the end, and what it reports is settled.
ReverseInv == TypeOK /\ CallbackReady /\ WindowAccounting /\ ReportIsComplete

\* As WindowedFlow: numbers are new once, settled once, within the window.
Flow == INSTANCE WindowedFlow WITH
            Names <- Seqs, Cap <- MaxWindow,
            out <- Outstanding,
            settled <- (0 .. next_seq - 1) \ Outstanding,
            open <- ~past_deadline
ImplementsFlow == Flow!FlowSpec

\* An outage that makes the consumer give up all it asked for does not silence
\* it: before the deadline no check interval without a packet ends with nothing
\* outstanding (the forward client's does).
AsksAfterOutage ==
    [][Timeout /\ runLeft > 0 /\ next_seq < MaxSeq => Outstanding' # {}]_vars

\* Whatever is lost, both tasks come to their end.
BothEnd ==
    /\ <>(client \in {"done", "closed", "failed"})
    /\ <>[](consumer \in {"none", "done", "failed"})

\* run_client says of a finished test that the result is being fetched: with
\* nothing lost and no connection closed, it is printed in the end.
ResultIsPrinted == client = "done" /\ consumer = "done" => printed
=============================================================================

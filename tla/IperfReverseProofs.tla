--------------------------- MODULE IperfReverseProofs ---------------------------
(***************************************************************************)
(* Proofs about IperfReverse, for every window, duration, retry bound and  *)
(* number of sequence numbers and losses: what holds of client, server and *)
(* consumer between any two of their steps, that the consumer implements   *)
(* WindowedFlow, and that an outage does not silence it.                   *)
(***************************************************************************)
EXTENDS IperfReverse, FiniteSetTheorems, TLAPS

(***************************************************************************)
(* The invariant.                                                          *)
(***************************************************************************)
\* The exchange that precedes the consumer: its Interests come after the session,
\* and the session after the registration.
Prelude ==
    /\ registered <=> client \in {"ask", "await", "serve", "fetch"}
    /\ client \in {"register", "ask"} => session = "none"
    /\ session # "answered" => consumer = "none"
    /\ consumer \in {"none", "connect"} => next_seq = 0 /\ \A s \in Seqs : interests[s] = 0

\* The consumer's accounts, wherever it stands: the counter is the map's size, the
\* map's numbers are used ones, and what left the map was answered or given up.
Accounts ==
    /\ Outstanding \subseteq 0 .. next_seq - 1
    /\ in_flight = Cardinality(Outstanding)
    /\ next_seq <= Cardinality(Outstanding) + received + gave_up

Ending ==
    /\ consumer = "report" => Outstanding = {}
    /\ past_deadline => runLeft = 0

Packets == Seqs \cup {Result, Filler}

IInv ==
    /\ TypeOK /\ inbox \in Seq(Packets)
    /\ Prelude /\ CallbackReady /\ Accounts /\ Ending

(***************************************************************************)
(* Lemmas about the helpers.                                               *)
(***************************************************************************)
LEMMA Bounds ==
    /\ MinWindow \in Nat /\ MaxWindow \in Nat /\ 0 < MinWindow /\ MinWindow <= MaxWindow
    /\ Duration \in Nat /\ MAX_RETRIES \in Nat /\ MaxSeq \in Nat /\ MaxLosses \in Nat
    /\ MinRto \in Nat /\ MaxRto \in Nat /\ 0 < MinRto /\ MinRto <= MaxRto
BY ReverseAssumption DEF ReverseAssumption

LEMMA Arithmetic ==
    ASSUME NEW a \in Nat, NEW b \in Nat
    PROVE  /\ Less(a, b) \in Nat /\ Less(a, b) <= a
           /\ b <= a => Less(a, b) = a - b
           /\ a <= b => Less(a, b) = 0
           /\ Lesser(a, b) \in Nat /\ Lesser(a, b) <= a /\ Lesser(a, b) <= b
BY DEF Less, Lesser

LEMMA OfSeqs ==
    ASSUME NEW S \in SUBSET Seqs
    PROVE  IsFiniteSet(S) /\ Cardinality(S) \in Nat
<1>1. IsFiniteSet(Seqs)
  BY FS_Interval, Bounds DEF Seqs
<1> QED BY <1>1, FS_Subset, FS_CardinalityType

\* Part of a set goes, others come.
LEMMA Exchange ==
    ASSUME NEW S \in SUBSET Seqs, NEW gone \in SUBSET S,
           NEW new \in SUBSET Seqs, new \cap S = {}
    PROVE  /\ Cardinality(gone) <= Cardinality(S)
           /\ Cardinality((S \ gone) \cup new)
                = Cardinality(S) - Cardinality(gone) + Cardinality(new)
<1>1. /\ IsFiniteSet(S) /\ IsFiniteSet(gone) /\ IsFiniteSet(new) /\ IsFiniteSet(S \ gone)
      /\ Cardinality(S) \in Nat /\ Cardinality(gone) \in Nat /\ Cardinality(new) \in Nat
      /\ Cardinality(S \ gone) \in Nat
  BY OfSeqs
<1>2. Cardinality(S \ gone) = Cardinality(S) - Cardinality(gone)
  <2>1. Cardinality(S \ gone) = Cardinality(S) - Cardinality(S \cap gone)
    BY <1>1, FS_Difference
  <2>2. S \cap gone = gone
    OBVIOUS
  <2> QED BY <2>1, <2>2
<1>3. Cardinality((S \ gone) \cup new) = Cardinality(S \ gone) + Cardinality(new)
  <2>1. Cardinality((S \ gone) \cup new)
          = Cardinality(S \ gone) + Cardinality(new) - Cardinality((S \ gone) \cap new)
    BY <1>1, FS_Union
  <2>2. Cardinality((S \ gone) \cap new) = 0
    BY FS_EmptySet
  <2> QED BY <1>1, <2>1, <2>2
<1> QED BY <1>1, <1>2, <1>3

\* What a refill asks for is a run of numbers from next_seq on, as many as the
\* window has room for, as far as MaxSeq.
LEMMA FreshRuns ==
    ASSUME next_seq \in 0 .. MaxSeq, NEW f \in Nat, NEW w \in Nat
    PROVE  /\ Fresh(f, w) \in SUBSET Seqs
           /\ Cardinality(Fresh(f, w)) \in Nat
           /\ Fresh(f, w) = next_seq .. next_seq + Cardinality(Fresh(f, w)) - 1
           /\ next_seq + Cardinality(Fresh(f, w)) <= MaxSeq
           /\ Cardinality(Fresh(f, w)) <= Less(w, f)
           /\ f < w /\ next_seq < MaxSeq => 0 < Cardinality(Fresh(f, w))
<1> DEFINE top == Lesser(next_seq + Less(w, f), MaxSeq)
<1>1. /\ top \in next_seq .. MaxSeq /\ top <= next_seq + Less(w, f)
      /\ f < w /\ next_seq < MaxSeq => next_seq < top
  BY Bounds DEF Less, Lesser
<1>2. Fresh(f, w) = next_seq .. top - 1
  BY DEF Fresh
<1> HIDE DEF top
<1>3. Cardinality(next_seq .. top - 1) = top - next_seq
  <2>1. top - 1 \in Int /\ next_seq \in Int
    BY <1>1, Bounds
  <2>2. Cardinality(next_seq .. top - 1) =
            IF next_seq > top - 1 THEN 0 ELSE (top - 1) - next_seq + 1
    BY <2>1, FS_Interval
  <2> QED BY <1>1, <2>2, Bounds
<1> DEFINE n == Cardinality(Fresh(f, w))
<1>4. n = top - next_seq
  BY <1>2, <1>3
<1> HIDE DEF n
<1>5. /\ n \in Nat
      /\ next_seq .. top - 1 = next_seq .. next_seq + n - 1
      /\ next_seq + n <= MaxSeq /\ n <= Less(w, f)
      /\ next_seq .. top - 1 \subseteq 0 .. MaxSeq - 1
      /\ f < w /\ next_seq < MaxSeq => 0 < n
  BY <1>1, <1>4, Bounds DEF Less
<1> QED BY <1>2, <1>5 DEF n, Seqs

\* The consumer's counters have room for one more copy of each name sent.
LEMMA Transmits ==
    ASSUME NEW c \in [Seqs -> Nat], NEW sent
    PROVE  Transmit(c, sent) \in [Seqs -> Nat]
BY DEF Transmit

LEMMA Goes ==
    ASSUME NEW c \in [Seqs -> Nat], NEW s \in Seqs, c[s] > 0
    PROVE  /\ Gone(c, s) \in [Seqs -> Nat]
           /\ (\A q \in Seqs : c[q] = 0) => \A q \in Seqs : Gone(c, s)[q] = 0
BY DEF Gone

(***************************************************************************)
(* One turn of the consumer: `gone` leaves the map, `resend` is sent again *)
(* and the window is filled up.                                            *)
(***************************************************************************)
Turns(gone, fresh, past) ==
    /\ gone \in SUBSET Outstanding /\ fresh \in SUBSET Seqs
    /\ fresh \cap Outstanding = {}
    /\ Outstanding' = (Outstanding \ gone) \cup fresh
    /\ Outstanding' \subseteq Seqs /\ Outstanding' \subseteq 0 .. next_seq' - 1
    /\ Cardinality(fresh) \in Nat
    /\ fresh = next_seq .. next_seq + Cardinality(fresh) - 1
    /\ next_seq' = next_seq + Cardinality(fresh) /\ next_seq' \in 0 .. MaxSeq
    /\ in_flight' = Cardinality(Outstanding')
    /\ Cardinality(Outstanding')
         = Cardinality(Outstanding) - Cardinality(gone) + Cardinality(fresh)
    /\ timestamps' \in [Outstanding' -> [age : 0 .. MaxRto, retries : 0 .. MAX_RETRIES]]
    /\ interests' \in [Seqs -> Nat]
    /\ fresh # {} => ~past /\ Cardinality(Outstanding') <= cwnd'
    /\ ~past /\ runLeft > 0 /\ next_seq < MaxSeq /\ gone = Outstanding => fresh # {}

LEMMA AskTurns ==
    ASSUME IInv, NEW gone \in SUBSET Outstanding, NEW resend \in SUBSET (Outstanding \ gone),
           NEW past \in BOOLEAN, cwnd' \in MinWindow .. MaxWindow,
           \A s \in resend : timestamps[s].retries < MAX_RETRIES,
           Asks(gone, resend, past)
    PROVE  \E fresh : Turns(gone, fresh, past)
<1> DEFINE flying == Flying(gone)
           fresh == Refill(flying, past)
<1>1. /\ Outstanding \in SUBSET Seqs /\ Outstanding \subseteq 0 .. next_seq - 1
      /\ in_flight = Cardinality(Outstanding) /\ next_seq \in 0 .. MaxSeq /\ next_seq \in Nat
      /\ timestamps \in [Outstanding -> [age : 0 .. MaxRto, retries : 0 .. MAX_RETRIES]]
      /\ interests \in [Seqs -> Nat] /\ runLeft \in Nat
  BY Bounds DEF IInv, TypeOK, Accounts
<1>2. /\ Cardinality(Outstanding) \in Nat /\ Cardinality(gone) \in Nat
      /\ Cardinality(gone) <= Cardinality(Outstanding)
  <2>1. gone \in SUBSET Seqs /\ {} \in SUBSET Seqs /\ {} \cap Outstanding = {}
    BY <1>1
  <2> QED BY <1>1, <2>1, OfSeqs, Exchange
<1>3. flying = Cardinality(Outstanding) - Cardinality(gone) /\ flying \in Nat
  BY <1>1, <1>2, Arithmetic DEF Flying
<1>4. cwnd' \in Nat /\ 0 < cwnd'
  BY Bounds
<1>5. /\ fresh \in SUBSET Seqs /\ Cardinality(fresh) \in Nat
      /\ fresh = next_seq .. next_seq + Cardinality(fresh) - 1
      /\ next_seq + Cardinality(fresh) <= MaxSeq
      /\ fresh # {} => ~past /\ runLeft # 0 /\ Cardinality(fresh) <= Less(cwnd', flying)
      /\ ~past /\ runLeft > 0 /\ next_seq < MaxSeq /\ flying = 0 => fresh # {}
  <2>1. CASE past \/ runLeft = 0
    <3>1. fresh = {} /\ Cardinality(fresh) = 0
      BY <2>1, FS_EmptySet DEF Refill
    <3> QED BY <2>1, <3>1, <1>1, Bounds
  <2>2. CASE ~(past \/ runLeft = 0)
    <3>1. fresh = Fresh(flying, cwnd')
      BY <2>2 DEF Refill
    <3> HIDE DEF flying, fresh
    <3>2. /\ fresh \in SUBSET Seqs /\ Cardinality(fresh) \in Nat
          /\ fresh = next_seq .. next_seq + Cardinality(fresh) - 1
          /\ next_seq + Cardinality(fresh) <= MaxSeq
          /\ Cardinality(fresh) <= Less(cwnd', flying)
          /\ flying < cwnd' /\ next_seq < MaxSeq => 0 < Cardinality(fresh)
      <4>1. next_seq \in 0 .. MaxSeq /\ flying \in Nat /\ cwnd' \in Nat
        BY <1>1, <1>3, <1>4
      <4> QED BY <3>1, <4>1, FreshRuns, Zenon
    <3>3. fresh = {} => Cardinality(fresh) = 0
      BY FS_EmptySet
    <3> QED BY <2>2, <3>2, <3>3, <1>4
  <2> QED BY <2>1, <2>2
<1>6. /\ timestamps' = [s \in (Outstanding \ gone) \cup fresh |->
                IF s \in fresh THEN [age |-> 0, retries |-> 0]
                ELSE IF s \in resend
                THEN [age |-> 0, retries |-> timestamps[s].retries + 1]
                ELSE timestamps[s]]
      /\ next_seq' = next_seq + Cardinality(fresh)
      /\ in_flight' = flying + Cardinality(fresh)
      /\ interests' = Transmit(interests, fresh \cup resend)
  BY DEF Asks, Outstanding
<1> HIDE DEF flying, fresh
<1>7. Outstanding' = (Outstanding \ gone) \cup fresh
  BY <1>6 DEF Outstanding
<1>8. fresh \cap Outstanding = {} /\ Outstanding' \subseteq 0 .. next_seq' - 1
      /\ Outstanding' \subseteq Seqs
  <2>1. fresh \cap Outstanding = {}
    BY <1>1, <1>5
  <2>2. \A s \in Outstanding' : s \in 0 .. next_seq' - 1
    BY <1>1, <1>5, <1>6, <1>7
  <2> QED BY <2>1, <2>2, <1>1, <1>5, <1>7
<1>9. Cardinality(Outstanding')
        = Cardinality(Outstanding) - Cardinality(gone) + Cardinality(fresh)
  <2>1. Cardinality((Outstanding \ gone) \cup fresh)
          = Cardinality(Outstanding) - Cardinality(gone) + Cardinality(fresh)
    <3>1. \A new \in SUBSET Seqs :
            new \cap Outstanding = {} =>
              Cardinality((Outstanding \ gone) \cup new)
                = Cardinality(Outstanding) - Cardinality(gone) + Cardinality(new)
      BY <1>1, Exchange
    <3> QED BY <1>5, <1>8, <3>1
  <2> QED BY <1>7, <2>1, Zenon
<1>10. timestamps' \in [Outstanding' -> [age : 0 .. MaxRto, retries : 0 .. MAX_RETRIES]]
  <2>1. \A s \in resend : /\ timestamps[s].retries + 1 \in 0 .. MAX_RETRIES
                          /\ timestamps[s] \in [age : 0 .. MaxRto, retries : 0 .. MAX_RETRIES]
    BY <1>1, Bounds
  <2>2. 0 \in 0 .. MaxRto /\ 0 \in 0 .. MAX_RETRIES
    BY Bounds
  <2>3. \A s \in Outstanding' :
            timestamps'[s] \in [age : 0 .. MaxRto, retries : 0 .. MAX_RETRIES]
    BY <1>1, <1>6, <1>7, <2>1, <2>2
  <2> QED BY <1>6, <1>7, <2>3
<1>11. fresh # {} => Cardinality(Outstanding') <= cwnd'
  <2>1. fresh # {} => Cardinality(fresh) # 0
    BY <1>1, <1>5
  <2> QED BY <1>2, <1>3, <1>4, <1>5, <1>9, <2>1 DEF Less
<1>12. gone = Outstanding => flying = 0
  BY <1>2, <1>3
<1>13. next_seq' \in 0 .. MaxSeq /\ in_flight' = Cardinality(Outstanding')
  <2>1. next_seq' \in Nat /\ next_seq' <= MaxSeq
    BY <1>1, <1>5, <1>6
  <2>2. in_flight' = Cardinality(Outstanding')
    BY <1>3, <1>6, <1>9
  <2> QED BY <2>1, <2>2, Bounds
<1>14. interests' \in [Seqs -> Nat]
  BY <1>1, <1>6, Transmits
<1>15. Turns(gone, fresh, past)
  BY <1>5, <1>6, <1>7, <1>8, <1>9, <1>10, <1>11, <1>12, <1>13, <1>14 DEF Turns
<1> QED BY <1>15

(***************************************************************************)
(* The steps keep the invariant.                                           *)
(***************************************************************************)
LEMMA InitInv == Init => IInv
<1> SUFFICES ASSUME Init PROVE IInv
  OBVIOUS
<1>1. Outstanding = {} /\ Cardinality(Outstanding) = 0
  BY FS_EmptySet DEF Init, Outstanding
<1>2. timestamps \in [Outstanding -> [age : 0 .. MaxRto, retries : 0 .. MAX_RETRIES]]
  BY <1>1 DEF Init, Outstanding
<1>3. interests \in [Seqs -> Nat] /\ datas \in [Seqs -> Nat] /\ \A s \in Seqs : interests[s] = 0
  BY DEF Init, NoCopies
<1>4. TypeOK
  <2>1. \A i \in DOMAIN inbox : FALSE
    BY DEF Init
  <2>2. {serveLeft, runLeft} \subseteq 0 .. Duration /\ losses \in 0 .. MaxLosses
    BY Bounds DEF Init
  <2>3. next_seq \in 0 .. MaxSeq /\ cwnd \in MinWindow .. MaxWindow
    BY Bounds DEF Init
  <2>4. {registered, printed, asked, past_deadline} \subseteq BOOLEAN
    BY DEF Init
  <2> QED
    BY <1>1, <1>2, <1>3, <2>1, <2>2, <2>3, <2>4 DEF Init, TypeOK
<1>5. inbox \in Seq(Packets)
  BY DEF Init
<1>6. Prelude /\ CallbackReady /\ Ending
  BY <1>1, <1>3 DEF Init, Prelude, CallbackReady, Ending
<1>7. Accounts
  BY <1>1, Bounds DEF Init, Accounts
<1> QED
  BY <1>4, <1>5, <1>6, <1>7 DEF IInv

\* Steps that leave the consumer's window alone.
LEMMA AccountsKept ==
    ASSUME IInv, UNCHANGED flowVars
    PROVE  Accounts' /\ Outstanding' = Outstanding
BY DEF IInv, Accounts, flowVars, Outstanding

\* The client and the session (run_client, run_server).
LEMMA ClientSteps ==
    ASSUME IInv,
           \/ Register \/ SendSession \/ Negotiated \/ ConnectionClosed
           \/ AskResult \/ FetchResult \/ HandleSession
    PROVE  IInv'
<1>1. UNCHANGED <<flowVars, runLeft, net>>
  BY DEF Register, SendSession, Negotiated, ConnectionClosed, AskResult, FetchResult,
         HandleSession, consumerVars
<1>2. Accounts' /\ Outstanding' = Outstanding
  BY <1>1, AccountsKept
<1>3. inbox' \in {inbox, <<>>} /\ UNCHANGED serveLeft /\ consumer' \in {consumer, "connect"}
  BY DEF Register, SendSession, Negotiated, ConnectionClosed, AskResult, FetchResult,
         HandleSession, consumerVars
<1>4. /\ client' \in {"register", "ask", "await", "serve", "fetch", "done", "closed", "failed"}
      /\ session' \in {"none", "asked", "answered", "lost"}
      /\ {registered', printed', asked'} \subseteq BOOLEAN
  BY DEF Register, SendSession, Negotiated, ConnectionClosed, AskResult, FetchResult,
         HandleSession, IInv, TypeOK
<1>5. inbox' \in Seq(Packets)
  <2>1. <<>> \in Seq(Packets) /\ inbox \in Seq(Packets)
    BY DEF IInv
  <2> QED BY <1>3, <2>1
<1>6. TypeOK'
  <2>1. \A i \in DOMAIN inbox' : inbox'[i] \in Packets
    BY <1>5
  <2> QED
    BY <1>1, <1>2, <1>3, <1>4, <2>1 DEF IInv, TypeOK, Packets, flowVars, net
<1>7. Prelude'
  BY <1>1 DEF Register, SendSession, Negotiated, ConnectionClosed, AskResult, FetchResult,
              HandleSession, IInv, Prelude, flowVars, net, consumerVars
<1>8. CallbackReady'
  BY <1>1 DEF Register, SendSession, Negotiated, ConnectionClosed, AskResult, FetchResult,
              HandleSession, IInv, CallbackReady, net
<1>9. Ending'
  BY <1>1, <1>2, <1>3 DEF IInv, Ending, flowVars
<1> QED
  BY <1>2, <1>5, <1>6, <1>7, <1>8, <1>9 DEF IInv

\* What is in the producer's inbox, and what is taken from it.
LEMMA InboxSteps ==
    ASSUME IInv, Serve \/ AnswerResult \/ Report
    PROVE  IInv'
<1>1. inbox \in Seq(Packets) /\ {Result, Filler} \subseteq Packets
  BY DEF IInv, Packets
<1>2. /\ UNCHANGED <<client, serveLeft, registered, printed, session, runLeft, flowVars,
                     interests, nacks, dropped, losses>>
      /\ asked' \in {asked, FALSE}
  BY DEF Serve, AnswerResult, Report, consumerVars, net
<1>3. inbox' \in Seq(Packets)
  BY <1>1 DEF Serve, AnswerResult, Report
<1>4. datas' \in [Seqs -> Nat]
  <2>1. datas \in [Seqs -> Nat]
    BY DEF IInv, TypeOK
  <2>2. CASE Serve
    BY <2>1, <2>2, Transmits DEF Serve
  <2>3. CASE AnswerResult \/ Report
    BY <2>1, <2>3 DEF AnswerResult, Report, net
  <2> QED BY <2>2, <2>3
<1>5. consumer' \in {consumer, "done", "failed"} /\ (consumer' = consumer \/ consumer \in {"report", "cut"})
  BY DEF Serve, AnswerResult, Report, consumerVars
<1>6. Accounts' /\ Outstanding' = Outstanding
  BY <1>2, AccountsKept
<1>7. TypeOK'
  <2>1. \A i \in DOMAIN inbox' : inbox'[i] \in Packets
    BY <1>3
  <2> QED
    BY <1>2, <1>4, <1>5, <1>6, <2>1 DEF IInv, TypeOK, Packets, flowVars
<1>8. Prelude' /\ CallbackReady' /\ Ending'
  BY <1>2, <1>5, <1>6 DEF IInv, Prelude, CallbackReady, Ending, flowVars
<1> QED
  BY <1>3, <1>6, <1>7, <1>8 DEF IInv

\* The forwarder and the network: an Interest without a route is one sent after the
\* client went, for before it registers nothing was sent.
LEMMA NetworkSteps ==
    ASSUME IInv, (\E s \in Seqs : Deliver(s)) \/ Lose
    PROVE  IInv'
<1>1. /\ UNCHANGED <<client, serveLeft, registered, printed, consumerVars>>
      /\ asked' \in {asked, FALSE}
      /\ session' = session \/ (session = "asked" /\ session' = "lost")
  BY DEF Deliver, Lose
<1>2. /\ interests \in [Seqs -> Nat] /\ datas \in [Seqs -> Nat] /\ inbox \in Seq(Packets)
      /\ nacks \in Nat /\ dropped \in Nat /\ losses \in 0 .. MaxLosses
  BY DEF IInv, TypeOK
<1> DEFINE Unsent(copies) == \A s \in Seqs : copies[s] = 0
           Kept ==
              /\ interests' \in [Seqs -> Nat] /\ datas' \in [Seqs -> Nat] /\ inbox' \in Seq(Packets)
              /\ nacks' \in Nat /\ dropped' \in Nat /\ losses' \in 0 .. MaxLosses
              /\ Unsent(interests) => Unsent(interests')
<1>3. Kept
  <2>1. ASSUME NEW s \in Seqs, Deliver(s) PROVE Kept
    <3>1. s \in Packets /\ Append(inbox, s) \in Seq(Packets)
      BY <1>2 DEF Packets
    <3>2. /\ interests' \in [Seqs -> Nat]
          /\ (\A q \in Seqs : interests[q] = 0) => \A q \in Seqs : interests'[q] = 0
      BY <2>1, <1>2, Goes DEF Deliver
    <3>3. UNCHANGED <<datas, losses>> /\ dropped' \in {dropped, dropped + 1} /\ nacks' \in {nacks, nacks + 1}
      BY <2>1 DEF Deliver
    <3>4. inbox' \in {inbox, Append(inbox, s)}
      BY <2>1 DEF Deliver
    <3>5. inbox' \in Seq(Packets)
      BY <1>2, <3>1, <3>4
    <3>6. nacks' \in Nat /\ dropped' \in Nat
      BY <1>2, <3>3
    <3> QED BY <1>2, <3>2, <3>3, <3>5, <3>6
  <2>2. ASSUME Lose PROVE Kept
    <3>1. /\ interests' = interests \/ \E s \in Seqs : interests[s] > 0 /\ interests' = Gone(interests, s)
          /\ datas' = datas \/ \E s \in Seqs : datas[s] > 0 /\ datas' = Gone(datas, s)
          /\ UNCHANGED <<inbox, nacks, dropped>>
          /\ losses < MaxLosses /\ losses' = losses + 1
      BY <2>2 DEF Lose
    <3>2. /\ interests' \in [Seqs -> Nat]
          /\ (\A q \in Seqs : interests[q] = 0) => \A q \in Seqs : interests'[q] = 0
      <4>1. CASE interests' = interests
        BY <1>2, <4>1
      <4>2. ASSUME NEW s \in Seqs, interests[s] > 0, interests' = Gone(interests, s)
            PROVE  interests' \in [Seqs -> Nat] /\ (Unsent(interests) => Unsent(interests'))
        BY <1>2, <4>2, Goes
      <4> QED BY <3>1, <4>1, <4>2
    <3>3. datas' \in [Seqs -> Nat]
      BY <1>2, <3>1, Goes
    <3> QED BY <1>2, <3>1, <3>2, <3>3, Bounds
  <2> QED BY <2>1, <2>2
<1>4. UNCHANGED flowVars /\ Accounts' /\ Outstanding' = Outstanding
  BY <1>1, AccountsKept DEF consumerVars
<1>5. TypeOK'
  <2>1. \A i \in DOMAIN inbox' : inbox'[i] \in Packets
    BY <1>3
  <2> QED
    BY <1>1, <1>3, <1>4, <2>1 DEF IInv, TypeOK, Packets, consumerVars, flowVars
<1>6. Prelude'
  BY <1>1, <1>3 DEF IInv, Prelude, consumerVars, flowVars
<1>7. CallbackReady'
  <2>1. client \in {"register", "done", "closed", "failed"} \/ registered
    BY DEF IInv, TypeOK, Prelude
  <2>2. client = "register" => \A s \in Seqs : interests[s] = 0
    BY DEF IInv, Prelude
  <2>3. dropped' = dropped \/ (~registered /\ \E s \in Seqs : interests[s] > 0)
    BY DEF Deliver, Lose
  <2> QED
    BY <1>1, <2>1, <2>2, <2>3 DEF IInv, CallbackReady
<1>8. Ending'
  BY <1>1, <1>4 DEF IInv, Ending, consumerVars, flowVars
<1> QED
  BY <1>3, <1>4, <1>5, <1>6, <1>7, <1>8 DEF IInv

LEMMA TickStep == ASSUME IInv, Tick PROVE IInv'
<1>1. /\ UNCHANGED <<client, registered, inbox, printed, session, asked, consumer, next_seq,
                     in_flight, received, gave_up, past_deadline, cwnd, net>>
      /\ timestamps' = [s \in Outstanding |->
                          [timestamps[s] EXCEPT !.age = Lesser(@ + 1, MaxRto)]]
  BY DEF Tick, Outstanding
<1>2. serveLeft' \in 0 .. Duration /\ runLeft' \in 0 .. Duration /\ (runLeft = 0 => runLeft' = 0)
  <2>1. serveLeft \in 0 .. Duration /\ runLeft \in 0 .. Duration /\ Duration \in Nat
    BY Bounds DEF IInv, TypeOK
  <2>2. \A n \in 0 .. Duration : Less(n, 1) \in 0 .. Duration /\ (n = 0 => Less(n, 1) = 0)
    BY Bounds DEF Less
  <2> QED BY <2>1, <2>2 DEF Tick
<1>3. Outstanding' = Outstanding
  BY <1>1 DEF Outstanding
<1>4. timestamps' \in [Outstanding' -> [age : 0 .. MaxRto, retries : 0 .. MAX_RETRIES]]
  <2>1. \A a \in 0 .. MaxRto : Lesser(a + 1, MaxRto) \in 0 .. MaxRto
    BY Bounds DEF Lesser
  <2>2. \A s \in Outstanding :
           [timestamps[s] EXCEPT !.age = Lesser(@ + 1, MaxRto)]
             \in [age : 0 .. MaxRto, retries : 0 .. MAX_RETRIES]
    BY <2>1 DEF IInv, TypeOK
  <2> QED BY <1>1, <1>3, <2>2
<1>5. TypeOK' /\ inbox' \in Seq(Packets)
  BY <1>1, <1>2, <1>3, <1>4 DEF IInv, TypeOK, net
<1>6. Prelude' /\ CallbackReady' /\ Accounts' /\ Ending'
  BY <1>1, <1>2, <1>3 DEF IInv, Prelude, CallbackReady, Accounts, Ending, net
<1> QED
  BY <1>5, <1>6 DEF IInv

\* The consumer comes and goes; the deadline passed with nothing outstanding.
LEMMA ConsumerSteps ==
    ASSUME IInv, Connect \/ ConsumerCut \/ TimeoutEnds
    PROVE  IInv'
<1>1. /\ UNCHANGED <<clientVars, runLeft, timestamps, next_seq, in_flight, received,
                     gave_up, cwnd, net>>
      /\ consumer' \in {"run", "failed", "cut", "report"}
      /\ consumer # "none" /\ (consumer' = "run" => consumer = "connect")
      /\ past_deadline' \in BOOLEAN
  BY DEF Connect, ConsumerCut, TimeoutEnds, flowVars, IInv, TypeOK
<1>2. Outstanding' = Outstanding
  BY <1>1 DEF Outstanding
<1>3. TypeOK' /\ inbox' \in Seq(Packets)
  BY <1>1, <1>2 DEF IInv, TypeOK, clientVars, net
<1>4. Prelude' /\ CallbackReady' /\ Accounts'
  BY <1>1, <1>2 DEF IInv, Prelude, CallbackReady, Accounts, clientVars, net
<1>5. Ending'
  <2>1. CASE Connect \/ ConsumerCut
    BY <1>1, <2>1 DEF Connect, ConsumerCut, flowVars, IInv, Ending
  <2>2. CASE TimeoutEnds
    BY <1>1, <1>2, <2>2 DEF TimeoutEnds, MayEnd, IInv, Ending, Outstanding
  <2> QED BY <2>1, <2>2
<1> QED
  BY <1>3, <1>4, <1>5 DEF IInv

\* The accounts after a turn, when a packet or some giving up pays for what left the
\* map.
LEMMA TurnAccounts ==
    ASSUME IInv, NEW gone, NEW fresh, NEW past, Turns(gone, fresh, past),
           received' \in Nat, gave_up' \in Nat,
           received' + gave_up' >= received + gave_up + Cardinality(gone)
    PROVE  Accounts'
<1>1. /\ Cardinality(Outstanding) \in Nat /\ Cardinality(gone) \in Nat
      /\ received \in Nat /\ gave_up \in Nat /\ next_seq \in Nat
      /\ next_seq <= Cardinality(Outstanding) + received + gave_up
  <2>1. /\ gone \in SUBSET Outstanding /\ Outstanding \in SUBSET Seqs
        /\ next_seq \in 0 .. MaxSeq /\ received \in Nat /\ gave_up \in Nat
        /\ next_seq <= Cardinality(Outstanding) + received + gave_up
    BY DEF IInv, TypeOK, Accounts, Turns
  <2>2. gone \in SUBSET Seqs
    BY <2>1
  <2> QED BY <2>1, <2>2, OfSeqs, Bounds
<1>2. next_seq' <= Cardinality(Outstanding') + received' + gave_up'
  <2>1. /\ next_seq' = next_seq + Cardinality(fresh) /\ Cardinality(fresh) \in Nat
        /\ Cardinality(Outstanding')
             = Cardinality(Outstanding) - Cardinality(gone) + Cardinality(fresh)
    BY DEF Turns
  <2> QED BY <1>1, <2>1
<1> QED
  BY <1>2 DEF Turns, Accounts

\* A turn of the consumer is one of the abstract flow.
LEMMA TurnFlows ==
    ASSUME IInv, NEW gone, NEW fresh, NEW past, Turns(gone, fresh, past),
           past_deadline => past, past_deadline' \in {past_deadline, TRUE},
           cwnd' \in MinWindow .. MaxWindow
    PROVE  Flow!FlowNext
<1>1. /\ Outstanding \subseteq 0 .. next_seq - 1 /\ next_seq \in Nat /\ next_seq' \in Nat
      /\ Cardinality(fresh) \in Nat /\ next_seq' = next_seq + Cardinality(fresh)
      /\ fresh = next_seq .. next_seq + Cardinality(fresh) - 1
      /\ gone \in SUBSET Outstanding /\ fresh \in SUBSET Seqs
      /\ Outstanding' = (Outstanding \ gone) \cup fresh
  <2>1. Outstanding \subseteq 0 .. next_seq - 1 /\ next_seq \in 0 .. MaxSeq
    BY DEF IInv, Accounts, TypeOK
  <2>2. /\ Cardinality(fresh) \in Nat /\ next_seq' = next_seq + Cardinality(fresh)
        /\ fresh = next_seq .. next_seq + Cardinality(fresh) - 1
        /\ gone \in SUBSET Outstanding /\ fresh \in SUBSET Seqs
        /\ Outstanding' = (Outstanding \ gone) \cup fresh
    BY DEF Turns
  <2> QED BY <2>1, <2>2, Bounds
<1>2. fresh \cap (Outstanding \cup ((0 .. next_seq - 1) \ Outstanding)) = {}
  BY <1>1
<1>3. fresh # {} => ~past_deadline /\ Cardinality((Outstanding \ gone) \cup fresh) <= MaxWindow
  <2>1. Cardinality(Outstanding') \in Nat
    BY OfSeqs DEF Turns
  <2>2. fresh # {} => ~past /\ Cardinality(Outstanding') <= cwnd'
    BY DEF Turns
  <2>3. cwnd' \in Nat /\ cwnd' <= MaxWindow
    BY Bounds
  <2>4. fresh # {} => Cardinality(Outstanding') <= MaxWindow
    BY <2>1, <2>2, <2>3, Bounds
  <2> QED BY <1>1, <2>2, <2>4
<1>4. ((0 .. next_seq - 1) \ Outstanding)' = ((0 .. next_seq - 1) \ Outstanding) \cup gone
  <2>1. \A s : s \in 0 .. next_seq' - 1 <=> s \in 0 .. next_seq - 1 \/ s \in fresh
    BY <1>1
  <2>2. \A s \in fresh : s \notin 0 .. next_seq - 1
    BY <1>1
  <2> QED BY <1>1, <2>1, <2>2
<1>5. (~past_deadline)' \in {~past_deadline, FALSE}
  <2>1. CASE past_deadline' = past_deadline
    BY <2>1
  <2>2. CASE past_deadline' = TRUE
    BY <2>2
  <2> QED BY <2>1, <2>2
<1>6. Flow!Turn(gone, fresh)
  <2>1. gone \subseteq Outstanding /\ Outstanding' = (Outstanding \ gone) \cup fresh
    BY <1>1
  <2> QED BY <1>2, <1>3, <1>4, <1>5, <2>1, Zenon DEF Flow!Turn, Flow!Cardinality, Cardinality
<1> QED
  BY <1>1, <1>6 DEF Flow!FlowNext

LEMMA TurnTypes ==
    ASSUME IInv, NEW gone, NEW fresh, NEW past, Turns(gone, fresh, past),
           UNCHANGED <<clientVars, runLeft, dropped, losses>>,
           consumer' \in {"run", "report"}, past_deadline' \in BOOLEAN,
           received' \in Nat, gave_up' \in Nat, cwnd' \in MinWindow .. MaxWindow,
           datas' \in [Seqs -> Nat], nacks' \in Nat
    PROVE  TypeOK' /\ inbox' \in Seq(Packets)
<1>1. /\ Outstanding' \subseteq Seqs /\ next_seq' \in 0 .. MaxSeq /\ interests' \in [Seqs -> Nat]
      /\ timestamps' \in [Outstanding' -> [age : 0 .. MaxRto, retries : 0 .. MAX_RETRIES]]
      /\ in_flight' = Cardinality(Outstanding')
  BY DEF Turns
<1>2. in_flight' \in Nat
  BY <1>1, OfSeqs
<1>3. UNCHANGED <<client, serveLeft, registered, inbox, printed, session, asked>>
  BY DEF clientVars
<1> QED
  BY <1>1, <1>2, <1>3 DEF IInv, TypeOK

\* A packet (run_reverse_consumer, the select's first arm).
LEMMA PacketSteps ==
    ASSUME IInv, (\E s \in Seqs : RecvData(s)) \/ RecvNack
    PROVE  IInv' /\ Flow!FlowNext
<1>1. PICK hit \in SUBSET Outstanding :
        /\ Recv(hit) /\ \E s : hit \subseteq {s}
        /\ datas' \in [Seqs -> Nat] /\ nacks' \in Nat
  <2>1. ASSUME NEW s \in Seqs, RecvData(s)
        PROVE  /\ Recv({s} \cap Outstanding) /\ datas' \in [Seqs -> Nat] /\ nacks' \in Nat
    BY <2>1, Goes DEF RecvData, Outstanding, IInv, TypeOK
  <2>2. ASSUME RecvNack PROVE Recv({}) /\ datas' \in [Seqs -> Nat] /\ nacks' \in Nat
    BY <2>2 DEF RecvNack, IInv, TypeOK
  <2>3. ASSUME NEW s \in Seqs, RecvData(s)
        PROVE  {s} \cap Outstanding \in SUBSET Outstanding /\ {s} \cap Outstanding \subseteq {s}
    OBVIOUS
  <2> QED BY <2>1, <2>2, <2>3
<1>2. /\ consumer = "run" /\ received' = received + 1 /\ cwnd' \in cwnd .. MaxWindow
      /\ past_deadline' = (past_deadline \/ runLeft = 0)
      /\ Asks(hit, {}, past_deadline')
      /\ consumer' = IF MayEnd(past_deadline', DOMAIN timestamps') THEN "report" ELSE "run"
      /\ UNCHANGED <<clientVars, runLeft, gave_up, dropped, losses>>
  BY <1>1 DEF Recv
<1>3. /\ past_deadline' \in BOOLEAN /\ received' \in Nat /\ gave_up' \in Nat
      /\ cwnd' \in MinWindow .. MaxWindow
  BY <1>2, Bounds DEF IInv, TypeOK
<1>4. PICK fresh : Turns(hit, fresh, past_deadline')
  <2>1. {} \in SUBSET (Outstanding \ hit) /\ \A s \in {} : timestamps[s].retries < MAX_RETRIES
    OBVIOUS
  <2> QED BY <1>2, <1>3, <2>1, AskTurns, Zenon
<1>5. Cardinality(hit) <= 1
  <2>1. PICK s : hit \subseteq {s}
    BY <1>1
  <2>2. hit = {} \/ hit = {s}
    BY <2>1
  <2>3. Cardinality({}) = 0 /\ Cardinality({s}) = 1
    BY FS_EmptySet, FS_Singleton
  <2>4. CASE hit = {}
    BY <2>3, <2>4
  <2>5. CASE hit = {s}
    BY <2>3, <2>5
  <2> QED BY <2>2, <2>4, <2>5
<1>6. Accounts'
  <2>1. Cardinality(hit) \in Nat /\ received \in Nat /\ gave_up \in Nat
    BY <1>1, OfSeqs DEF IInv, TypeOK
  <2>2. received' + gave_up' >= received + gave_up + Cardinality(hit)
    BY <1>2, <1>5, <2>1
  <2> QED BY <1>3, <1>4, <2>2, TurnAccounts
<1>7. TypeOK' /\ inbox' \in Seq(Packets)
  <2>1. consumer' \in {"run", "report"}
    BY <1>2
  <2> QED BY <1>1, <1>2, <1>3, <1>4, <2>1, TurnTypes, Zenon
<1>8. Prelude' /\ CallbackReady'
  BY <1>2 DEF IInv, Prelude, CallbackReady, clientVars
<1>9. Ending'
  BY <1>2 DEF IInv, Ending, MayEnd, Outstanding
<1>10. Flow!FlowNext
  <2>1. past_deadline => past_deadline'
    BY <1>2
  <2>2. past_deadline' \in {past_deadline, TRUE}
    <3>1. CASE past_deadline'
      BY <1>3, <3>1
    <3>2. CASE ~past_deadline'
      BY <1>3, <2>1, <3>2 DEF IInv, TypeOK
    <3> QED BY <3>1, <3>2
  <2> QED BY <1>3, <1>4, <2>1, <2>2, TurnFlows, Zenon
<1> QED
  BY <1>6, <1>7, <1>8, <1>9, <1>10 DEF IInv

\* A check interval without a packet; before the deadline it does not end with
\* nothing asked for (run_reverse_consumer, the select's second arm).
LEMMA TimeoutStep ==
    ASSUME IInv, Timeout
    PROVE  /\ IInv' /\ Flow!FlowNext
           /\ runLeft > 0 /\ next_seq < MaxSeq => Outstanding' # {}
<1> DEFINE past == past_deadline \/ runLeft = 0
<1>1. /\ consumer = "run" /\ ~MayEnd(past, DOMAIN timestamps) /\ past_deadline' = past
      /\ UNCHANGED <<clientVars, consumer, runLeft, received, datas, nacks, dropped, losses>>
  BY DEF Timeout
<1>2. PICK rto \in MinRto .. MaxRto :
        LET over == {s \in Stale(rto) : Exhausted(s)}
            resend == Stale(rto) \ over
        IN  /\ cwnd' \in IF resend = {} THEN {cwnd} ELSE MinWindow .. cwnd
            /\ gave_up' = gave_up + Cardinality(over)
            /\ Asks(over, resend, past)
  BY DEF Timeout
<1> DEFINE over == {s \in Stale(rto) : Exhausted(s)}
           resend == Stale(rto) \ over
<1>3. /\ over \in SUBSET Outstanding /\ resend \in SUBSET (Outstanding \ over)
      /\ \A s \in resend : timestamps[s].retries < MAX_RETRIES
  <2>1. \A s \in Outstanding : timestamps[s].retries \in 0 .. MAX_RETRIES
    BY DEF IInv, TypeOK
  <2> QED BY <2>1, Bounds DEF Stale, Exhausted, Outstanding
<1>4. /\ past \in BOOLEAN /\ cwnd' \in MinWindow .. MaxWindow
      /\ gave_up' = gave_up + Cardinality(over) /\ Asks(over, resend, past)
  BY <1>2, Bounds DEF IInv, TypeOK
<1> HIDE DEF over, resend
<1>5. past_deadline' = past /\ (past_deadline => past) /\ (past => past_deadline \/ runLeft = 0)
  BY <1>1
<1> HIDE DEF past
<1>6. PICK fresh : Turns(over, fresh, past)
  BY <1>3, <1>4, AskTurns
<1>7. Cardinality(over) \in Nat /\ gave_up' \in Nat /\ received' \in Nat
      /\ received' + gave_up' >= received + gave_up + Cardinality(over)
  <2>1. over \in SUBSET Seqs /\ received \in Nat /\ gave_up \in Nat
    BY <1>3 DEF IInv, TypeOK
  <2> QED BY <1>1, <1>4, <2>1, OfSeqs
<1>8. Accounts'
  BY <1>6, <1>7, TurnAccounts
<1>9. TypeOK' /\ inbox' \in Seq(Packets)
  <2>1. consumer' \in {"run", "report"} /\ past_deadline' \in BOOLEAN
    BY <1>1, <1>4, <1>5
  <2>2. datas' \in [Seqs -> Nat] /\ nacks' \in Nat
    BY <1>1 DEF IInv, TypeOK
  <2> QED BY <1>1, <1>4, <1>6, <1>7, <2>1, <2>2, TurnTypes, Zenon
<1>10. Prelude' /\ CallbackReady'
  BY <1>1 DEF IInv, Prelude, CallbackReady, clientVars
<1>11. Ending'
  BY <1>1, <1>5 DEF IInv, Ending
<1>12. Flow!FlowNext
  BY <1>4, <1>5, <1>6, TurnFlows DEF IInv, TypeOK
<1>13. runLeft > 0 /\ next_seq < MaxSeq => Outstanding' # {}
  <2> SUFFICES ASSUME runLeft > 0, next_seq < MaxSeq, Outstanding' = {} PROVE FALSE
    OBVIOUS
  <2>1. runLeft # 0 /\ ~past
    BY <1>5 DEF IInv, TypeOK, Ending
  <2>2. over = Outstanding /\ fresh = {}
    BY <1>6 DEF Turns
  <2> QED BY <1>6, <2>1, <2>2 DEF Turns
<1> QED
  BY <1>8, <1>9, <1>10, <1>11, <1>12, <1>13 DEF IInv

(***************************************************************************)
(* The theorems.                                                           *)
(***************************************************************************)
\* A step that takes nothing out of the map and asks for nothing stutters.
LEMMA StillFlows ==
    ASSUME UNCHANGED <<next_seq, past_deadline>>, Outstanding' = Outstanding
    PROVE  UNCHANGED Flow!flowVars
BY DEF Flow!flowVars

LEMMA StepInv == IInv /\ [Next]_vars => IInv' /\ [Flow!FlowNext]_(Flow!flowVars)
<1> SUFFICES ASSUME IInv, [Next]_vars PROVE IInv' /\ [Flow!FlowNext]_(Flow!flowVars)
  OBVIOUS
<1>1. CASE \/ Register \/ SendSession \/ Negotiated \/ ConnectionClosed
           \/ AskResult \/ FetchResult \/ HandleSession
  <2>1. UNCHANGED flowVars
    BY <1>1 DEF Register, SendSession, Negotiated, ConnectionClosed, AskResult, FetchResult,
                HandleSession, consumerVars
  <2> QED BY <1>1, <2>1, ClientSteps, AccountsKept, StillFlows DEF flowVars
<1>2. CASE Serve \/ AnswerResult \/ Report
  <2>1. UNCHANGED flowVars
    BY <1>2 DEF Serve, AnswerResult, Report, consumerVars
  <2> QED BY <1>2, <2>1, InboxSteps, AccountsKept, StillFlows DEF flowVars
<1>3. CASE (\E s \in Seqs : Deliver(s)) \/ Lose
  <2>1. UNCHANGED flowVars
    BY <1>3 DEF Deliver, Lose, consumerVars
  <2> QED BY <1>3, <2>1, NetworkSteps, AccountsKept, StillFlows DEF flowVars
<1>4. CASE Tick
  <2>1. Outstanding' = Outstanding /\ UNCHANGED <<next_seq, past_deadline>>
    BY <1>4 DEF Tick, Outstanding
  <2> QED BY <1>4, <2>1, TickStep, StillFlows
<1>5. CASE Connect \/ ConsumerCut
  <2>1. UNCHANGED flowVars
    BY <1>5 DEF Connect, ConsumerCut
  <2> QED BY <1>5, <2>1, ConsumerSteps, AccountsKept, StillFlows DEF flowVars
<1>6. CASE TimeoutEnds
  \* The flow closes.
  <2>1. Outstanding' = Outstanding /\ next_seq' = next_seq /\ past_deadline' = TRUE
    BY <1>6 DEF TimeoutEnds, Outstanding
  <2>2. Flow!Turn({}, {})
    BY <2>1 DEF Flow!Turn
  <2>3. Flow!FlowNext
    BY <2>2 DEF Flow!FlowNext
  <2> QED BY <1>6, <2>3, ConsumerSteps
<1>7. CASE (\E s \in Seqs : RecvData(s)) \/ RecvNack
  BY <1>7, PacketSteps
<1>8. CASE Timeout
  BY <1>8, TimeoutStep
<1>9. CASE UNCHANGED vars
  <2>1. UNCHANGED <<clientVars, consumerVars, net>> /\ UNCHANGED flowVars
    BY <1>9 DEF vars, consumerVars
  <2>2. Accounts' /\ Outstanding' = Outstanding
    BY <2>1, AccountsKept
  <2>3. IInv'
    BY <2>1, <2>2 DEF IInv, TypeOK, Prelude, CallbackReady, Ending, clientVars, consumerVars,
                      flowVars, net
  <2> QED BY <2>1, <2>2, <2>3, StillFlows DEF flowVars
<1> QED
  BY <1>1, <1>2, <1>3, <1>4, <1>5, <1>6, <1>7, <1>8, <1>9 DEF Next, ClientNext, ConsumerNext

LEMMA Invariance == Spec => []IInv
BY InitInv, StepInv, PTL DEF Spec

\* Between any two steps of client, server and consumer: no Interest of the consumer
\* is without a route, its counter is its map's size to the end, and what it reports
\* is settled (run_client, run_server, run_reverse_consumer).
THEOREM ReverseInvHolds == Spec => []ReverseInv
<1>1. IInv => ReverseInv
  <2> SUFFICES ASSUME IInv PROVE ReverseInv
    OBVIOUS
  <2>1. TypeOK /\ CallbackReady /\ WindowAccounting
    BY DEF IInv, Accounts, WindowAccounting
  <2>2. ReportIsComplete
    <3>1. Cardinality({}) = 0 /\ received \in Nat /\ gave_up \in Nat /\ next_seq \in 0 .. MaxSeq
      BY FS_EmptySet DEF IInv, TypeOK
    <3>2. /\ next_seq <= Cardinality(Outstanding) + received + gave_up
          /\ consumer = "report" => Outstanding = {}
      BY DEF IInv, Accounts, Ending
    <3>3. consumer = "report" => Cardinality(Outstanding) = 0
      BY <3>1, <3>2
    <3>4. consumer = "report" => next_seq <= received + gave_up
      BY <3>1, <3>2, <3>3, Bounds
    <3> QED BY <3>2, <3>4 DEF ReportIsComplete
  <2> QED BY <2>1, <2>2 DEF ReverseInv
<1> QED BY <1>1, Invariance, PTL

\* The consumer implements WindowedFlow: a number is new once, settled once, and
\* asked for within the window, before the deadline.
THEOREM FlowImplemented == Spec => ImplementsFlow
<1>1. Init => Flow!FlowInit
  BY DEF Init, Flow!FlowInit, Outstanding
<1> QED
  BY <1>1, Invariance, StepInv, PTL DEF Spec, ImplementsFlow, Flow!FlowSpec

\* An outage that makes the consumer give up all it asked for does not silence it
\* (the refill at the end of run_reverse_consumer's loop).
THEOREM AsksAfterOutageHolds == Spec => AsksAfterOutage
<1>1. IInv /\ [Next]_vars =>
         [Timeout /\ runLeft > 0 /\ next_seq < MaxSeq => Outstanding' # {}]_vars
  BY TimeoutStep
<1> QED
  BY <1>1, Invariance, PTL DEF Spec, AsksAfterOutage
=============================================================================

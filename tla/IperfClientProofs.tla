-------------------------- MODULE IperfClientProofs --------------------------
(***************************************************************************)
(* Proofs about IperfClient for every window, deadline, retry bound and    *)
(* number of sequence numbers: type correctness, the accounting of the     *)
(* window and of the sequence numbers, the retry budget, the reported      *)
(* loss, and that the client implements WindowedFlow.                      *)
(***************************************************************************)
EXTENDS IperfClient, FiniteSetTheorems, TLAPS

(***************************************************************************)
(* Lemmas about the helpers.                                               *)
(***************************************************************************)
LEMMA Arithmetic ==
    ASSUME NEW a \in Nat, NEW b \in Nat
    PROVE  /\ Less(a, b) \in Nat
           /\ b <= a => Less(a, b) = a - b
           /\ a < b => Less(a, b) = 0
           /\ Lesser(a, b) \in Nat /\ Lesser(a, b) <= a /\ Lesser(a, b) <= b
BY DEF Less, Lesser, Greater

\* What a refill asks for is a run of unused numbers: finite, within MaxSeq,
\* and starting at next_seq.
LEMMA FreshProperties ==
    ASSUME next_seq \in 0 .. MaxSeq, NEW f \in Nat, NEW w \in Nat
    PROVE  /\ Fresh(f, w) \subseteq Seqs
           /\ IsFiniteSet(Fresh(f, w))
           /\ Cardinality(Fresh(f, w)) \in Nat
           /\ Fresh(f, w) = next_seq .. next_seq + Cardinality(Fresh(f, w)) - 1
           /\ next_seq + Cardinality(Fresh(f, w)) <= MaxSeq
           /\ Cardinality(Fresh(f, w)) <= Less(w, f)
<1> DEFINE top == Lesser(next_seq + Less(w, f), MaxSeq)
<1>1. /\ Less(w, f) \in Nat
      /\ top \in next_seq .. MaxSeq
      /\ top <= next_seq + Less(w, f)
  BY BoundAssumption DEF Less, Lesser, Greater
<1>2. Fresh(f, w) = next_seq .. top - 1
  BY DEF Fresh
<1> HIDE DEF top
<1>3. /\ IsFiniteSet(next_seq .. top - 1)
      /\ Cardinality(next_seq .. top - 1) = top - next_seq
  <2>1. top - 1 \in Int /\ next_seq \in Int
    BY <1>1, BoundAssumption
  <2>2. /\ IsFiniteSet(next_seq .. top - 1)
        /\ Cardinality(next_seq .. top - 1) =
            IF next_seq > top - 1 THEN 0 ELSE (top - 1) - next_seq + 1
    BY <2>1, FS_Interval
  <2> QED BY <1>1, <2>2, BoundAssumption
<1> DEFINE n == Cardinality(Fresh(f, w))
<1>4. n = top - next_seq /\ IsFiniteSet(Fresh(f, w))
  BY <1>2, <1>3
<1> HIDE DEF n
<1>5. /\ n \in Nat
      /\ next_seq .. top - 1 = next_seq .. next_seq + n - 1
      /\ next_seq + n <= MaxSeq
      /\ n <= Less(w, f)
      /\ next_seq .. top - 1 \subseteq 0 .. MaxSeq - 1
  BY <1>1, <1>4, BoundAssumption
<1> QED BY <1>2, <1>4, <1>5 DEF n, Seqs

\* The outstanding numbers are finitely many.
LEMMA SubsetOfSeqsFinite ==
    ASSUME NEW S \in SUBSET Seqs
    PROVE  IsFiniteSet(S) /\ Cardinality(S) \in Nat
<1>1. IsFiniteSet(Seqs)
  BY FS_Interval, BoundAssumption DEF Seqs
<1> QED BY <1>1, FS_Subset, FS_CardinalityType

\* Taking part of a finite set away and adding something disjoint.
LEMMA ExchangeCardinality ==
    ASSUME NEW S \in SUBSET Seqs, NEW gone \in SUBSET S,
           NEW new \in SUBSET Seqs, new \cap S = {}
    PROVE  /\ Cardinality(gone) <= Cardinality(S)
           /\ Cardinality((S \ gone) \cup new)
                = Cardinality(S) - Cardinality(gone) + Cardinality(new)
<1>1. /\ IsFiniteSet(S) /\ IsFiniteSet(gone) /\ IsFiniteSet(new)
      /\ IsFiniteSet(S \ gone)
      /\ Cardinality(S) \in Nat /\ Cardinality(gone) \in Nat
      /\ Cardinality(new) \in Nat /\ Cardinality(S \ gone) \in Nat
  BY SubsetOfSeqsFinite
<1>2. ASSUME NEW A \in SUBSET Seqs, NEW B \in SUBSET Seqs, A \cap B = {}
      PROVE  Cardinality(A \cup B) = Cardinality(A) + Cardinality(B)
  <2>1. IsFiniteSet(A) /\ IsFiniteSet(B)
    BY SubsetOfSeqsFinite
  <2>2. Cardinality(A \cup B)
            = Cardinality(A) + Cardinality(B) - Cardinality(A \cap B)
    BY <2>1, FS_Union
  <2>3. Cardinality(A \cup B) = Cardinality(A) + Cardinality(B) - 0
    BY <1>2, <2>2, FS_EmptySet, Zenon
  <2> QED BY <2>3, SubsetOfSeqsFinite
<1>3. Cardinality(S) = Cardinality(S \ gone) + Cardinality(gone)
  <2>1. S = (S \ gone) \cup gone
    OBVIOUS
  <2>2. (S \ gone) \cap gone = {} /\ S \ gone \in SUBSET Seqs /\ gone \in SUBSET Seqs
    OBVIOUS
  <2>3. Cardinality((S \ gone) \cup gone) = Cardinality(S \ gone) + Cardinality(gone)
    BY <1>2, <2>2
  <2> QED BY <2>1, <2>3, Zenon
<1>4. Cardinality((S \ gone) \cup new) = Cardinality(S \ gone) + Cardinality(new)
  BY <1>2
<1> QED BY <1>1, <1>3, <1>4

\* The numbers from a up to b are new to a set that lies below a.
LEMMA RunAbove ==
    ASSUME NEW a \in Nat, NEW b \in Nat, a <= b,
           NEW old \in SUBSET (0 .. a - 1), NEW run, run = a .. b - 1
    PROVE  /\ run \cap old = {}
           /\ old \subseteq 0 .. b - 1
           /\ run \subseteq 0 .. b - 1
           /\ \A s \in Nat : s >= b => s \notin run /\ s \notin old
           /\ \A s \in run : s >= a
OBVIOUS

LEMMA RunExtends ==
    ASSUME NEW n \in Nat, NEW k \in Nat
    PROVE  /\ 0 .. (n + k) - 1 = (0 .. n - 1) \cup (n .. n + k - 1)
           /\ (n .. n + k - 1) \cap (0 .. n - 1) = {}
OBVIOUS

LEMMA SumType == \A a, b \in Nat : a + b \in Nat
OBVIOUS

\* The arithmetic of one step: cg of co outstanding settle, cf are added.
LEMMA Balance ==
    ASSUME NEW co \in Nat, NEW cg \in Nat, NEW cf \in Nat, NEW cn,
           NEW n \in Nat, NEW n1 \in Nat, NEW f \in Nat, NEW f1 \in Nat,
           NEW at \in Nat, NEW at1 \in Nat,
           cn = co - cg + cf, n1 = n + cf,
           f = co, n = co + at, f1 = f - cg + cf, at1 = at + cg
    PROVE  f1 = cn /\ n1 = cn + at1
OBVIOUS

\* What Restamp does to the map.
LEMMA RestampProperties ==
    ASSUME TypeOK, clock' \in Nat,
           NEW gone, NEW sent \in SUBSET Seqs, NEW r \in [sent -> Nat],
           timestamps' = Restamp(gone, sent, r)
    PROVE  /\ Outstanding' = (Outstanding \ gone) \cup sent
           /\ Outstanding' \subseteq Seqs
           /\ timestamps' \in [Outstanding' -> [t0 : Nat, retries : Nat]]
           /\ \A s \in sent : /\ timestamps'[s].t0 = clock'
                              /\ timestamps'[s].retries = r[s]
           /\ \A s \in Outstanding' \ sent :
                    s \in Outstanding /\ timestamps'[s] = timestamps[s]
BY DEF Restamp, TypeOK, Outstanding

LEMMA TransmitProperties ==
    ASSUME NEW c \in [Seqs -> Nat], NEW sent
    PROVE  /\ Transmit(c, sent) \in [Seqs -> Nat]
           /\ \A s \in Seqs : Transmit(c, sent)[s] =
                    IF s \in sent THEN c[s] + 1 ELSE c[s]
BY DEF Transmit

(***************************************************************************)
(* Type correctness.                                                       *)
(***************************************************************************)
LEMMA NegotiatedType ==
    ASSUME TypeOK, NEW late \in BOOLEAN, Negotiated(late)
    PROVE  TypeOK'
<1> DEFINE b == Fresh(0, Lesser(InitialWindow, cwnd))
           r == [s \in b |-> 0]
<1>1. Lesser(InitialWindow, cwnd) \in Nat
  BY WindowAssumption DEF TypeOK, Lesser
<1>2. /\ b \in SUBSET Seqs /\ Cardinality(b) \in Nat
      /\ next_seq + Cardinality(b) <= MaxSeq
  BY <1>1, FreshProperties DEF TypeOK
<1>3. /\ timestamps' = Restamp({}, b, r)
      /\ net' = Transmit(net, b)
      /\ next_seq' = next_seq + Cardinality(b)
      /\ in_flight' = in_flight + Cardinality(b)
  BY DEF Negotiated
<1>4. r \in [b -> Nat]
  OBVIOUS
<1> HIDE DEF b, r
<1>5. clock' \in Nat
  BY DEF Negotiated, TypeOK
<1>6. /\ Outstanding' \subseteq Seqs
      /\ timestamps' \in [Outstanding' -> [t0 : Nat, retries : Nat]]
  BY <1>2, <1>3, <1>4, <1>5, RestampProperties
<1>7. net' \in [Seqs -> Nat]
  BY <1>3, TransmitProperties DEF TypeOK
<1>8. next_seq' \in 0 .. MaxSeq /\ in_flight' \in Nat
  BY <1>2, <1>3, BoundAssumption DEF TypeOK
<1>9. /\ phase' \in Phases /\ sessionLate' \in BOOLEAN
      /\ received' \in Nat /\ acked' \in Nat
      /\ retx_count' \in Nat /\ timed_out' \in Nat
      /\ past_deadline' \in BOOLEAN /\ cwnd' \in MinWindow .. MaxWindow
  BY DEF Negotiated, TypeOK, Phases
<1> QED BY <1>5, <1>6, <1>7, <1>8, <1>9 DEF TypeOK

LEMMA OnPacketType ==
    ASSUME TypeOK, NEW seqs \in SUBSET Seqs, NEW copies \in [Seqs -> Nat],
           OnPacket(seqs, copies), sessionLate' \in BOOLEAN
    PROVE  TypeOK'
<1> DEFINE hit == Hit(seqs)
           flying == Less(in_flight, Cardinality(hit))
           fresh == IF MayRefill THEN Fresh(flying, cwnd') ELSE {}
           r == [s \in fresh |-> 0]
<1>1. hit \in SUBSET Seqs /\ Cardinality(hit) \in Nat
  BY SubsetOfSeqsFinite DEF Hit
<1>2. flying \in Nat
  BY <1>1, Arithmetic DEF TypeOK
<1>3. clock' \in Nat /\ cwnd' \in MinWindow .. MaxWindow /\ cwnd' \in Nat
  BY WindowAssumption DEF OnPacket, TypeOK
<1>4. /\ fresh \in SUBSET Seqs /\ Cardinality(fresh) \in Nat
      /\ next_seq + Cardinality(fresh) <= MaxSeq
  <2>1. CASE MayRefill
    BY <1>2, <1>3, <2>1, FreshProperties DEF TypeOK
  <2>2. CASE ~MayRefill
    <3>1. fresh = {} /\ Cardinality(fresh) = 0
      BY <2>2, FS_EmptySet
    <3> QED BY <3>1, BoundAssumption DEF TypeOK
  <2> QED BY <2>1, <2>2
<1>5. /\ timestamps' = Restamp(hit, fresh, r)
      /\ net' = Transmit(copies, fresh)
      /\ next_seq' = next_seq + Cardinality(fresh)
      /\ in_flight' = flying + Cardinality(fresh)
      /\ acked' = acked + Cardinality(hit)
      /\ past_deadline' = ~MayRefill
  BY DEF OnPacket
<1>6. r \in [fresh -> Nat]
  OBVIOUS
<1> HIDE DEF hit, flying, fresh, r
<1>7. /\ Outstanding' \subseteq Seqs
      /\ timestamps' \in [Outstanding' -> [t0 : Nat, retries : Nat]]
  BY <1>3, <1>4, <1>5, <1>6, RestampProperties
<1>8. net' \in [Seqs -> Nat]
  BY <1>5, TransmitProperties
<1>9. /\ next_seq' \in 0 .. MaxSeq /\ in_flight' \in Nat /\ acked' \in Nat
      /\ past_deadline' \in BOOLEAN
  BY <1>1, <1>2, <1>4, <1>5, BoundAssumption DEF TypeOK, MayRefill
<1>10. /\ phase' \in Phases /\ received' \in Nat
       /\ retx_count' \in Nat /\ timed_out' \in Nat
  BY DEF OnPacket, TypeOK, Phases
<1> QED BY <1>3, <1>7, <1>8, <1>9, <1>10 DEF TypeOK

LEMMA RetransmitType ==
    ASSUME TypeOK, RetransmitTimeout
    PROVE  TypeOK'
<1> PICK rto \in MinRto .. MaxRto :
        LET stale == {s \in DOMAIN timestamps :
                        clock' - timestamps[s].t0 >= rto}
            gave_up == {s \in stale : Exhausted(s)}
        IN  \E resend \in SUBSET (stale \ gave_up) :
            /\ timestamps' = Restamp(gave_up, resend,
                    [s \in resend |-> timestamps[s].retries + 1])
            /\ in_flight' = Less(in_flight, Cardinality(gave_up))
            /\ timed_out' = timed_out + Cardinality(gave_up)
            /\ retx_count' = retx_count + Cardinality(resend)
            /\ cwnd' \in IF resend = {} THEN {cwnd} ELSE MinWindow .. cwnd
            /\ net' = Transmit(net, resend)
  BY DEF RetransmitTimeout
<1> DEFINE stale == {s \in DOMAIN timestamps : clock' - timestamps[s].t0 >= rto}
           gave_up == {s \in stale : Exhausted(s)}
<1> PICK resend \in SUBSET (stale \ gave_up) :
            /\ timestamps' = Restamp(gave_up, resend,
                    [s \in resend |-> timestamps[s].retries + 1])
            /\ in_flight' = Less(in_flight, Cardinality(gave_up))
            /\ timed_out' = timed_out + Cardinality(gave_up)
            /\ retx_count' = retx_count + Cardinality(resend)
            /\ cwnd' \in IF resend = {} THEN {cwnd} ELSE MinWindow .. cwnd
            /\ net' = Transmit(net, resend)
  OBVIOUS
<1> DEFINE r == [s \in resend |-> timestamps[s].retries + 1]
<1>1. /\ gave_up \in SUBSET Outstanding /\ resend \in SUBSET Outstanding
      /\ gave_up \in SUBSET Seqs /\ resend \in SUBSET Seqs
  BY DEF Outstanding, TypeOK
<1>2. r \in [resend -> Nat]
  BY <1>1 DEF TypeOK
<1>3. timestamps' = Restamp(gave_up, resend, r)
  OBVIOUS
<1> HIDE DEF stale, gave_up, r
<1>4. clock' \in Nat
  BY DEF RetransmitTimeout, TypeOK
<1>5. /\ Outstanding' \subseteq Seqs
      /\ timestamps' \in [Outstanding' -> [t0 : Nat, retries : Nat]]
  BY <1>1, <1>2, <1>3, <1>4, RestampProperties
<1>6. Cardinality(gave_up) \in Nat /\ Cardinality(resend) \in Nat
  BY <1>1, SubsetOfSeqsFinite
<1>7. /\ in_flight' \in Nat /\ timed_out' \in Nat /\ retx_count' \in Nat
  BY <1>6, Arithmetic DEF TypeOK
<1>8. net' \in [Seqs -> Nat]
  BY TransmitProperties DEF TypeOK
<1>9. cwnd' \in MinWindow .. MaxWindow
  BY WindowAssumption DEF TypeOK
<1> QED BY <1>4, <1>5, <1>7, <1>8, <1>9 DEF RetransmitTimeout, TypeOK

LEMMA InitType == Init => TypeOK
<1> SUFFICES ASSUME Init PROVE TypeOK
  OBVIOUS
<1>1. Outstanding = {}
  BY DEF Init, Outstanding
<1>2. timestamps \in [Outstanding -> [t0 : Nat, retries : Nat]]
  BY DEF Init, Outstanding
<1>3. net \in [Seqs -> Nat] /\ next_seq \in 0 .. MaxSeq
  BY BoundAssumption DEF Init
<1> QED BY <1>1, <1>2, <1>3 DEF Init, TypeOK, Phases

LEMMA StepType == TypeOK /\ [Next]_vars => TypeOK'
<1> SUFFICES ASSUME TypeOK, [Next]_vars PROVE TypeOK'
  OBVIOUS
<1>1. ASSUME NEW late \in BOOLEAN, Negotiated(late) PROVE TypeOK'
  BY <1>1, NegotiatedType
<1>2. ASSUME NEW s \in Seqs, RecvData(s) \/ RecvNack(s) PROVE TypeOK'
  <2>1. [net EXCEPT ![s] = @ - 1] \in [Seqs -> Nat]
    BY <1>2 DEF RecvData, RecvNack, TypeOK
  <2>2. sessionLate' \in BOOLEAN
    BY <1>2 DEF RecvData, RecvNack, TypeOK
  <2>3. CASE RecvData(s)
    <3>1. OnPacket({s}, [net EXCEPT ![s] = @ - 1])
      BY <2>3 DEF RecvData
    <3> QED BY <2>1, <2>2, <3>1, OnPacketType
  <2>4. CASE RecvNack(s)
    <3>1. OnPacket({}, [net EXCEPT ![s] = @ - 1])
      BY <2>4 DEF RecvNack
    <3> QED BY <2>1, <2>2, <3>1, OnPacketType
  <2> QED BY <1>2, <2>3, <2>4
<1>3. ASSUME NEW s \in Seqs, Lose(s) PROVE TypeOK'
  BY <1>3 DEF Lose, TypeOK, Outstanding, counters
<1>4. ASSUME RecvLateSession PROVE TypeOK'
  <2>1. net \in [Seqs -> Nat] /\ sessionLate' \in BOOLEAN /\ OnPacket({}, net)
    BY <1>4 DEF RecvLateSession, TypeOK
  <2> QED BY <2>1, OnPacketType
<1>5. ASSUME RetransmitTimeout PROVE TypeOK'
  BY <1>5, RetransmitType
<1>6. ASSUME DeadlineTimeout PROVE TypeOK'
  BY <1>6 DEF DeadlineTimeout, TypeOK, Outstanding, counters
<1>7. ASSUME DrainTimeout PROVE TypeOK'
  <2>1. /\ clock' \in Nat /\ phase' \in Phases
    BY <1>7, TimeAssumption DEF DrainTimeout, TypeOK, Phases
  <2>2. /\ Outstanding' \subseteq Outstanding
        /\ timestamps' \in [Outstanding' -> [t0 : Nat, retries : Nat]]
    BY <1>7 DEF DrainTimeout, TypeOK, Outstanding
  <2> QED BY <1>7, <2>1, <2>2 DEF DrainTimeout, TypeOK, counters
<1>8. ASSUME ConnectionClosed \/ SendFails PROVE TypeOK'
  BY <1>8 DEF ConnectionClosed, SendFails, TypeOK, Outstanding, counters, Phases
<1>9. CASE UNCHANGED vars
  BY <1>9 DEF TypeOK, Outstanding, vars, counters
<1> QED BY <1>1, <1>2, <1>3, <1>4, <1>5, <1>6, <1>7, <1>8, <1>9
        DEF Next, Timeouts

\* Every reachable state has its types: the counters never go below zero, no
\* sequence number beyond the flow's range is asked for, the window stays
\* between its bounds.
THEOREM TypeCorrect == Spec => []TypeOK
BY InitType, StepType, PTL DEF Spec

(***************************************************************************)
(* The inductive invariant.  Beyond the three properties it says that the  *)
(* outstanding numbers are among those already used, that nothing was sent *)
(* in the future (so one silent drain window empties the map, which is why *)
(* the counter the drain does not adjust is still right while the loop     *)
(* runs), and that no copy of an unused number travels.                    *)
(***************************************************************************)
Sane ==
    /\ Outstanding \subseteq 0 .. next_seq - 1
    /\ \A s \in Outstanding : timestamps[s].t0 <= clock
    /\ \A s \in Seqs : s >= next_seq => net[s] = 0
    /\ phase = "negotiating" => /\ Outstanding = {} /\ next_seq = 0
                                /\ in_flight = 0 /\ acked = 0 /\ timed_out = 0
                                /\ past_deadline = FALSE

IInv == TypeOK /\ Sane /\ WindowAccounting /\ Conservation /\ RetryBudget

(***************************************************************************)
(* What any step does to the set of outstanding Interests: gone leaves it, *)
(* fresh enters it, resend is stamped anew.                                *)
(***************************************************************************)
Moved(gone, fresh, resend) ==
    /\ gone \in SUBSET Outstanding
    /\ fresh \in SUBSET Seqs
    /\ resend \in SUBSET Outstanding
    /\ fresh = next_seq .. next_seq + Cardinality(fresh) - 1
    /\ next_seq' = next_seq + Cardinality(fresh)
    /\ Outstanding' = (Outstanding \ gone) \cup fresh
    /\ clock' >= clock
    /\ \A s \in fresh : timestamps'[s].t0 = clock' /\ timestamps'[s].retries = 0
    /\ \A s \in resend : /\ timestamps'[s].t0 = clock'
                          /\ timestamps[s].retries < MAX_RETRIES
                          /\ timestamps'[s].retries = timestamps[s].retries + 1
    /\ \A s \in Outstanding' \ (fresh \cup resend) : timestamps'[s] = timestamps[s]
    /\ \A s \in Seqs : net'[s] <= IF s \in fresh \cup resend THEN net[s] + 1
                                                           ELSE net[s]
    /\ phase' = "testing" =>
            /\ phase \in {"negotiating", "testing"}
            /\ in_flight' = in_flight - Cardinality(gone) + Cardinality(fresh)
            /\ acked' + timed_out' = acked + timed_out + Cardinality(gone)
    /\ phase' = "negotiating" => /\ phase = "negotiating"
                                 /\ gone = {} /\ next_seq' = next_seq
                                 /\ UNCHANGED <<in_flight, acked, timed_out,
                                               past_deadline>>
    /\ past_deadline => past_deadline'
    /\ fresh # {} => /\ ~past_deadline
                     /\ in_flight - Cardinality(gone) + Cardinality(fresh) <= cwnd'
                     /\ phase \in {"negotiating", "testing"}

LEMMA MovedPreserves ==
    ASSUME IInv, TypeOK', NEW gone, NEW fresh, NEW resend,
           Moved(gone, fresh, resend)
    PROVE  IInv'
<1>0. /\ Outstanding \in SUBSET Seqs
      /\ gone \in SUBSET Outstanding /\ resend \in SUBSET Outstanding
      /\ fresh \in SUBSET Seqs
      /\ Outstanding' = (Outstanding \ gone) \cup fresh
  BY DEF IInv, TypeOK, Moved
<1>n. /\ next_seq \in Nat /\ next_seq' \in Nat
      /\ next_seq' = next_seq + Cardinality(fresh)
      /\ Cardinality(fresh) \in Nat
      /\ next_seq <= next_seq'
  <2>1. next_seq \in Nat /\ next_seq' \in Nat
    BY BoundAssumption DEF IInv, TypeOK
  <2>2. next_seq' = next_seq + Cardinality(fresh)
    BY DEF Moved
  <2>3. Cardinality(fresh) \in Nat
    BY <1>0, SubsetOfSeqsFinite
  <2> QED BY <2>1, <2>2, <2>3
<1>1. /\ fresh \cap Outstanding = {}
      /\ Outstanding \subseteq 0 .. next_seq' - 1
      /\ fresh \subseteq 0 .. next_seq' - 1
      /\ \A s \in Nat : s >= next_seq' => s \notin fresh /\ s \notin Outstanding
      /\ \A s \in fresh : s >= next_seq
  <2>1. Outstanding \in SUBSET (0 .. next_seq - 1)
    BY DEF IInv, Sane
  <2>5. fresh = next_seq .. next_seq + Cardinality(fresh) - 1
    BY DEF Moved
  <2> DEFINE b == next_seq + Cardinality(fresh)
  <2>2. fresh = next_seq .. b - 1
    BY <1>n, <2>5
  <2>3. b \in Nat /\ next_seq <= b /\ next_seq' = b
    BY <1>n
  <2> HIDE DEF b
  <2>4. /\ fresh \cap Outstanding = {}
        /\ Outstanding \subseteq 0 .. b - 1
        /\ fresh \subseteq 0 .. b - 1
        /\ \A s \in Nat : s >= b => s \notin fresh /\ s \notin Outstanding
        /\ \A s \in fresh : s >= next_seq
    BY <1>n, <2>1, <2>2, <2>3, RunAbove
  <2> QED BY <2>3, <2>4
<1>2. Cardinality(Outstanding')
        = Cardinality(Outstanding) - Cardinality(gone) + Cardinality(fresh)
  BY <1>0, <1>1, ExchangeCardinality
<1>3. /\ Cardinality(Outstanding) \in Nat /\ Cardinality(gone) \in Nat
      /\ Cardinality(fresh) \in Nat
  BY <1>0, SubsetOfSeqsFinite
<1>4. ASSUME phase' = "testing"
      PROVE  /\ in_flight' = Cardinality(Outstanding')
             /\ next_seq' = Cardinality(Outstanding') + acked' + timed_out'
  <2>1. /\ phase \in {"negotiating", "testing"}
        /\ in_flight' = in_flight - Cardinality(gone) + Cardinality(fresh)
        /\ acked' + timed_out' = acked + timed_out + Cardinality(gone)
    BY <1>4 DEF Moved
  <2>2. /\ in_flight = Cardinality(Outstanding)
        /\ next_seq = Cardinality(Outstanding) + acked + timed_out
    <3>1. CASE phase = "testing"
      BY <3>1 DEF IInv, WindowAccounting, Conservation
    <3>2. CASE phase = "negotiating"
      <4>1. Outstanding = {} /\ next_seq = 0 /\ in_flight = 0
            /\ acked = 0 /\ timed_out = 0
        BY <3>2 DEF IInv, Sane
      <4> QED BY <4>1, FS_EmptySet
    <3> QED BY <2>1, <3>1, <3>2
  <2>3. /\ in_flight \in Nat /\ acked \in Nat /\ timed_out \in Nat
        /\ acked' \in Nat /\ timed_out' \in Nat
    BY DEF IInv, TypeOK
  <2>4. /\ acked + timed_out \in Nat /\ acked' + timed_out' \in Nat
        /\ in_flight' \in Nat
        /\ next_seq = Cardinality(Outstanding) + (acked + timed_out)
        /\ acked' + timed_out' = (acked + timed_out) + Cardinality(gone)
    <3>1. in_flight' \in Nat
      BY DEF TypeOK
    <3>2. acked + timed_out \in Nat /\ acked' + timed_out' \in Nat
      BY <2>3, SumType
    <3>3. next_seq = Cardinality(Outstanding) + (acked + timed_out)
      BY <1>3, <2>2, <2>3
    <3>4. acked' + timed_out' = (acked + timed_out) + Cardinality(gone)
      BY <2>1
    <3> QED BY <3>1, <3>2, <3>3, <3>4
  <2>5. /\ in_flight' = Cardinality(Outstanding')
        /\ next_seq' = Cardinality(Outstanding') + (acked' + timed_out')
    BY <1>n, <1>2, <1>3, <2>1, <2>2, <2>3, <2>4, Balance
  <2>6. Cardinality(Outstanding') \in Nat
    BY SubsetOfSeqsFinite DEF TypeOK
  <2> QED BY <2>3, <2>5, <2>6
<1>5. WindowAccounting' /\ Conservation'
  BY <1>4 DEF WindowAccounting, Conservation
<1>6. Sane'
  <2>1. Outstanding' \subseteq 0 .. next_seq' - 1
    BY <1>0, <1>1
  <2>2. \A s \in Outstanding' : timestamps'[s].t0 <= clock'
    <3>1. ASSUME NEW s \in Outstanding', s \notin fresh \cup resend
          PROVE  timestamps'[s].t0 <= clock'
      <4>1. s \in Outstanding /\ timestamps'[s] = timestamps[s]
        BY <3>1 DEF Moved
      <4>2. timestamps[s].t0 \in Nat /\ clock \in Nat /\ clock' \in Nat
        BY <4>1 DEF IInv, TypeOK
      <4> QED BY <4>1, <4>2 DEF Moved, IInv, Sane
    <3>2. clock' \in Nat
      BY DEF TypeOK
    <3> QED BY <3>1, <3>2 DEF Moved
  <2>3. \A s \in Seqs : s >= next_seq' => net'[s] = 0
    <3> SUFFICES ASSUME NEW s \in Seqs, s >= next_seq' PROVE net'[s] = 0
      OBVIOUS
    <3>1. s \in Nat /\ s \notin fresh \cup resend /\ s >= next_seq
      <4>1. s \in Nat
        BY DEF Seqs
      <4>2. s \notin fresh /\ s \notin Outstanding
        BY <1>1, <4>1
      <4>3. s >= next_seq
        BY <1>n, <4>1
      <4> QED BY <1>0, <4>1, <4>2, <4>3
    <3>2. net'[s] <= net[s] /\ net[s] = 0 /\ net'[s] \in Nat
      BY <3>1 DEF Moved, IInv, Sane, TypeOK
    <3> QED BY <3>2
  <2>4. phase' = "negotiating" =>
            /\ Outstanding' = {} /\ next_seq' = 0
            /\ in_flight' = 0 /\ acked' = 0 /\ timed_out' = 0
            /\ past_deadline' = FALSE
    <3> SUFFICES ASSUME phase' = "negotiating"
                 PROVE  /\ Outstanding' = {} /\ next_seq' = 0
                        /\ in_flight' = 0 /\ acked' = 0 /\ timed_out' = 0
                        /\ past_deadline' = FALSE
      OBVIOUS
    <3>1. /\ phase = "negotiating" /\ next_seq' = next_seq
          /\ UNCHANGED <<in_flight, acked, timed_out, past_deadline>>
      BY DEF Moved
    <3>2. Outstanding = {} /\ next_seq = 0
      BY <3>1 DEF IInv, Sane
    <3>3. fresh = {}
      BY <1>1, <1>n, <3>1, <3>2, <1>0
    <3> QED BY <3>1, <3>2, <3>3 DEF Moved, IInv, Sane
  <2> QED BY <2>1, <2>2, <2>3, <2>4 DEF Sane
<1>7. RetryBudget'
  <2> SUFFICES ASSUME NEW s \in Seqs
               PROVE  /\ net'[s] <= MAX_RETRIES + 1
                      /\ s \in Outstanding' =>
                            /\ net'[s] <= timestamps'[s].retries + 1
                            /\ timestamps'[s].retries <= MAX_RETRIES
    BY DEF RetryBudget
  <2>1. /\ net[s] \in Nat /\ net'[s] \in Nat /\ MAX_RETRIES \in Nat
        /\ net[s] <= MAX_RETRIES + 1
    BY BoundAssumption DEF IInv, TypeOK, RetryBudget
  <2>2. CASE s \in fresh
    <3>1. net[s] = 0
      BY <1>1, <2>2 DEF Moved, IInv, Sane
    <3> QED BY <2>1, <2>2, <3>1 DEF Moved
  <2>3. CASE s \in resend
    <3>1. /\ timestamps[s].retries \in Nat /\ net[s] <= timestamps[s].retries + 1
      BY <2>3 DEF Moved, IInv, TypeOK, RetryBudget
    <3>2. /\ timestamps[s].retries < MAX_RETRIES
          /\ timestamps'[s].retries = timestamps[s].retries + 1
          /\ net'[s] <= net[s] + 1
      BY <2>3 DEF Moved
    <3> QED BY <2>1, <3>1, <3>2
  <2>4. CASE s \notin fresh \cup resend
    <3>1. net'[s] <= net[s]
      BY <2>4 DEF Moved
    <3>2. s \in Outstanding' =>
            s \in Outstanding /\ timestamps'[s] = timestamps[s]
      BY <2>4 DEF Moved
    <3>3. s \in Outstanding => /\ net[s] <= timestamps[s].retries + 1
                               /\ timestamps[s].retries <= MAX_RETRIES
                               /\ timestamps[s].retries \in Nat
      BY DEF IInv, RetryBudget, TypeOK
    <3> QED BY <2>1, <3>1, <3>2, <3>3
  <2> QED BY <2>2, <2>3, <2>4
<1> QED BY <1>5, <1>6, <1>7 DEF IInv

(***************************************************************************)
(* Every step is such a move.                                              *)
(***************************************************************************)
LEMMA RefillFits ==
    ASSUME NEW a \in Nat, NEW g \in Nat, NEW c \in Nat, NEW w \in Nat,
           g <= a, c <= Less(w, a - g), c > 0
    PROVE  a - g + c <= w
BY DEF Less, Greater

LEMMA NonEmptyCardinality ==
    ASSUME NEW S \in SUBSET Seqs, S # {}
    PROVE  Cardinality(S) > 0
BY SubsetOfSeqsFinite, FS_EmptySet

LEMMA NoMove ==
    ASSUME IInv, phase' # "negotiating" \/ phase = "negotiating",
           phase' = "testing" => phase = "testing",
           UNCHANGED <<timestamps, counters>>, clock' \in Nat, clock' >= clock,
           past_deadline => past_deadline',
           phase' = "negotiating" => UNCHANGED past_deadline,
           \A s \in Seqs : net'[s] <= net[s]
    PROVE  Moved({}, {}, {})
<1>1. Cardinality({}) = 0 /\ {} = next_seq .. next_seq + 0 - 1
  BY FS_EmptySet, BoundAssumption DEF IInv, TypeOK
<1>2. /\ Outstanding' = Outstanding
      /\ UNCHANGED <<timestamps, next_seq, in_flight, acked, timed_out>>
  BY DEF Outstanding, counters
<1>3. /\ next_seq' = next_seq + Cardinality({})
      /\ in_flight' = in_flight - Cardinality({}) + Cardinality({})
      /\ acked' + timed_out' = acked + timed_out + Cardinality({})
  BY <1>1, <1>2 DEF IInv, TypeOK
<1> QED BY <1>1, <1>2, <1>3 DEF Moved

LEMMA NegotiatedMoves ==
    ASSUME IInv, NEW late \in BOOLEAN, Negotiated(late)
    PROVE  \E fresh : Moved({}, fresh, {})
<1> DEFINE w == Lesser(InitialWindow, cwnd)
           b == Fresh(0, w)
           r == [s \in b |-> 0]
<1>1. w \in Nat /\ w <= cwnd /\ cwnd \in Nat /\ cwnd' = cwnd
  BY WindowAssumption DEF IInv, TypeOK, Lesser, Negotiated
<1> HIDE DEF w
<1>2. /\ b \in SUBSET Seqs /\ Cardinality(b) \in Nat
      /\ b = next_seq .. next_seq + Cardinality(b) - 1
      /\ Cardinality(b) <= Less(w, 0)
  BY <1>1, FreshProperties DEF IInv, TypeOK
<1>3. /\ timestamps' = Restamp({}, b, r)
      /\ net' = Transmit(net, b)
      /\ next_seq' = next_seq + Cardinality(b)
      /\ in_flight' = in_flight + Cardinality(b)
      /\ UNCHANGED <<clock, acked, timed_out, past_deadline>>
      /\ phase = "negotiating" /\ phase' = "testing"
  BY DEF Negotiated, w
<1>4. r \in [b -> Nat]
  OBVIOUS
<1> HIDE DEF b, r
<1>5. clock' \in Nat /\ clock' >= clock
  BY <1>3 DEF IInv, TypeOK
<1>6. /\ Outstanding' = (Outstanding \ {}) \cup b
      /\ \A s \in b : timestamps'[s].t0 = clock' /\ timestamps'[s].retries = r[s]
      /\ \A s \in Outstanding' \ b : timestamps'[s] = timestamps[s]
  <2>1. TypeOK
    BY DEF IInv
  <2>2. PICK none : none = {}
    OBVIOUS
  <2>3. timestamps' = Restamp(none, b, r) /\ b \in SUBSET Seqs
    BY <1>2, <1>3, <2>2
  <2>4. /\ Outstanding' = (Outstanding \ none) \cup b
        /\ \A s \in b : /\ timestamps'[s].t0 = clock'
                         /\ timestamps'[s].retries = r[s]
        /\ \A s \in Outstanding' \ b :
                s \in Outstanding /\ timestamps'[s] = timestamps[s]
    BY <1>4, <1>5, <2>1, <2>3, RestampProperties
  <2> QED BY <2>2, <2>4
<1>7. \A s \in b : r[s] = 0
  BY DEF r
<1>8. \A s \in Seqs : net'[s] <= IF s \in b THEN net[s] + 1 ELSE net[s]
  <2>1. \A s \in Seqs : net'[s] = IF s \in b THEN net[s] + 1 ELSE net[s]
    BY <1>3, TransmitProperties DEF IInv, TypeOK
  <2>2. \A s \in Seqs : net[s] \in Nat
    BY DEF IInv, TypeOK
  <2> QED BY <2>1, <2>2
<1>9. /\ in_flight = 0 /\ acked \in Nat /\ timed_out \in Nat
      /\ past_deadline = FALSE
  BY <1>3 DEF IInv, Sane, TypeOK
<1>10. Cardinality({}) = 0
  BY FS_EmptySet
<1>11. Cardinality(b) <= cwnd
  BY <1>1, <1>2 DEF Less, Greater
<1>12. /\ in_flight' = in_flight - Cardinality({}) + Cardinality(b)
       /\ acked' + timed_out' = acked + timed_out + Cardinality({})
       /\ in_flight - Cardinality({}) + Cardinality(b) <= cwnd'
  BY <1>1, <1>2, <1>3, <1>9, <1>10, <1>11
<1>13. Moved({}, b, {})
  BY <1>2, <1>3, <1>5, <1>6, <1>7, <1>8, <1>9, <1>12 DEF Moved
<1> QED BY <1>13

LEMMA OnPacketMoves ==
    ASSUME IInv, NEW seqs \in SUBSET Seqs, NEW copies \in [Seqs -> Nat],
           \A s \in Seqs : copies[s] <= net[s],
           OnPacket(seqs, copies)
    PROVE  \E gone, fresh : Moved(gone, fresh, {})
<1> DEFINE hit == Hit(seqs)
           flying == Less(in_flight, Cardinality(hit))
           fresh == IF MayRefill THEN Fresh(flying, cwnd') ELSE {}
           r == [s \in fresh |-> 0]
<1>1. /\ hit \in SUBSET Outstanding /\ Outstanding \in SUBSET Seqs
      /\ hit \in SUBSET Seqs
  BY DEF Hit, Outstanding, IInv, TypeOK
<1>2. /\ Cardinality(hit) \in Nat /\ Cardinality(hit) <= Cardinality(Outstanding)
      /\ phase = "testing" /\ in_flight = Cardinality(Outstanding)
      /\ in_flight \in Nat
  <2>1. IsFiniteSet(Outstanding)
    BY <1>1, SubsetOfSeqsFinite
  <2> QED BY <1>1, <2>1, SubsetOfSeqsFinite, FS_Subset
          DEF OnPacket, IInv, WindowAccounting, TypeOK
<1>3. /\ clock' \in Nat /\ clock' >= clock /\ cwnd' \in Nat
  BY WindowAssumption DEF OnPacket, IInv, TypeOK
<1>4. flying \in Nat /\ flying = in_flight - Cardinality(hit)
  BY <1>2, Arithmetic
<1>5. /\ timestamps' = Restamp(hit, fresh, r)
      /\ net' = Transmit(copies, fresh)
      /\ next_seq' = next_seq + Cardinality(fresh)
      /\ in_flight' = flying + Cardinality(fresh)
      /\ acked' = acked + Cardinality(hit)
      /\ timed_out' = timed_out
      /\ past_deadline' = ~MayRefill
      /\ phase' # "negotiating"
  BY DEF OnPacket
<1>6. next_seq \in 0 .. MaxSeq /\ next_seq \in Nat
  BY BoundAssumption DEF IInv, TypeOK
<1>8. r \in [fresh -> Nat] /\ \A s \in fresh : r[s] = 0
  OBVIOUS
<1>9. MayRefill => ~past_deadline
  BY DEF MayRefill
<1>f. IF MayRefill THEN fresh = Fresh(flying, cwnd') ELSE fresh = {}
  OBVIOUS
<1> HIDE DEF hit, flying, fresh, r
<1>7. /\ fresh \in SUBSET Seqs /\ Cardinality(fresh) \in Nat
      /\ fresh = next_seq .. next_seq + Cardinality(fresh) - 1
      /\ fresh # {} => MayRefill /\ Cardinality(fresh) <= Less(cwnd', flying)
  <2>1. CASE MayRefill
    BY <1>3, <1>4, <1>6, <1>f, <2>1, FreshProperties
  <2>2. CASE ~MayRefill
    <3>1. fresh = {} /\ Cardinality(fresh) = 0
      BY <1>f, <2>2, FS_EmptySet
    <3>2. {} = next_seq .. next_seq + 0 - 1
      BY <1>6
    <3> QED BY <3>1, <3>2
  <2> QED BY <2>1, <2>2
<1>10. /\ Outstanding' = (Outstanding \ hit) \cup fresh
       /\ \A s \in fresh : /\ timestamps'[s].t0 = clock'
                            /\ timestamps'[s].retries = 0
       /\ \A s \in Outstanding' \ fresh : timestamps'[s] = timestamps[s]
  BY <1>3, <1>5, <1>7, <1>8, RestampProperties DEF IInv
<1>11. \A s \in Seqs : net'[s] <= IF s \in fresh THEN net[s] + 1 ELSE net[s]
  <2>1. \A s \in Seqs : net'[s] = IF s \in fresh THEN copies[s] + 1 ELSE copies[s]
    BY <1>5, TransmitProperties
  <2>2. \A s \in Seqs : net[s] \in Nat /\ copies[s] \in Nat
    BY DEF IInv, TypeOK
  <2> QED BY <2>1, <2>2
<1>12. in_flight' = in_flight - Cardinality(hit) + Cardinality(fresh)
  BY <1>4, <1>5
<1>13. acked' + timed_out' = acked + timed_out + Cardinality(hit)
  BY <1>2, <1>5 DEF IInv, TypeOK
<1>14. fresh # {} => in_flight - Cardinality(hit) + Cardinality(fresh) <= cwnd'
  BY <1>2, <1>3, <1>4, <1>7, NonEmptyCardinality, RefillFits
<1>15. Moved(hit, fresh, {})
  <2>1. past_deadline => past_deadline'
    BY <1>5, <1>9
  <2> QED BY <1>1, <1>2, <1>3, <1>5, <1>7, <1>9, <1>10, <1>11, <1>12, <1>13,
             <1>14, <2>1 DEF Moved
<1> QED BY <1>15

LEMMA RetransmitMoves ==
    ASSUME IInv, RetransmitTimeout
    PROVE  \E gone, resend : Moved(gone, {}, resend)
<1>a. PICK rto \in MinRto .. MaxRto :
        LET stale == {s \in DOMAIN timestamps :
                        clock' - timestamps[s].t0 >= rto}
            gave_up == {s \in stale : Exhausted(s)}
        IN  \E resend \in SUBSET (stale \ gave_up) :
            /\ timestamps' = Restamp(gave_up, resend,
                    [s \in resend |-> timestamps[s].retries + 1])
            /\ in_flight' = Less(in_flight, Cardinality(gave_up))
            /\ timed_out' = timed_out + Cardinality(gave_up)
            /\ net' = Transmit(net, resend)
  BY DEF RetransmitTimeout
<1> DEFINE stale == {s \in DOMAIN timestamps : clock' - timestamps[s].t0 >= rto}
           gave_up == {s \in stale : Exhausted(s)}
<1>b. PICK resend \in SUBSET (stale \ gave_up) :
            /\ timestamps' = Restamp(gave_up, resend,
                    [s \in resend |-> timestamps[s].retries + 1])
            /\ in_flight' = Less(in_flight, Cardinality(gave_up))
            /\ timed_out' = timed_out + Cardinality(gave_up)
            /\ net' = Transmit(net, resend)
  BY <1>a
<1> DEFINE r == [s \in resend |-> timestamps[s].retries + 1]
<1>1. /\ gave_up \in SUBSET Outstanding /\ resend \in SUBSET Outstanding
      /\ resend \in SUBSET Seqs /\ gave_up \in SUBSET Seqs
      /\ gave_up \cap resend = {}
      /\ \A s \in resend : /\ timestamps[s].retries \in Nat
                           /\ ~(timestamps[s].retries >= MAX_RETRIES)
  BY <1>b DEF Outstanding, IInv, TypeOK, Exhausted
<1>2. r \in [resend -> Nat] /\ \A s \in resend : r[s] = timestamps[s].retries + 1
  BY <1>1
<1>3. timestamps' = Restamp(gave_up, resend, r)
  BY <1>b
<1> HIDE DEF stale, gave_up, r
<1>4. /\ clock' \in Nat /\ clock' >= clock /\ phase = "testing"
      /\ UNCHANGED <<phase, next_seq, acked, past_deadline>>
  BY DEF RetransmitTimeout, IInv, TypeOK
<1>5. /\ Outstanding' = (Outstanding \ gave_up) \cup resend
      /\ \A s \in resend : /\ timestamps'[s].t0 = clock'
                           /\ timestamps'[s].retries = r[s]
      /\ \A s \in Outstanding' \ resend : timestamps'[s] = timestamps[s]
  <2>1. TypeOK
    BY DEF IInv
  <2>2. clock' \in Nat /\ resend \in SUBSET Seqs
    BY <1>1, <1>4
  <2>3. /\ Outstanding' = (Outstanding \ gave_up) \cup resend
        /\ Outstanding' \subseteq Seqs
        /\ timestamps' \in [Outstanding' -> [t0 : Nat, retries : Nat]]
        /\ \A s \in resend : /\ timestamps'[s].t0 = clock'
                             /\ timestamps'[s].retries = r[s]
        /\ \A s \in Outstanding' \ resend :
                s \in Outstanding /\ timestamps'[s] = timestamps[s]
    BY <1>2, <1>3, <2>1, <2>2, RestampProperties
  <2> QED BY <2>3
<1>6. Outstanding' = (Outstanding \ gave_up) \cup {}
  BY <1>1, <1>5
<1>7. /\ Cardinality(gave_up) \in Nat
      /\ Cardinality(gave_up) <= Cardinality(Outstanding)
      /\ in_flight = Cardinality(Outstanding) /\ in_flight \in Nat
  <2>1. Outstanding \in SUBSET Seqs
    BY DEF IInv, TypeOK
  <2>2. IsFiniteSet(Outstanding)
    BY <2>1, SubsetOfSeqsFinite
  <2> QED BY <1>1, <1>4, <2>2, SubsetOfSeqsFinite, FS_Subset
          DEF IInv, WindowAccounting, TypeOK
<1>8. Cardinality({}) = 0 /\ {} = next_seq .. next_seq + 0 - 1
  BY FS_EmptySet, BoundAssumption DEF IInv, TypeOK
<1>9. in_flight' = in_flight - Cardinality(gave_up) + Cardinality({})
  <2>1. in_flight' = in_flight - Cardinality(gave_up)
    BY <1>b, <1>7, Arithmetic
  <2> QED BY <1>7, <1>8, <2>1
<1>10. acked' + timed_out' = acked + timed_out + Cardinality(gave_up)
  BY <1>b, <1>4, <1>7 DEF IInv, TypeOK
<1>11. next_seq' = next_seq + Cardinality({})
  BY <1>4, <1>8 DEF IInv, TypeOK
<1>12. \A s \in Seqs : net'[s] <= IF s \in resend THEN net[s] + 1 ELSE net[s]
  <2>1. \A s \in Seqs : net'[s] = IF s \in resend THEN net[s] + 1 ELSE net[s]
    BY <1>b, TransmitProperties DEF IInv, TypeOK
  <2>2. \A s \in Seqs : net[s] \in Nat
    BY DEF IInv, TypeOK
  <2> QED BY <2>1, <2>2
<1>13. \A s \in resend : /\ timestamps'[s].t0 = clock'
                         /\ timestamps[s].retries < MAX_RETRIES
                         /\ timestamps'[s].retries = timestamps[s].retries + 1
  <2> TAKE s \in resend
  <2>1. timestamps'[s].t0 = clock' /\ timestamps'[s].retries = r[s]
    BY <1>5
  <2>2. r[s] = timestamps[s].retries + 1
    BY <1>2
  <2>3. timestamps[s].retries \in Nat /\ ~(timestamps[s].retries >= MAX_RETRIES)
    BY <1>1
  <2>4. timestamps[s].retries < MAX_RETRIES
    BY <2>3, BoundAssumption
  <2> QED BY <2>1, <2>2, <2>4
<1>14. Moved(gave_up, {}, resend)
  BY <1>1, <1>4, <1>5, <1>6, <1>8, <1>9, <1>10, <1>11, <1>12, <1>13 DEF Moved
<1> QED BY <1>14

\* Whatever is outstanding when the drain window passes in silence is as old
\* as the window: nothing is kept and the loop ends.
LEMMA DrainEmpties ==
    ASSUME IInv, DrainTimeout
    PROVE  Outstanding' = {} /\ phase' = "done"
<1> DEFINE kept == {s \in DOMAIN timestamps :
                        clock' - timestamps[s].t0 < DrainTicks}
<1>1. /\ timestamps' = [s \in kept |-> timestamps[s]]
      /\ phase' = IF kept = {} THEN "done" ELSE "testing"
      /\ clock' = clock + DrainTicks
  BY DEF DrainTimeout
<1>2. ASSUME NEW s \in DOMAIN timestamps
      PROVE  ~(clock' - timestamps[s].t0 < DrainTicks)
  <2>1. /\ timestamps[s].t0 \in Nat /\ timestamps[s].t0 <= clock
        /\ clock \in Nat /\ DrainTicks \in Nat
    BY TimeAssumption DEF IInv, TypeOK, Sane, Outstanding
  <2>2. (clock + DrainTicks) - timestamps[s].t0 >= DrainTicks
    BY <2>1
  <2>3. (clock + DrainTicks) - timestamps[s].t0 \in Int
    BY <2>1
  <2>4. ~((clock + DrainTicks) - timestamps[s].t0 < DrainTicks)
    BY <2>1, <2>2, <2>3
  <2> QED BY <1>1, <2>4
<1>3. kept = {}
  BY <1>2
<1> QED BY <1>1, <1>3 DEF Outstanding

LEMMA DrainMoves ==
    ASSUME IInv, DrainTimeout
    PROVE  Moved(Outstanding, {}, {})
<1>1. Outstanding' = {} /\ phase' = "done" /\ Outstanding \in SUBSET Seqs
  BY DrainEmpties DEF IInv, TypeOK
<1>2. Cardinality({}) = 0 /\ {} = next_seq .. next_seq + 0 - 1
  BY FS_EmptySet, BoundAssumption DEF IInv, TypeOK
<1>3. /\ UNCHANGED <<next_seq, past_deadline, net>>
      /\ clock' >= clock
  BY TimeAssumption DEF DrainTimeout, counters, IInv, TypeOK
<1>4. next_seq' = next_seq + Cardinality({})
  BY <1>2, <1>3 DEF IInv, TypeOK
<1>5. \A s \in Seqs : net'[s] <= net[s]
  BY <1>3 DEF IInv, TypeOK
<1> QED BY <1>1, <1>2, <1>3, <1>4, <1>5 DEF Moved

LEMMA StepMoves ==
    ASSUME IInv, [Next]_vars
    PROVE  \E gone, fresh, resend : Moved(gone, fresh, resend)
<1>t. /\ clock \in Nat /\ net \in [Seqs -> Nat] /\ Deadline \in Nat
      /\ past_deadline \in BOOLEAN
  BY TimeAssumption DEF IInv, TypeOK
<1>1. ASSUME NEW late \in BOOLEAN, Negotiated(late)
      PROVE  \E gone, fresh, resend : Moved(gone, fresh, resend)
  BY <1>1, NegotiatedMoves
<1>2. ASSUME NEW s \in Seqs, RecvData(s) \/ RecvNack(s)
      PROVE  \E gone, fresh, resend : Moved(gone, fresh, resend)
  <2> DEFINE copies == [net EXCEPT ![s] = @ - 1]
  <2>1. net[s] > 0 /\ (OnPacket({s}, copies) \/ OnPacket({}, copies))
    BY <1>2 DEF RecvData, RecvNack
  <2>2. copies \in [Seqs -> Nat] /\ \A x \in Seqs : copies[x] <= net[x]
    BY <1>t, <2>1
  <2> HIDE DEF copies
  <2>3. {s} \in SUBSET Seqs /\ {} \in SUBSET Seqs
    OBVIOUS
  <2> QED BY <2>1, <2>2, <2>3, OnPacketMoves
<1>3. ASSUME NEW s \in Seqs, Lose(s) PROVE Moved({}, {}, {})
  <2>1. \A x \in Seqs : net'[x] <= net[x]
    BY <1>3, <1>t DEF Lose
  <2> QED BY <1>3, <1>t, <2>1, NoMove DEF Lose
<1>4. ASSUME RecvLateSession
      PROVE  \E gone, fresh, resend : Moved(gone, fresh, resend)
  <2>1. OnPacket({}, net) /\ \A x \in Seqs : net[x] <= net[x]
    BY <1>4, <1>t DEF RecvLateSession
  <2> QED BY <1>t, <2>1, OnPacketMoves
<1>5. ASSUME RetransmitTimeout
      PROVE  \E gone, fresh, resend : Moved(gone, fresh, resend)
  BY <1>5, RetransmitMoves
<1>6. ASSUME DeadlineTimeout PROVE Moved({}, {}, {})
  <2>1. \A x \in Seqs : net'[x] <= net[x]
    BY <1>6, <1>t DEF DeadlineTimeout
  <2>2. clock' \in Nat /\ clock' >= clock /\ phase = "testing"
        /\ past_deadline' = TRUE /\ UNCHANGED <<phase, timestamps, counters>>
    BY <1>6, <1>t DEF DeadlineTimeout
  <2> QED BY <2>1, <2>2, NoMove
<1>7. ASSUME DrainTimeout
      PROVE  \E gone, fresh, resend : Moved(gone, fresh, resend)
  BY <1>7, DrainMoves
<1>8. ASSUME ConnectionClosed \/ SendFails \/ UNCHANGED vars
      PROVE  Moved({}, {}, {})
  <2>1. \A x \in Seqs : net'[x] <= net[x]
    BY <1>8, <1>t DEF ConnectionClosed, SendFails, vars
  <2>2. /\ clock' \in Nat /\ clock' >= clock
        /\ UNCHANGED <<past_deadline, timestamps, counters>>
        /\ phase' # "negotiating" \/ phase = "negotiating"
        /\ phase' = "testing" => phase = "testing"
    BY <1>8, <1>t DEF ConnectionClosed, SendFails, vars
  <2> QED BY <2>1, <2>2, NoMove
<1> QED BY <1>1, <1>2, <1>3, <1>4, <1>5, <1>6, <1>7, <1>8 DEF Next, Timeouts

(***************************************************************************)
(* The safety theorems.                                                    *)
(***************************************************************************)
LEMMA InitInv == Init => IInv
<1> SUFFICES ASSUME Init PROVE IInv
  OBVIOUS
<1>1. TypeOK
  BY InitType
<1>2. Outstanding = {} /\ phase = "negotiating"
  BY DEF Init, Outstanding
<1>3. Sane
  BY <1>2 DEF Init, Sane
<1>4. WindowAccounting /\ Conservation
  BY <1>2 DEF WindowAccounting, Conservation
<1>5. RetryBudget
  BY <1>2, BoundAssumption DEF Init, RetryBudget
<1> QED BY <1>1, <1>3, <1>4, <1>5 DEF IInv

LEMMA StepInv == IInv /\ [Next]_vars => IInv'
<1> SUFFICES ASSUME IInv, [Next]_vars PROVE IInv'
  OBVIOUS
<1>1. TypeOK'
  BY StepType DEF IInv
<1> QED BY <1>1, StepMoves, MovedPreserves

\* The inductive invariant holds of every reachable state.
THEOREM Invariance == Spec => []IInv
BY InitInv, StepInv, PTL DEF Spec

\* run_client's in_flight counter equals the number of outstanding Interests
\* throughout the test loop.
THEOREM WindowAccountingHolds == Spec => []WindowAccounting
<1>1. IInv => WindowAccounting
  BY DEF IInv
<1> QED BY <1>1, Invariance, PTL

\* Every sequence number used is outstanding, answered or given up, and
\* counted once.
THEOREM ConservationHolds == Spec => []Conservation
<1>1. IInv => Conservation
  BY DEF IInv
<1> QED BY <1>1, Invariance, PTL

\* No Interest is sent more than 1 + MAX_RETRIES times.
THEOREM RetryBudgetHolds == Spec => []RetryBudget
<1>1. IInv => RetryBudget
  BY DEF IInv
<1> QED BY <1>1, Invariance, PTL

(***************************************************************************)
(* The client implements the abstract flow.                                *)
(***************************************************************************)
\* Whenever something new is asked for, what is then outstanding fits the
\* congestion window of that moment.
LEMMA MovedFits ==
    ASSUME IInv, TypeOK', NEW gone, NEW fresh, NEW resend,
           Moved(gone, fresh, resend), fresh # {}
    PROVE  Cardinality(Outstanding') <= cwnd'
<1>1. /\ Outstanding \in SUBSET Seqs /\ gone \in SUBSET Outstanding
      /\ fresh \in SUBSET Seqs /\ fresh \cap Outstanding = {}
      /\ Outstanding' = (Outstanding \ gone) \cup fresh
  <2>1. fresh = next_seq .. next_seq + Cardinality(fresh) - 1
    BY DEF Moved
  <2>2. Cardinality(fresh) \in Nat /\ next_seq \in Nat
    <3>1. fresh \in SUBSET Seqs
      BY DEF Moved
    <3>2. next_seq \in Nat
      BY BoundAssumption DEF IInv, TypeOK
    <3> QED BY <3>1, <3>2, SubsetOfSeqsFinite
  <2>3. fresh \cap (0 .. next_seq - 1) = {}
    BY <2>1, <2>2, RunExtends
  <2> QED BY <2>3 DEF Moved, IInv, Sane, TypeOK
<1>2. Cardinality(Outstanding') =
            Cardinality(Outstanding) - Cardinality(gone) + Cardinality(fresh)
  BY <1>1, ExchangeCardinality
<1>3. in_flight = Cardinality(Outstanding)
  <2>1. CASE phase = "testing"
    BY <2>1 DEF IInv, WindowAccounting
  <2>2. CASE phase = "negotiating"
    BY <2>2, FS_EmptySet DEF IInv, Sane
  <2> QED BY <2>1, <2>2 DEF Moved
<1>4. in_flight - Cardinality(gone) + Cardinality(fresh) <= cwnd'
  BY DEF Moved
<1> QED BY <1>2, <1>3, <1>4

\* The cardinality the flow speaks of is this one.
LEMMA SameCardinality == \A S : Flow!Cardinality(S) = Cardinality(S)
BY Zenon DEF Flow!Cardinality, Cardinality

LEMMA MovedTurns ==
    ASSUME IInv, TypeOK', NEW gone, NEW fresh, NEW resend,
           Moved(gone, fresh, resend)
    PROVE  Flow!Turn(gone, fresh)
<1> DEFINE old == 0 .. next_seq - 1
           new == 0 .. next_seq' - 1
<1>1. /\ next_seq \in Nat /\ Cardinality(fresh) \in Nat
      /\ next_seq' = next_seq + Cardinality(fresh)
      /\ fresh = next_seq .. next_seq + Cardinality(fresh) - 1
  <2>1. /\ fresh \in SUBSET Seqs /\ next_seq' = next_seq + Cardinality(fresh)
        /\ fresh = next_seq .. next_seq + Cardinality(fresh) - 1
    BY DEF Moved
  <2>2. next_seq \in Nat
    BY BoundAssumption DEF IInv, TypeOK
  <2> QED BY <2>1, <2>2, SubsetOfSeqsFinite
<1>2. fresh \cap old = {} /\ new = old \cup fresh
  <2>1. fresh \cap old = {}
    BY <1>1, RunExtends
  <2>2. new = old \cup fresh
    BY <1>1, RunExtends
  <2> QED BY <2>1, <2>2
<1>3. /\ Outstanding \subseteq old /\ gone \subseteq Outstanding
      /\ Outstanding' = (Outstanding \ gone) \cup fresh
  BY DEF IInv, Sane, Moved
<1> HIDE DEF old, new
<1>4. fresh \cap (Outstanding \cup (old \ Outstanding)) = {}
  BY <1>2, <1>3
<1>5. new \ Outstanding' = (old \ Outstanding) \cup gone
  BY <1>2, <1>3
<1>6. fresh # {} =>
        ~past_deadline /\ Cardinality((Outstanding \ gone) \cup fresh) <= MaxWindow
  <2> SUFFICES ASSUME fresh # {}
               PROVE  ~past_deadline /\ Cardinality(Outstanding') <= MaxWindow
    BY <1>3
  <2>1. Cardinality(Outstanding') <= cwnd'
    BY MovedFits
  <2>2. /\ cwnd' \in MinWindow .. MaxWindow
        /\ MinWindow \in Nat /\ MaxWindow \in Nat
    BY WindowAssumption DEF TypeOK
  <2>3. Cardinality(Outstanding') \in Nat
    BY SubsetOfSeqsFinite DEF TypeOK
  <2>4. Cardinality(Outstanding') <= MaxWindow
    BY <2>1, <2>2, <2>3
  <2> QED BY <2>4 DEF Moved
<1>7. (~past_deadline') \in {~past_deadline, FALSE}
  BY DEF Moved, IInv, TypeOK
<1>8. fresh # {} => /\ ~past_deadline
                    /\ Flow!Cardinality((Outstanding \ gone) \cup fresh) <= MaxWindow
  BY <1>6, SameCardinality
<1> QED BY <1>3, <1>4, <1>5, <1>7, <1>8 DEF Flow!Turn, old, new

LEMMA StepTurns == IInv /\ TypeOK' /\ [Next]_vars => [Flow!FlowNext]_(Flow!flowVars)
<1> SUFFICES ASSUME IInv, TypeOK', [Next]_vars
             PROVE  Flow!FlowNext
  OBVIOUS
<1>1. PICK gone, fresh, resend : Moved(gone, fresh, resend)
  BY StepMoves
<1>2. gone \in SUBSET Outstanding /\ fresh \in SUBSET Seqs
  BY <1>1 DEF Moved
<1> QED BY <1>1, <1>2, MovedTurns DEF Flow!FlowNext

\* run_client is a windowed flow: a sequence number is asked for as new only
\* once, before the deadline and within the window, and settles only once.
THEOREM FlowImplemented == Spec => ImplementsFlow
<1>1. Init => Flow!FlowInit
  <2> SUFFICES ASSUME Init PROVE Flow!FlowInit
    OBVIOUS
  <2>1. Outstanding = {} /\ 0 .. next_seq - 1 = {} /\ past_deadline = FALSE
    BY DEF Init, Outstanding
  <2> QED BY <2>1 DEF Flow!FlowInit
<1>2. IInv => TypeOK
  BY DEF IInv
<1> QED BY <1>1, <1>2, StepTurns, Invariance, PTL
        DEF Spec, ImplementsFlow, Flow!FlowSpec

\* A send of something new leaves no more outstanding than the congestion
\* window allows.
THEOREM NewWithinWindowHolds == Spec => NewWithinWindow
<1>1. IInv /\ TypeOK' /\ [Next]_vars =>
        (next_seq' > next_seq => Cardinality(Outstanding') <= cwnd')
  <2> SUFFICES ASSUME IInv, TypeOK', [Next]_vars, next_seq' > next_seq
               PROVE  Cardinality(Outstanding') <= cwnd'
    OBVIOUS
  <2>1. PICK gone, fresh, resend : Moved(gone, fresh, resend)
    BY StepMoves
  <2>2. fresh # {}
    <3>1. ASSUME fresh = {} PROVE FALSE
      <4>1. next_seq' = next_seq + 0
        BY <2>1, <3>1, FS_EmptySet DEF Moved
      <4> QED BY <4>1, BoundAssumption DEF IInv, TypeOK
    <3> QED BY <3>1
  <2> QED BY <2>1, <2>2, MovedFits
<1>2. IInv => TypeOK
  BY DEF IInv
<1> QED BY <1>1, <1>2, Invariance, PTL DEF Spec, NewWithinWindow

(***************************************************************************)
(* The report.                                                             *)
(***************************************************************************)
\* A sample is taken for a packet, and for a number that was asked for.
Sampled == acked <= received /\ acked <= next_seq

LEMMA OnPacketSampled ==
    ASSUME IInv, IInv', Sampled, NEW seqs \in SUBSET Seqs, NEW copies,
           OnPacket(seqs, copies), Cardinality(seqs) <= 1
    PROVE  Sampled'
<1> DEFINE hit == Hit(seqs)
           flying == Less(in_flight, Cardinality(hit))
           fresh == IF MayRefill THEN Fresh(flying, cwnd') ELSE {}
<1>1. /\ acked' = acked + Cardinality(hit) /\ received' = received + 1
      /\ next_seq' = next_seq + Cardinality(fresh) /\ phase = "testing"
  BY DEF OnPacket
<1>2. /\ hit \in SUBSET Seqs /\ Outstanding \in SUBSET Seqs
      /\ hit \subseteq seqs /\ hit \subseteq Outstanding
      /\ IsFiniteSet(seqs) /\ IsFiniteSet(Outstanding)
      /\ Cardinality(hit) \in Nat /\ Cardinality(Outstanding) \in Nat /\ Cardinality(seqs) \in Nat
  BY SubsetOfSeqsFinite DEF Hit, Outstanding, IInv, TypeOK
<1>3. Cardinality(hit) <= 1 /\ Cardinality(hit) <= Cardinality(Outstanding)
  <2>1. Cardinality(hit) <= Cardinality(seqs) /\ Cardinality(hit) <= Cardinality(Outstanding)
    BY <1>2, FS_Subset
  <2> QED BY <1>2, <2>1
<1>4. next_seq = Cardinality(Outstanding) + acked + timed_out
  BY <1>1 DEF IInv, Conservation
<1>5. /\ acked \in Nat /\ received \in Nat /\ timed_out \in Nat /\ next_seq \in Nat
      /\ next_seq' \in Nat
  BY BoundAssumption DEF IInv, TypeOK
<1>6. fresh \in SUBSET Seqs /\ Cardinality(fresh) \in Nat
  <2>1. CASE MayRefill
    <3>1. flying \in Nat
      BY <1>2, Arithmetic DEF IInv, TypeOK
    <3>2. cwnd' \in Nat
      BY WindowAssumption DEF IInv, TypeOK
    <3> QED BY <2>1, <3>1, <3>2, FreshProperties DEF IInv, TypeOK
  <2>2. CASE ~MayRefill
    BY <2>2, FS_EmptySet
  <2> QED BY <2>1, <2>2
<1> HIDE DEF hit, fresh
<1> QED BY <1>1, <1>2, <1>3, <1>4, <1>5, <1>6 DEF Sampled

LEMMA StepSampled == IInv /\ IInv' /\ Sampled /\ [Next]_vars => Sampled'
<1> SUFFICES ASSUME IInv, IInv', Sampled, [Next]_vars PROVE Sampled'
  OBVIOUS
<1>1. ASSUME NEW s \in Seqs, RecvData(s) \/ RecvNack(s) PROVE Sampled'
  <2>1. PICK copies : OnPacket({s}, copies) \/ OnPacket({}, copies)
    BY <1>1 DEF RecvData, RecvNack
  <2>2. Cardinality({s}) <= 1 /\ Cardinality({}) <= 1
    <3>1. Cardinality({s}) = 1
      BY FS_Singleton, Zenon
    <3> QED BY <3>1, FS_EmptySet
  <2> QED BY <2>1, <2>2, OnPacketSampled
<1>2. ASSUME RecvLateSession PROVE Sampled'
  <2>1. OnPacket({}, net) /\ Cardinality({}) <= 1
    BY <1>2, FS_EmptySet DEF RecvLateSession
  <2> QED BY <2>1, OnPacketSampled
<1>3. ASSUME UNCHANGED <<acked, received>> PROVE Sampled'
  <2>1. PICK gone, fresh, resend : Moved(gone, fresh, resend)
    BY StepMoves
  <2>2. next_seq' = next_seq + Cardinality(fresh) /\ Cardinality(fresh) \in Nat
    BY <2>1, SubsetOfSeqsFinite DEF Moved
  <2>3. acked \in Nat /\ next_seq \in Nat
    BY BoundAssumption DEF IInv, TypeOK
  <2> QED BY <1>3, <2>2, <2>3 DEF Sampled
<1>4. \/ \E s \in Seqs : RecvData(s) \/ RecvNack(s)
      \/ RecvLateSession \/ UNCHANGED <<acked, received>>
  BY DEF Next, Timeouts, vars, counters, Negotiated, Lose, RetransmitTimeout, DeadlineTimeout,
         DrainTimeout, ConnectionClosed, SendFails
<1> QED BY <1>1, <1>2, <1>3, <1>4

\* Whatever the network drops, duplicates and delays, the loss the client
\* prints is no more than the Interests that were never answered.
THEOREM LossNeverOverstatedHolds == Spec => []LossNeverOverstated
<1>1. Init => Sampled
  BY DEF Init, Sampled
<1>2. IInv /\ Sampled => LossNeverOverstated
  <2> SUFFICES ASSUME IInv, Sampled PROVE Lost <= next_seq - acked
    BY DEF LossNeverOverstated
  <2>1. Cardinality(Outstanding) \in Nat
    BY SubsetOfSeqsFinite DEF IInv, TypeOK
  <2>2. acked \in Nat /\ received \in Nat /\ next_seq \in Nat
    BY BoundAssumption DEF IInv, TypeOK
  <2> QED BY <2>1, <2>2 DEF Sampled, Lost, EffectiveSent, InFlightAtEnd, Less, Greater, Outstanding
<1> QED BY <1>1, <1>2, StepSampled, Invariance, PTL DEF Spec

\* After an outage long enough to give up the whole window nothing is sent for the
\* rest of the test: only a packet refills, and none travels (run_client's timeout arm).
THEOREM EmptyWindowIsFinalHolds == Spec => EmptyWindowIsFinal
<1> DEFINE Silent == /\ phase = "testing" /\ Outstanding = {}
                     /\ \A s \in Seqs : net[s] = 0
                     /\ ~sessionLate
<1>1. TypeOK /\ [Next]_vars => (Silent => net' = net /\ next_seq' = next_seq)
  <2> SUFFICES ASSUME TypeOK, [Next]_vars, Silent PROVE net' = net /\ next_seq' = next_seq
    OBVIOUS
  <2>1. CASE RetransmitTimeout
    <3>1. PICK resend \in SUBSET Outstanding : net' = Transmit(net, resend)
      BY <2>1 DEF RetransmitTimeout, Outstanding
    <3>2. resend = {} /\ net \in [Seqs -> Nat]
      BY <3>1 DEF TypeOK
    <3>3. Transmit(net, {}) = net
      BY <3>2 DEF Transmit
    <3> QED BY <2>1, <3>1, <3>2, <3>3 DEF RetransmitTimeout
  <2>2. ASSUME NEW s \in Seqs PROVE ~(RecvData(s) \/ RecvNack(s) \/ Lose(s))
    BY DEF RecvData, RecvNack, Lose
  <2>3. ~Negotiated(FALSE) /\ ~Negotiated(TRUE) /\ ~RecvLateSession
    BY DEF Negotiated, RecvLateSession
  <2>4. CASE DeadlineTimeout \/ DrainTimeout \/ ConnectionClosed \/ SendFails \/ UNCHANGED vars
    BY <2>4 DEF DeadlineTimeout, DrainTimeout, ConnectionClosed, SendFails, vars, counters
  <2> QED BY <2>1, <2>2, <2>3, <2>4 DEF Next, Timeouts
<1> QED BY <1>1, TypeCorrect, PTL DEF Spec, EmptyWindowIsFinal
=============================================================================

---------------------------- MODULE NdnToolsProofs ----------------------------
(***************************************************************************)
(* Proofs about ndn-peek's pipelined fetch from ndn-put (SegTransfer) and  *)
(* about ndn-ping and ndn-traceroute (Probes): the tools of                *)
(* ndn-tools-core that share nothing but the network.                      *)
(*                                                                         *)
(* The fetch: for any object sizes, any number of publishing runs, any     *)
(* foreign Data in the store, any number of losses, any pipeline depth,    *)
(* any word size and any room for vectors.                                 *)
(***************************************************************************)
EXTENDS SegTransfer, Probes, FiniteSetTheorems, TLAPS

(* What the serving run of ndn-put makes.                                  *)
OwnData(d) ==
  /\ d.from = 1 /\ d.last = Counts[1] - 1
  /\ d.seg \in 0 .. Counts[1] - 1
Good(d) ==
  /\ d \in Packets
  /\ Beyond(d) \/ TooMany(d) => d \in setting.others
  /\ OneProducer => OwnData(d)
DataOK == \A d \in datas \cup cached : Good(d)

(* The discovery Interest has one answer.                                  *)
OneAnswer ==
  /\ fetch = "starting" => interests = {} /\ datas = {}
  /\ fetch = "discovering" =>
       /\ interests \subseteq {Discovery}
       /\ datas # {} => interests = {} /\ \E d \in datas : datas = {d}

(* Before the first Data nothing was asked for.                            *)
NothingYet == fetch \in {"starting", "discovering"} => DOMAIN in_flight = {} /\ next_seg = 0

(* The tables of a pipeline over n segments: count are there, of the others *)
(* those below next are asked for, once each, and no more than fit.        *)
Fill(n, segs, flights, next, skip, count) ==
  /\ DOMAIN segs = 0 .. n - 1 /\ DOMAIN flights = 0 .. n - 1
  /\ skip \in 0 .. n - 1 /\ segs[skip] # Absent
  /\ next \in 0 .. n
  /\ \A s \in 0 .. n - 1 :
       /\ flights[s] = IF s < next /\ segs[s] = Absent THEN 1 ELSE 0
       /\ segs[s] # Absent => s = skip \/ s < next
  /\ Flying(flights) <= Pipeline
  /\ count = Cardinality({s \in 0 .. n - 1 : segs[s] # Absent})
Tables ==
  fetch = "fetching" =>
    /\ \E n \in Nat : Fill(n, segments, in_flight, next_seg, first, received)
    /\ \E s \in Indices : in_flight[s] > 0

(* What was not asked for does not travel.                                 *)
AskedOnly ==
  fetch = "fetching" =>
    /\ prefix \in Versions /\ Indices \subseteq SegIndices
    /\ \A i \in interests : i \in SegmentNames /\ i.seg < next_seg
    /\ \A d \in datas : d.seg = first \/ d.seg < next_seg

(* A fetch from one run holds that run's bytes, in that run's number.      *)
OwnBytes ==
  OneProducer =>
    /\ fetch \in {"fetching", "done"} => Indices = 0 .. Counts[1] - 1
    /\ \A s \in Indices : segments[s] \in {Absent, 1}

TransferInv ==
  /\ TypeOK /\ ReceivedIsCount /\ WithinPipeline /\ NoHole /\ NoPanic
  /\ DataOK /\ OneAnswer /\ NothingYet /\ Tables /\ AskedOnly /\ OwnBytes

(***************************************************************************)
(* How many.                                                               *)
(***************************************************************************)
LEMMA LeastOf ==
  ASSUME NEW S, S \subseteq Nat, S # {}
  PROVE  \E n \in S : \A m \in S : n <= m
<1>1. PICK R : /\ \A x, y \in Nat : <<y, x>> \in R <=> y < x
               /\ IsWellFoundedOn(R, Nat)
  <2> DEFINE R == OpToRel(<, Nat)
  <2>1. IsWellFoundedOn(R, Nat)
    BY NatLessThanWellFounded
  <2>2. \A x, y \in Nat : <<y, x>> \in R <=> y < x
    BY DEF OpToRel
  <2> HIDE DEF R
  <2> QED
    BY <2>1, <2>2
<1>2. PICK x \in S : \A y \in S : <<y, x>> \notin R
  BY <1>1, WFMin
<1>3. \A y \in S : ~ (y < x)
  BY <1>1, <1>2
<1> QED
  BY <1>3

(* A set of indices below n: it is finite, has at most n members, and n of *)
(* them only if it has all.                                                *)
LEMMA BelowFinite ==
  ASSUME NEW n \in Nat, NEW S \in SUBSET (0 .. n - 1)
  PROVE  /\ IsFiniteSet(S) /\ Cardinality(S) \in Nat
         /\ Cardinality(0 .. n - 1) = n
         /\ Cardinality(S) <= n
         /\ Cardinality(S) = n => S = 0 .. n - 1
<1>1. IsFiniteSet(0 .. n - 1) /\ Cardinality(0 .. n - 1) = n
  BY FS_Interval
<1> QED
  BY <1>1, FS_Subset, FS_CardinalityType

(* With at most one entry per index the map in_flight has as many entries  *)
(* as indices.                                                             *)
LEMMA FlyingIs ==
  ASSUME NEW n \in Nat, NEW F, DOMAIN F = 0 .. n - 1,
         \A s \in 0 .. n - 1 : F[s] \in {0, 1}
  PROVE  Flying(F) = Cardinality({s \in 0 .. n - 1 : F[s] = 1})
<1> DEFINE O == {s \in 0 .. n - 1 : F[s] = 1}
           U == UNION {{s} \X (1 .. F[s]) : s \in DOMAIN F}
           f == [s \in O |-> <<s, 1>>]
<1>1. IsFiniteSet(O)
  BY BelowFinite
<1>2. ASSUME NEW s \in 0 .. n - 1
      PROVE  1 .. F[s] = IF s \in O THEN {1} ELSE {}
  <2>1. 1 .. 1 = {1} /\ 1 .. 0 = {}
    OBVIOUS
  <2>2. CASE F[s] = 1
    BY <2>1, <2>2
  <2>3. CASE F[s] = 0
    BY <2>1, <2>3
  <2> QED
    BY <2>2, <2>3
<1>3. U = {<<s, 1>> : s \in O}
  <2>1. ASSUME NEW x \in U PROVE x \in {<<s, 1>> : s \in O}
    <3>1. PICK s \in 0 .. n - 1 : x \in {s} \X (1 .. F[s])
      OBVIOUS
    <3>2. s \in O /\ x = <<s, 1>>
      BY <1>2, <3>1
    <3> QED
      BY <3>2
  <2>2. ASSUME NEW s \in O PROVE <<s, 1>> \in U
    <3>1. <<s, 1>> \in {s} \X (1 .. F[s])
      BY <1>2
    <3> QED
      BY <3>1
  <2> HIDE DEF U
  <2> QED
    BY <2>1, <2>2
<1>4. f \in Bijection(O, U)
  <2> HIDE DEF O, U
  <2>1. f \in Injection(O, U)
    BY <1>3 DEF Injection, IsInjective
  <2>2. f \in Surjection(O, U)
    BY <1>3 DEF Surjection
  <2> QED
    BY <2>1, <2>2 DEF Bijection
<1>5. Cardinality(U) = Cardinality(O)
  <2> HIDE DEF O, U, f
  <2> QED
    BY <1>1, <1>4, FS_Bijection DEF ExistsBijection
<1> QED
  BY <1>5 DEF Flying

(* How far the pipeline is filled up: to the end or until it is full, and  *)
(* never beyond its depth.                                                 *)
LEMMA BatchIs ==
  ASSUME NEW next \in Nat, NEW total \in Nat, next <= total, NEW skip \in Int,
         NEW used \in Nat
  PROVE  LET n == Batch(next, total, skip, used)
             asked == (next .. n - 1) \ {skip}
         IN  /\ n \in next .. total
             /\ n = total \/ used + Cardinality(asked) >= Pipeline
             /\ used <= Pipeline => used + Cardinality(asked) <= Pipeline
<1> DEFINE Asked(n) == (next .. n - 1) \ {skip}
           Full(n) == n = total \/ used + Cardinality(Asked(n)) >= Pipeline
           Stops(n) == /\ Full(n)
                       /\ \A m \in next .. n - 1 : used + Cardinality(Asked(m)) < Pipeline
           B == Batch(next, total, skip, used)
           S == {n \in next .. total : Full(n)}
<1>0. Pipeline \in Nat /\ Pipeline > 0
  BY PipelineAssumption DEF PipelineAssumption
<1>1. ASSUME NEW n \in Nat
      PROVE  IsFiniteSet(Asked(n)) /\ Cardinality(Asked(n)) \in Nat
  <2>1. Asked(n) \in SUBSET (0 .. n - 1)
    OBVIOUS
  <2> HIDE DEF Asked
  <2> QED
    BY <2>1, BelowFinite
<1>2. \E n \in next .. total : Stops(n)
  <2>1. S \subseteq Nat /\ total \in S
    OBVIOUS
  <2>2. PICK k \in S : \A m \in S : k <= m
    <3> HIDE DEF S
    <3> QED
      BY <2>1, LeastOf
  <2>3. k \in next .. total /\ Full(k)
    OBVIOUS
  <2>4. ASSUME NEW m \in next .. k - 1
        PROVE  used + Cardinality(Asked(m)) < Pipeline
    <3>1. m \in next .. total /\ m \notin S /\ m \in Nat
      BY <2>2, <2>3
    <3>2. ~ (used + Cardinality(Asked(m)) >= Pipeline)
      BY <3>1
    <3> HIDE DEF Asked
    <3> QED
      BY <1>0, <1>1, <3>1, <3>2
  <2> HIDE DEF Full, Asked, S
  <2> QED
    BY <2>3, <2>4
<1>3. B = CHOOSE n \in next .. total : Stops(n)
  BY DEF Batch
<1>4. B \in next .. total /\ Stops(B)
  <2> HIDE DEF Stops, B
  <2> QED
    BY <1>2, <1>3
<1>5. ASSUME used <= Pipeline
      PROVE  used + Cardinality(Asked(B)) <= Pipeline
  <2> HIDE DEF B
  <2>1. CASE B = next
    <3>1. Asked(B) = {}
      BY <2>1
    <3> QED
      BY <1>5, <3>1, FS_EmptySet
  <2>2. CASE B # next
    <3>1. B - 1 \in next .. B - 1 /\ B - 1 \in Nat
      BY <1>4, <2>2
    <3>2. used + Cardinality(Asked(B - 1)) < Pipeline
      BY <1>4, <3>1
    <3>3. Asked(B) \in SUBSET (Asked(B - 1) \cup {B - 1})
      BY <1>4, <3>1
    <3> HIDE DEF Asked, Stops
    <3>a. IsFiniteSet(Asked(B - 1)) /\ Cardinality(Asked(B - 1)) \in Nat
      BY <1>1, <3>1
    <3>b. /\ IsFiniteSet(Asked(B - 1) \cup {B - 1})
          /\ \/ Cardinality(Asked(B - 1) \cup {B - 1}) = Cardinality(Asked(B - 1))
             \/ Cardinality(Asked(B - 1) \cup {B - 1}) = Cardinality(Asked(B - 1)) + 1
      BY <3>a, FS_AddElement
    <3>4. /\ IsFiniteSet(Asked(B - 1) \cup {B - 1})
          /\ Cardinality(Asked(B - 1) \cup {B - 1}) <= Cardinality(Asked(B - 1)) + 1
          /\ Cardinality(Asked(B - 1) \cup {B - 1}) \in Nat
      BY <3>a, <3>b
    <3>5. Cardinality(Asked(B)) <= Cardinality(Asked(B - 1) \cup {B - 1})
      BY <3>3, <3>4, FS_Subset
    <3>6. Cardinality(Asked(B)) \in Nat /\ Cardinality(Asked(B - 1)) \in Nat
      BY <1>1, <1>4, <3>1
    <3> QED
      BY <1>0, <3>2, <3>4, <3>5, <3>6
  <2> QED
    BY <2>1, <2>2
<1> HIDE DEF B
<1> QED
  BY <1>4, <1>5 DEF B

(* Filling the pipeline up keeps its tables in order.                      *)
LEMMA RefillIs ==
  ASSUME NEW n \in Nat, NEW ver, NEW segs, NEW flights, NEW next, NEW skip, NEW count,
         Fill(n, segs, flights, next, skip, count),
         Refill(ver, segs, flights, next, skip, count)
  PROVE  /\ segments' = segs /\ received' = count
         /\ next_seg' \in next .. n
         /\ in_flight' \in [0 .. n - 1 -> Nat]
         /\ Fill(n, segs, in_flight', next_seg', skip, count)
         /\ interests' = interests \cup
                {[ver |-> ver, seg |-> s] : s \in (next .. next_seg' - 1) \ {skip}}
         /\ fetch' \in {"done", "fetching"}
         /\ fetch' = "done" => \A s \in 0 .. n - 1 : segs[s] # Absent
         /\ fetch' = "fetching" => \E s \in 0 .. n - 1 : in_flight'[s] > 0
<1> DEFINE upto == Batch(next, n, skip, Flying(flights))
           asked == (next .. upto - 1) \ {skip}
           O == {s \in 0 .. n - 1 : flights[s] = 1}
           Q == {s \in 0 .. n - 1 : in_flight'[s] = 1}
           There == {s \in 0 .. n - 1 : segs[s] # Absent}
<1>0. Pipeline \in Nat /\ Pipeline > 0
  BY PipelineAssumption DEF PipelineAssumption
<1>1. Cardinality(DOMAIN segs) = n
  BY BelowFinite DEF Fill
<1>2. /\ next_seg' = upto
      /\ in_flight' = [s \in DOMAIN flights |->
                          IF s \in asked THEN flights[s] + 1 ELSE flights[s]]
      /\ interests' = interests \cup {[ver |-> ver, seg |-> s] : s \in asked}
      /\ segments' = segs /\ received' = count
      /\ fetch' = IF count = n THEN "done" ELSE "fetching"
  BY <1>1 DEF Refill
<1>3. IsFiniteSet(O) /\ Cardinality(O) \in Nat
  BY BelowFinite
<1>4. Flying(flights) = Cardinality(O)
  <2>1. DOMAIN flights = 0 .. n - 1 /\ \A s \in 0 .. n - 1 : flights[s] \in {0, 1}
    BY DEF Fill
  <2> QED
    BY <2>1, FlyingIs
<1>5. /\ upto \in next .. n
      /\ upto = n \/ Flying(flights) + Cardinality(asked) >= Pipeline
      /\ Flying(flights) <= Pipeline => Flying(flights) + Cardinality(asked) <= Pipeline
  <2>1. next \in Nat /\ next <= n /\ skip \in Int /\ Flying(flights) \in Nat
    BY <1>3, <1>4 DEF Fill
  <2> QED
    BY <2>1, BatchIs
<1> HIDE DEF upto
<1>6. /\ next \in 0 .. n /\ upto \in next .. n /\ asked \in SUBSET (0 .. n - 1)
      /\ \A s \in asked : segs[s] = Absent /\ flights[s] = 0 /\ s < upto /\ ~ (s < next)
  <2>1. next \in 0 .. n /\ skip \in 0 .. n - 1
    BY DEF Fill
  <2>2. \A s \in asked : s \in 0 .. n - 1 /\ s < upto /\ ~ (s < next) /\ s # skip
    BY <1>5, <2>1
  <2> HIDE DEF asked
  <2> QED
    BY <1>5, <2>1, <2>2 DEF Fill
<1>7. \A s \in 0 .. n - 1 :
        /\ in_flight'[s] = IF s < upto /\ segs[s] = Absent THEN 1 ELSE 0
        /\ segs[s] # Absent => s = skip \/ s < upto
        /\ s \in asked \/ s < next \/ s = skip \/ ~ (s < upto)
  <2> TAKE s \in 0 .. n - 1
  <2>1. s \in asked \/ s < next \/ s = skip \/ ~ (s < upto)
    BY <1>5, <1>6
  <2>2. in_flight'[s] = IF s \in asked THEN flights[s] + 1 ELSE flights[s]
    BY <1>2 DEF Fill
  <2>3. /\ flights[s] = IF s < next /\ segs[s] = Absent THEN 1 ELSE 0
        /\ segs[s] # Absent => s = skip \/ s < next
        /\ segs[skip] # Absent
    BY DEF Fill
  <2>4. s < next => s < upto
    BY <1>5, <1>6
  <2> HIDE DEF asked
  <2> QED
    BY <1>6, <2>1, <2>2, <2>3, <2>4
<1>8. Q = O \cup asked
  <2> HIDE DEF asked
  <2>1. \A s \in 0 .. n - 1 :
          /\ in_flight'[s] = IF s \in asked THEN flights[s] + 1 ELSE flights[s]
          /\ flights[s] \in {0, 1}
    BY <1>2 DEF Fill
  <2>2. ASSUME NEW s \in 0 .. n - 1
        PROVE  in_flight'[s] = 1 <=> flights[s] = 1 \/ s \in asked
    <3>1. CASE s \in asked
      BY <1>6, <2>1, <3>1
    <3>2. CASE s \notin asked
      BY <2>1, <3>2
    <3> QED
      BY <3>1, <3>2
  <2> QED
    BY <1>6, <2>2
<1>9. O \cap asked = {}
  <2> HIDE DEF asked
  <2> QED
    BY <1>6
<1>10. IsFiniteSet(asked) /\ Cardinality(asked) \in Nat
  <2> HIDE DEF asked
  <2> QED
    BY <1>6, BelowFinite
<1>11. Cardinality(Q) = Cardinality(O) + Cardinality(asked)
  <2> HIDE DEF asked, O, Q
  <2>1. Cardinality(O \cup asked)
          = Cardinality(O) + Cardinality(asked) - Cardinality(O \cap asked)
    BY <1>3, <1>10, FS_Union
  <2>2. Cardinality(O \cap asked) = 0
    BY <1>9, FS_EmptySet
  <2> QED
    BY <1>3, <1>8, <1>10, <2>1, <2>2
<1>12. Flying(in_flight') = Cardinality(Q)
  <2>1. DOMAIN in_flight' = 0 .. n - 1 /\ \A s \in 0 .. n - 1 : in_flight'[s] \in {0, 1}
    BY <1>2, <1>7 DEF Fill
  <2> QED
    BY <2>1, FlyingIs
<1>13. Flying(in_flight') <= Pipeline
  BY <1>4, <1>5, <1>11, <1>12 DEF Fill
<1>14. Fill(n, segs, in_flight', next_seg', skip, count)
  <2>1. next_seg' \in 0 .. n /\ DOMAIN in_flight' = 0 .. n - 1
    BY <1>2, <1>5, <1>6 DEF Fill
  <2> HIDE DEF asked
  <2> QED
    BY <1>2, <1>7, <1>13, <2>1 DEF Fill
<1>15. count = Cardinality(There) /\ IsFiniteSet(There) /\ (Cardinality(There) = n => There = 0 .. n - 1)
  <2>1. There \in SUBSET (0 .. n - 1)
    OBVIOUS
  <2> QED
    BY <2>1, BelowFinite DEF Fill
<1>16. ASSUME fetch' = "done" PROVE \A s \in 0 .. n - 1 : segs[s] # Absent
  BY <1>2, <1>15, <1>16
<1>17. ASSUME fetch' = "fetching" PROVE \E s \in 0 .. n - 1 : in_flight'[s] > 0
  <2>1. PICK s \in 0 .. n - 1 : segs[s] = Absent
    <3>1. count # n
      BY <1>2, <1>17
    <3>2. There # 0 .. n - 1
      BY <1>15, <3>1, BelowFinite
    <3> QED
      BY <3>2
  <2>2. CASE s < upto
    BY <1>7, <2>1, <2>2
  <2>3. CASE ~ (s < upto)
    <3>1. upto # n
      BY <1>5, <1>6, <2>3
    <3>2. Cardinality(Q) >= Pipeline
      BY <1>4, <1>5, <1>11, <3>1
    <3>3. Q # {}
      <4> HIDE DEF Q
      <4> QED
        BY <1>0, <3>2, FS_EmptySet
    <3> QED
      BY <3>3
  <2> QED
    BY <2>2, <2>3
<1>18. in_flight' \in [0 .. n - 1 -> Nat]
  <2>1. DOMAIN flights = 0 .. n - 1 /\ \A s \in 0 .. n - 1 : flights[s] \in Nat
    BY DEF Fill
  <2> HIDE DEF asked
  <2> QED
    BY <1>2, <2>1
<1> QED
  BY <1>2, <1>5, <1>14, <1>16, <1>17, <1>18

(* A missing segment arrives: its slot is free again.                      *)
LEMMA AcceptFill ==
  ASSUME NEW n \in Nat, NEW segs, NEW flights, NEW next, NEW skip, NEW count, NEW x, NEW v,
         Fill(n, segs, flights, next, skip, count),
         x \in 0 .. n - 1, segs[x] = Absent, x < next, v # Absent
  PROVE  Fill(n, [segs EXCEPT ![x] = v], [flights EXCEPT ![x] = 0], next, skip, count + 1)
<1> DEFINE segs1 == [segs EXCEPT ![x] = v]
           flights1 == [flights EXCEPT ![x] = 0]
           O == {s \in 0 .. n - 1 : flights[s] = 1}
           O1 == {s \in 0 .. n - 1 : flights1[s] = 1}
           There == {s \in 0 .. n - 1 : segs[s] # Absent}
           There1 == {s \in 0 .. n - 1 : segs1[s] # Absent}
<1>1. /\ DOMAIN segs1 = 0 .. n - 1 /\ DOMAIN flights1 = 0 .. n - 1
      /\ \A s \in 0 .. n - 1 : /\ segs1[s] = IF s = x THEN v ELSE segs[s]
                               /\ flights1[s] = IF s = x THEN 0 ELSE flights[s]
  BY DEF Fill
<1> HIDE DEF segs1, flights1
<1>2. \A s \in 0 .. n - 1 :
        /\ flights1[s] = IF s < next /\ segs1[s] = Absent THEN 1 ELSE 0
        /\ segs1[s] # Absent => s = skip \/ s < next
  BY <1>1 DEF Fill
<1>3. skip \in 0 .. n - 1 /\ segs1[skip] # Absent /\ next \in 0 .. n
  BY <1>1 DEF Fill
<1>4. Flying(flights1) <= Pipeline
  <2>1. Flying(flights) = Cardinality(O) /\ Flying(flights) <= Pipeline
    <3>1. DOMAIN flights = 0 .. n - 1 /\ \A s \in 0 .. n - 1 : flights[s] \in {0, 1}
      BY DEF Fill
    <3> QED
      BY <3>1, FlyingIs DEF Fill
  <2>2. Flying(flights1) = Cardinality(O1)
    <3>1. \A s \in 0 .. n - 1 : flights1[s] \in {0, 1}
      BY <1>2
    <3> QED
      BY <1>1, <3>1, FlyingIs
  <2>3. O1 \in SUBSET O
    BY <1>1
  <2>4. IsFiniteSet(O) /\ Cardinality(O) \in Nat
    BY BelowFinite
  <2>5. Cardinality(O1) <= Cardinality(O) /\ Cardinality(O1) \in Nat
    <3> HIDE DEF O, O1
    <3> QED
      BY <2>3, <2>4, FS_Subset, FS_CardinalityType
  <2> QED
    BY <2>1, <2>2, <2>4, <2>5, PipelineAssumption DEF PipelineAssumption
<1>5. count + 1 = Cardinality(There1)
  <2>1. There1 = There \cup {x} /\ x \notin There
    BY <1>1
  <2>2. count = Cardinality(There)
    BY DEF Fill
  <2>3. IsFiniteSet(There)
    BY BelowFinite
  <2> HIDE DEF There, There1
  <2> QED
    BY <2>1, <2>2, <2>3, FS_AddElement
<1> QED
  BY <1>1, <1>2, <1>3, <1>4, <1>5 DEF Fill, segs1, flights1

(***************************************************************************)
(* What is published.                                                      *)
(***************************************************************************)
LEMMA SettingIs ==
  ASSUME setting \in Settings
  PROVE  /\ Versions \subseteq Nat \ {0} /\ 1 \in Versions
         /\ \A v \in Versions : /\ Counts[v] \in Nat /\ Counts[v] <= Room
                                /\ 0 .. Counts[v] - 1 \subseteq SegIndices
         /\ Room \in Nat /\ Word \in Nat /\ Room < Word
         /\ SegIndices \subseteq Numbers /\ Numbers \subseteq Nat
         /\ \A s \in SegIndices : 0 .. s \subseteq SegIndices
         /\ setting.others \subseteq Packets /\ setting.losses \in Nat
<1>1. /\ Counts \in Seq(0 .. Room) /\ Counts # <<>>
      /\ setting.others \subseteq Packets /\ setting.losses \in Nat
      /\ Room \in Nat /\ Word \in Nat /\ Room < Word
  BY NetAssumption DEF NetAssumption, Counts, Packets
<1>2. /\ Versions = 1 .. Len(Counts) /\ Len(Counts) \in Nat /\ Len(Counts) # 0
      /\ \A v \in Versions : Counts[v] \in 0 .. Room
  BY <1>1 DEF Versions
<1>3. \A v \in Versions : Counts[v] \in Nat /\ Counts[v] <= Room /\ 0 .. Counts[v] - 1 \subseteq SegIndices
  BY <1>1, <1>2 DEF SegIndices
<1>4. /\ SegIndices \subseteq Numbers /\ Numbers \subseteq Nat
      /\ \A s \in SegIndices : 0 .. s \subseteq SegIndices
  BY <1>1 DEF SegIndices, Numbers
<1> QED
  BY <1>1, <1>2, <1>3, <1>4

LEMMA PacketIs ==
  ASSUME setting \in Settings, NEW d \in Packets
  PROVE  /\ d.ver \in Versions /\ d.from \in Versions
         /\ d.ver \in Nat \ {0} /\ d.from \in Nat \ {0} /\ d.from # Absent
         /\ d.seg \in {Absent} \cup Numbers /\ d.last \in {Absent} \cup Numbers
         /\ d.seg \in Int /\ d.last \in Int
         /\ d.seg # Absent => d.seg \in Nat
         /\ d.last # Absent => d.last \in Nat
<1>1. /\ d.ver \in Versions /\ d.from \in Versions
      /\ d.seg \in {Absent} \cup Numbers /\ d.last \in {Absent} \cup Numbers
  BY DEF Packets, PacketsOf, Versions
<1> QED
  BY <1>1, SettingIs DEF Absent

LEMMA InitTransfer == Init => TransferInv
<1> SUFFICES ASSUME Init PROVE TransferInv
  OBVIOUS
<1> USE DEF Init, NetInit, FetchInit, ProdInit
<1>1. setting \in Settings
  OBVIOUS
<1>2. FetchTypeOK
  <2>1. segments \in [DOMAIN segments -> {Absent} \cup Versions]
    OBVIOUS
  <2>2. in_flight \in [DOMAIN in_flight -> Nat]
    OBVIOUS
  <2> QED
    BY <2>1, <2>2 DEF FetchTypeOK, Indices
<1>3. TypeOK
  <2>1. 1 \in Versions /\ setting.others \subseteq Packets /\ setting.losses \in Nat
    BY <1>1, SettingIs
  <2>2. ProdTypeOK
    BY <2>1 DEF ProdTypeOK
  <2>3. /\ interests = {} /\ datas = {} /\ cached \subseteq Packets
        /\ losses \in 0 .. setting.losses
    BY <2>1
  <2> QED
    BY <1>1, <1>2, <2>2, <2>3 DEF TypeOK
<1>4. Flying(in_flight) = 0
  <2>1. DOMAIN in_flight = {}
    OBVIOUS
  <2>2. UNION {{s} \X (1 .. in_flight[s]) : s \in DOMAIN in_flight} = {}
    BY <2>1
  <2> QED
    BY <2>2, FS_EmptySet DEF Flying
<1>5. WithinPipeline
  BY <1>4, PipelineAssumption DEF WithinPipeline, PipelineAssumption
<1>6. DataOK
  BY <1>1, SettingIs DEF DataOK, Good, OneProducer
<1>7. OwnBytes
  BY DEF OwnBytes, Indices
<1> QED
  BY <1>3, <1>5, <1>6, <1>7
     DEF TransferInv, ReceivedIsCount, NoHole, NoPanic, OneAnswer, NothingYet, Tables, AskedOnly

(***************************************************************************)
(* The producer and the network.                                           *)
(***************************************************************************)
(* A step that leaves the fetch alone, and adds neither an Interest nor a  *)
(* packet that nobody asked for.                                           *)
LEMMA NetPreserves ==
  ASSUME TransferInv, UNCHANGED fetchVars, UNCHANGED setting,
         losses' \in 0 .. setting.losses, ProdTypeOK', OneProducer' => OneProducer,
         interests' \subseteq interests, \A d \in datas' \cup cached' : Good(d),
         OneAnswer',
         fetch = "fetching" => \A d \in datas' : d.seg = first \/ d.seg < next_seg
  PROVE  TransferInv'
<1> USE DEF fetchVars
<1>1. FetchTypeOK' /\ Counts' = Counts /\ Packets' = Packets /\ SegmentNames' = SegmentNames
  BY DEF TransferInv, TypeOK, FetchTypeOK, Indices, Versions, Counts, SegIndices, Packets,
         SegmentNames
<1>2. TypeOK'
  BY <1>1 DEF TransferInv, TypeOK, Good
<1>3. ReceivedIsCount' /\ WithinPipeline' /\ NoHole' /\ NoPanic'
  BY DEF TransferInv, ReceivedIsCount, WithinPipeline, NoHole, NoPanic, Indices
<1>4. DataOK'
  <2>1. ASSUME NEW d, Good(d) PROVE Good(d)'
    BY <1>1, <2>1 DEF Good, OwnData
  <2> QED
    BY <2>1 DEF DataOK
<1>5. Tables' /\ NothingYet'
  BY DEF TransferInv, Tables, NothingYet, Indices
<1>6. AskedOnly'
  <2>1. SegIndices' = SegIndices /\ Versions' = Versions /\ Indices' = Indices
    BY DEF SegIndices, Versions, Counts, Indices
  <2> QED
    BY <1>1, <2>1 DEF TransferInv, AskedOnly
<1>7. OwnBytes'
  BY <1>1 DEF TransferInv, OwnBytes, Indices
<1> QED
  BY <1>2, <1>3, <1>4, <1>5, <1>6, <1>7 DEF TransferInv

LEMMA ProducerRests ==
  ASSUME TransferInv, UNCHANGED <<setting, version>>
  PROVE  Versions' = Versions /\ OneProducer' = OneProducer
BY DEF Versions, Counts, OneProducer

(* Steps of the producer that send nothing.                                *)
LEMMA ProducerPreserves ==
  ASSUME TransferInv, UNCHANGED fetchVars,
         StopAsked \/ TopOfLoop \/ Disconnected \/ NextVersion
  PROVE  TransferInv'
<1>1. UNCHANGED netVars
  BY DEF StopAsked, TopOfLoop, Disconnected, NextVersion
<1>2. ProdTypeOK /\ Versions' = Versions
  BY <1>1 DEF TransferInv, TypeOK, netVars, netLimits, Versions, Counts
<1>3. ProdTypeOK' /\ (version' = version \/ version' = version + 1)
  BY <1>2 DEF ProdTypeOK, StopAsked, TopOfLoop, Disconnected, NextVersion
<1>4. version \in Nat \ {0}
  BY <1>2, SettingIs DEF TransferInv, TypeOK, ProdTypeOK
<1>5. OneProducer' => OneProducer
  BY <1>1, <1>3, <1>4 DEF OneProducer, netVars, netLimits
<1>6. OneAnswer'
  BY <1>1 DEF TransferInv, OneAnswer, netVars, fetchVars
<1> QED
  BY <1>1, <1>3, <1>5, <1>6, NetPreserves
     DEF TransferInv, TypeOK, DataOK, AskedOnly, netVars, netLimits

(* What the producer answers is its own, in range, and what was asked for. *)
LEMMA AnswerIs ==
  ASSUME TransferInv, NEW i \in {Discovery} \cup SegmentNames
  PROVE  /\ \A d \in Answer(i) : /\ Good(d) /\ (i # Discovery => d.seg = i.seg)
                                 /\ Answer(i) = {d}
<1> SUFFICES ASSUME NEW d \in Answer(i)
             PROVE  /\ Good(d) /\ (i # Discovery => d.seg = i.seg)
                    /\ Answer(i) = {d}
  OBVIOUS
<1> DEFINE seg == IF i.seg = Absent THEN 0 ELSE i.seg
<1>1. /\ InRange(seg)
      /\ d = [ver |-> IF i.seg = Absent THEN version ELSE i.ver, seg |-> seg,
              from |-> version, last |-> LastSeg(seg)]
      /\ Answer(i) = {d}
  BY DEF Answer
<1>2. /\ version \in Versions /\ Counts[version] \in Nat
      /\ 0 .. Counts[version] - 1 \subseteq SegIndices /\ SegIndices \subseteq Numbers
      /\ Numbers \subseteq Nat
  BY SettingIs DEF TransferInv, TypeOK, ProdTypeOK
<1>3. seg \in 0 .. Counts[version] - 1
  BY <1>1 DEF InRange
<1>4. LastSeg(seg) = Counts[version] - 1 /\ LastSeg(seg) \in 0 .. Counts[version] - 1
  BY <1>2, <1>3 DEF LastSeg
<1>5. i # Discovery => i \in SegmentNames /\ i.seg \in SegIndices /\ i.ver \in Versions
  BY DEF SegmentNames
<1>6. i.seg # Absent => i # Discovery
  BY DEF Discovery
<1>7. i # Discovery => seg = i.seg
  BY <1>2, <1>5 DEF Absent
<1> HIDE DEF seg
<1>8. d \in Packets
  <2>1. (IF i.seg = Absent THEN version ELSE i.ver) \in Versions
    BY <1>2, <1>5, <1>6
  <2> QED
    BY <1>1, <1>2, <1>3, <1>4, <2>1 DEF Packets, PacketsOf, Versions, SegIndices
<1>9. ~ Beyond(d) /\ ~ TooMany(d)
  <2>1. d.last = Counts[version] - 1 /\ d.seg = seg /\ Counts[version] <= Room /\ Room \in Nat
    BY <1>1, <1>2, <1>4, SettingIs DEF TransferInv, TypeOK
  <2> QED
    BY <1>2, <1>3, <2>1 DEF Beyond, TooMany
<1>10. OneProducer => OwnData(d)
  BY <1>1, <1>3, <1>4 DEF OneProducer, OwnData
<1> QED
  BY <1>1, <1>7, <1>8, <1>9, <1>10 DEF Good

(* The producer or the content store answers an Interest.                  *)
LEMMA AnswersPreserve ==
  ASSUME TransferInv, UNCHANGED fetchVars, UNCHANGED netLimits,
         ProdTypeOK', OneProducer' => OneProducer,
         NEW i \in interests, NEW D,
         interests' = interests \ {i}, datas' = datas \cup D,
         \A d \in cached' : Good(d),
         \A d \in D : Good(d) /\ D = {d} /\ (i # Discovery => d.seg = i.seg)
  PROVE  TransferInv'
<1>1. OneAnswer'
  <2>1. CASE fetch = "starting"
    BY <2>1 DEF TransferInv, OneAnswer
  <2>2. CASE fetch = "discovering"
    <3>1. interests = {Discovery} /\ i = Discovery /\ datas = {}
      BY <2>2 DEF TransferInv, OneAnswer
    <3>2. interests' = {} /\ datas' = D
      BY <3>1
    <3> QED
      BY <2>2, <3>2 DEF OneAnswer, fetchVars
  <2>3. CASE fetch \notin {"starting", "discovering"}
    BY <2>3 DEF OneAnswer, fetchVars
  <2> QED
    BY <2>1, <2>2, <2>3
<1>2. fetch = "fetching" => \A d \in datas' : d.seg = first \/ d.seg < next_seg
  <2>1. ASSUME fetch = "fetching", NEW d \in D PROVE d.seg < next_seg
    <3>1. i \in SegmentNames /\ i.seg < next_seg
      BY <2>1 DEF TransferInv, AskedOnly
    <3>2. i # Discovery
      <4>1. i.ver \in Versions /\ 0 \notin Versions
        BY <3>1, SettingIs DEF TransferInv, TypeOK, SegmentNames
      <4> QED
        BY <4>1 DEF Discovery
    <3> QED
      BY <3>1, <3>2
  <2> QED
    BY <2>1 DEF TransferInv, AskedOnly
<1>3. \A d \in datas' \cup cached' : Good(d)
  BY DEF TransferInv, DataOK
<1>4. losses' \in 0 .. setting.losses /\ UNCHANGED setting
  BY DEF TransferInv, TypeOK, netLimits
<1> QED
  BY <1>1, <1>2, <1>3, <1>4, NetPreserves

LEMMA ServePreserves ==
  ASSUME TransferInv, UNCHANGED fetchVars, NEW i \in interests, Serve(i)
  PROVE  TransferInv'
<1>1. UNCHANGED <<setting, losses, version, stop>> /\ prod' = "top"
  BY DEF Serve, netLimits
<1>2. i \in {Discovery} \cup SegmentNames
  BY DEF TransferInv, TypeOK
<1>3. ProdTypeOK'
  BY <1>1, ProducerRests DEF TransferInv, TypeOK, ProdTypeOK
<1>4. \A d \in cached' : Good(d)
  BY <1>2, AnswerIs DEF Serve, TransferInv, DataOK
<1>5. UNCHANGED netLimits /\ interests' = interests \ {i} /\ datas' = datas \cup Answer(i)
  BY DEF Serve
<1> QED
  BY <1>1, <1>2, <1>3, <1>4, <1>5, AnswerIs, ProducerRests, AnswersPreserve

LEMMA CachePreserves ==
  ASSUME TransferInv, UNCHANGED <<fetchVars, prodVars>>, NEW i \in interests, CacheAnswers(i)
  PROVE  TransferInv'
<1>1. PICK d \in cached : Matches(d, i) /\ datas' = datas \cup {d}
  BY DEF CacheAnswers
<1> DEFINE D == {d}
<1>2. UNCHANGED <<cached, netLimits>> /\ interests' = interests \ {i} /\ datas' = datas \cup D
  BY <1>1 DEF CacheAnswers
<1>3. ProdTypeOK' /\ (OneProducer' => OneProducer)
  BY <1>2, ProducerRests DEF TransferInv, TypeOK, ProdTypeOK, prodVars, netLimits
<1>4. \A e \in D : Good(e) /\ D = {e} /\ (i # Discovery => e.seg = i.seg)
  BY <1>1 DEF TransferInv, DataOK, Matches
<1>5. \A e \in cached' : Good(e)
  BY <1>2 DEF TransferInv, DataOK
<1>6. UNCHANGED fetchVars /\ UNCHANGED netLimits
  BY <1>2
<1> HIDE DEF D
<1> QED
  BY <1>2, <1>3, <1>4, <1>5, <1>6, AnswersPreserve

LEMMA OtherPreserves ==
  ASSUME TransferInv, UNCHANGED fetchVars, NEW i \in SegmentNames, ServeOther(i)
  PROVE  TransferInv'
<1>1. /\ UNCHANGED <<setting, losses, version, stop, interests, datas>>
      /\ prod' = "top" /\ cached' = cached \cup Answer(i)
  BY DEF ServeOther, netLimits
<1>2. ProdTypeOK' /\ (OneProducer' => OneProducer)
  BY <1>1, ProducerRests DEF TransferInv, TypeOK, ProdTypeOK
<1>3. \A d \in datas' \cup cached' : Good(d)
  BY <1>1, AnswerIs DEF TransferInv, DataOK
<1>4. OneAnswer'
  BY <1>1 DEF TransferInv, OneAnswer, fetchVars
<1> QED
  BY <1>1, <1>2, <1>3, <1>4, NetPreserves DEF TransferInv, TypeOK, AskedOnly

LEMMA LossPreserves ==
  ASSUME TransferInv, UNCHANGED <<fetchVars, prodVars>>, LosesPacket
  PROVE  TransferInv'
<1>1. UNCHANGED <<cached, setting>> /\ losses > 0 /\ losses' = losses - 1
  BY DEF LosesPacket
<1>2. interests' \subseteq interests /\ datas' \subseteq datas
  BY DEF LosesPacket
<1>3. losses' \in 0 .. setting.losses
  BY <1>1, SettingIs DEF TransferInv, TypeOK
<1>4. ProdTypeOK' /\ (OneProducer' => OneProducer)
  BY <1>1, ProducerRests DEF TransferInv, TypeOK, ProdTypeOK, prodVars
<1>5. OneAnswer'
  BY <1>2 DEF TransferInv, OneAnswer, fetchVars
<1>6. \A d \in datas' \cup cached' : Good(d)
  BY <1>1, <1>2 DEF TransferInv, DataOK
<1> QED
  BY <1>1, <1>2, <1>3, <1>4, <1>5, <1>6, NetPreserves DEF TransferInv, AskedOnly

(***************************************************************************)
(* The fetch.                                                              *)
(***************************************************************************)
(* A step of the fetch takes packets out of the network only.              *)
LEMMA FetchLeaves ==
  ASSUME TransferInv, UNCHANGED <<prodVars, cached, netLimits>>, datas' \subseteq datas,
         interests' \subseteq {Discovery} \cup SegmentNames, FetchTypeOK'
  PROVE  /\ TypeOK' /\ DataOK' /\ OneProducer' = OneProducer
         /\ Versions' = Versions /\ SegIndices' = SegIndices
         /\ SegmentNames' = SegmentNames /\ Counts' = Counts
<1>1. /\ Versions' = Versions /\ SegIndices' = SegIndices /\ Counts' = Counts
      /\ Packets' = Packets /\ SegmentNames' = SegmentNames
      /\ OneProducer' = OneProducer
  BY DEF Versions, SegIndices, Packets, SegmentNames, Counts, OneProducer, prodVars, netLimits
<1>2. TypeOK'
  BY <1>1 DEF TransferInv, TypeOK, ProdTypeOK, prodVars, netLimits
<1>3. DataOK'
  <2>1. ASSUME NEW d, Good(d) PROVE Good(d)'
    BY <1>1, <2>1 DEF Good, OwnData, netLimits
  <2> QED
    BY <2>1 DEF TransferInv, DataOK
<1> QED
  BY <1>1, <1>2, <1>3

(* Steps that leave the tables alone.                                      *)
LEMMA StillPreserves ==
  ASSUME TransferInv, UNCHANGED prodVars,
         Discover \/ AskAgain \/ DiscoveryTimesOut \/ ConnectionFails
  PROVE  TransferInv'
<1>1. UNCHANGED <<prefix, segments, first, in_flight, next_seg, received,
                  datas, cached, netLimits, prodVars>>
  BY DEF Discover, AskAgain, DiscoveryTimesOut, ConnectionFails, netVars, fetchVars
<1>2. /\ fetch' \in {"discovering", "fetching", "failed"}
      /\ fetch' = "fetching" => fetch = "fetching" /\ AskAgain
      /\ fetch' = "discovering" => fetch = "starting" /\ interests' = interests \cup {Discovery}
      /\ AskAgain \/ (interests' = interests) \/ interests' = interests \cup {Discovery}
  BY DEF Discover, AskAgain, DiscoveryTimesOut, ConnectionFails, netVars, fetchVars
<1>3. ASSUME AskAgain
      PROVE  \A i \in interests' : i \notin interests => i \in SegmentNames /\ i.seg < next_seg
  <2>1. PICK n \in Nat : Fill(n, segments, in_flight, next_seg, first, received)
    BY <1>3 DEF AskAgain, TransferInv, Tables
  <2>2. prefix \in Versions /\ Indices = 0 .. n - 1 /\ Indices \subseteq SegIndices
    BY <1>3, <2>1 DEF AskAgain, TransferInv, AskedOnly, Fill, Indices
  <2>3. ASSUME NEW s \in Indices, in_flight[s] > 0
        PROVE  /\ [ver |-> prefix, seg |-> s] \in SegmentNames
               /\ [ver |-> prefix, seg |-> s].seg < next_seg
    BY <2>1, <2>2, <2>3 DEF Fill, SegmentNames
  <2>4. interests' = interests \cup
          {[ver |-> prefix, seg |-> s] : s \in {t \in Indices : in_flight[t] > 0}}
    BY <1>3 DEF AskAgain
  <2> SUFFICES ASSUME NEW i \in interests', i \notin interests
               PROVE  i \in SegmentNames /\ i.seg < next_seg
    OBVIOUS
  <2>5. PICK s \in Indices : in_flight[s] > 0 /\ i = [ver |-> prefix, seg |-> s]
    BY <2>4
  <2> QED
    BY <2>3, <2>5
<1>4. interests' \subseteq {Discovery} \cup SegmentNames
  BY <1>2, <1>3 DEF TransferInv, TypeOK
<1>5. FetchTypeOK'
  BY <1>1, <1>2 DEF TransferInv, TypeOK, FetchTypeOK, Indices, Versions, Counts, SegIndices, netLimits
<1>6. /\ TypeOK' /\ DataOK' /\ OneProducer' = OneProducer
      /\ Versions' = Versions /\ SegIndices' = SegIndices
      /\ SegmentNames' = SegmentNames /\ Counts' = Counts
  BY <1>1, <1>4, <1>5, FetchLeaves
<1>7. Indices' = Indices
  BY <1>1 DEF Indices
<1>8. OneAnswer'
  BY <1>1, <1>2 DEF TransferInv, OneAnswer
<1>9. ReceivedIsCount' /\ WithinPipeline' /\ NoHole' /\ NoPanic'
  BY <1>1, <1>2, <1>7 DEF TransferInv, ReceivedIsCount, WithinPipeline, NoHole, NoPanic, netLimits
<1>10. Tables' /\ NothingYet'
  BY <1>1, <1>2, <1>7 DEF TransferInv, Tables, NothingYet
<1>11. AskedOnly'
  BY <1>1, <1>2, <1>3, <1>6, <1>7 DEF TransferInv, AskedOnly
<1>12. OwnBytes'
  BY <1>1, <1>2, <1>6, <1>7 DEF TransferInv, OwnBytes
<1> QED
  BY <1>6, <1>8, <1>9, <1>10, <1>11, <1>12 DEF TransferInv

(* A step that leaves tables of n segments in order and fills the pipeline *)
(* up over them.                                                           *)
Fills(n, segs, flights, next, count) ==
  /\ segs \in [0 .. n - 1 -> {Absent} \cup Versions] /\ count \in Nat
  /\ 0 .. n - 1 \subseteq SegIndices
  /\ Fill(n, segs, flights, next, first', count)
  /\ Refill(prefix', segs, flights, next, first', count)
  /\ OneProducer => n = Counts[1] /\ \A s \in 0 .. n - 1 : segs[s] \in {Absent, 1}

LEMMA FilledPreserves ==
  ASSUME TransferInv, UNCHANGED <<prodVars, cached, netLimits>>, datas' \subseteq datas,
         NEW n \in Nat, NEW segs, NEW flights, NEW next, NEW count,
         Fills(n, segs, flights, next, count),
         prefix' \in Versions, first' \in {Absent} \cup Numbers,
         \A i \in interests : i \in SegmentNames /\ i.seg < next,
         \A d \in datas' : d.seg = first' \/ d.seg < next
  PROVE  TransferInv'
<1> USE DEF Fills
<1>1. /\ segments' = segs /\ received' = count /\ next_seg' \in next .. n
      /\ in_flight' \in [0 .. n - 1 -> Nat]
      /\ Fill(n, segs, in_flight', next_seg', first', count)
      /\ interests' = interests \cup
           {[ver |-> prefix', seg |-> s] : s \in (next .. next_seg' - 1) \ {first'}}
      /\ fetch' \in {"done", "fetching"}
      /\ fetch' = "done" => \A s \in 0 .. n - 1 : segs[s] # Absent
      /\ fetch' = "fetching" => \E s \in 0 .. n - 1 : in_flight'[s] > 0
  BY RefillIs
<1>2. Indices' = 0 .. n - 1 /\ next \in 0 .. n /\ next_seg' \in 0 .. n /\ next <= next_seg'
  BY <1>1 DEF Indices, Fill
<1>3. \A i \in interests' : i \in SegmentNames /\ i.seg < next_seg'
  <2>1. ASSUME NEW i \in interests PROVE i.seg < next_seg'
    <3>1. i.seg \in Nat /\ i.seg < next
      BY SettingIs DEF SegmentNames, TransferInv, TypeOK
    <3> QED
      BY <1>2, <3>1
  <2>2. ASSUME NEW s \in (next .. next_seg' - 1) \ {first'}
        PROVE  /\ [ver |-> prefix', seg |-> s] \in SegmentNames
               /\ [ver |-> prefix', seg |-> s].seg < next_seg'
    BY <1>2 DEF SegmentNames
  <2> SUFFICES ASSUME NEW i \in interests'
               PROVE  i \in SegmentNames /\ i.seg < next_seg'
    OBVIOUS
  <2>3. CASE i \in interests
    BY <2>1, <2>3
  <2>4. CASE i \notin interests
    <3>1. PICK s \in (next .. next_seg' - 1) \ {first'} : i = [ver |-> prefix', seg |-> s]
      BY <1>1, <2>4
    <3> QED
      BY <2>2, <3>1
  <2> QED
    BY <2>3, <2>4
<1>4. FetchTypeOK'
  <2>1. Versions' = Versions /\ SegIndices' = SegIndices
    BY DEF Versions, SegIndices, Counts, netLimits
  <2>2. segments' \in [Indices' -> {Absent} \cup Versions']
    BY <1>1, <1>2, <2>1
  <2>3. in_flight' \in [DOMAIN in_flight' -> Nat]
    BY <1>1
  <2> QED
    BY <1>1, <1>2, <2>1, <2>2, <2>3 DEF FetchTypeOK
<1>5. /\ TypeOK' /\ DataOK' /\ OneProducer' = OneProducer
      /\ Versions' = Versions /\ SegIndices' = SegIndices
      /\ SegmentNames' = SegmentNames /\ Counts' = Counts
  BY <1>3, <1>4, FetchLeaves
<1>6. OneAnswer' /\ NoPanic'
  BY <1>1 DEF OneAnswer, NoPanic
<1>7. NoHole' /\ ReceivedIsCount' /\ WithinPipeline'
  BY <1>1, <1>2 DEF NoHole, ReceivedIsCount, WithinPipeline, Fill
<1>8. Tables' /\ NothingYet'
  BY <1>1, <1>2 DEF Tables, NothingYet
<1>9. AskedOnly'
  <2>1. ASSUME NEW d \in datas' PROVE d.seg = first' \/ d.seg < next_seg'
    <3>1. d.seg \in Int
      BY PacketIs DEF TransferInv, TypeOK
    <3> QED
      BY <1>2, <3>1
  <2> QED
    BY <1>2, <1>3, <1>5, <2>1 DEF AskedOnly
<1>10. OwnBytes'
  BY <1>1, <1>2, <1>5 DEF OwnBytes
<1> QED
  BY <1>5, <1>6, <1>7, <1>8, <1>9, <1>10 DEF TransferInv

(* The tables once a packet was looked at in the loop.                     *)
Segs(d) == IF Accepts(d) THEN [segments EXCEPT ![d.seg] = d.from] ELSE segments
Flights(d) == IF Accepts(d) THEN Cleared(d.seg) ELSE in_flight
CountNow(d) == IF Accepts(d) THEN received + 1 ELSE received

LEMMA SegmentFills ==
  ASSUME TransferInv, NEW d \in datas, RecvSegment(d), NEW n \in Nat,
         Fill(n, segments, in_flight, next_seg, first, received)
  PROVE  /\ Fills(n, Segs(d), Flights(d), next_seg, CountNow(d))
         /\ \A s \in 0 .. n - 1 : Segs(d)[s] = Absent => segments[s] = Absent
<1>1. fetch = "fetching" /\ UNCHANGED <<prefix, first>>
  BY DEF RecvSegment
<1>2. /\ Indices = 0 .. n - 1 /\ Indices \subseteq SegIndices
      /\ \A e \in datas : e.seg = first \/ e.seg < next_seg
  BY <1>1 DEF TransferInv, AskedOnly, Fill, Indices
<1>3. segments \in [0 .. n - 1 -> {Absent} \cup Versions] /\ received \in Nat
  BY <1>2 DEF TransferInv, TypeOK, FetchTypeOK
<1>4. OneProducer => n = Counts[1] /\ \A s \in 0 .. n - 1 : segments[s] \in {Absent, 1}
  <2>1. OneProducer => 0 .. n - 1 = 0 .. Counts[1] - 1 /\ Counts[1] \in Nat
    BY <1>1, <1>2, SettingIs DEF TransferInv, TypeOK, OwnBytes
  <2>2. OneProducer => n = Counts[1]
    BY <2>1, BelowFinite
  <2> QED
    BY <1>2, <2>2 DEF TransferInv, OwnBytes
<1>5. Refill(prefix, Segs(d), Flights(d), next_seg, first, CountNow(d))
  BY DEF RecvSegment, Segs, Flights, CountNow
<1>6. CASE Accepts(d)
  <2> DEFINE segs == [segments EXCEPT ![d.seg] = d.from]
  <2>1. d.seg \in 0 .. n - 1 /\ segments[d.seg] = Absent
    BY <1>2, <1>6 DEF Accepts
  <2>2. d.from \in Versions /\ d.from # Absent
    BY PacketIs DEF TransferInv, TypeOK
  <2>3. d.seg < next_seg
    BY <1>2, <2>1 DEF Fill
  <2>4. Fill(n, segs, Cleared(d.seg), next_seg, first, received + 1)
    BY <2>1, <2>2, <2>3, AcceptFill DEF Cleared
  <2>5. segs \in [0 .. n - 1 -> {Absent} \cup Versions]
    BY <1>3, <2>2
  <2>6. OneProducer => n = Counts[1] /\ \A s \in 0 .. n - 1 : segs[s] \in {Absent, 1}
    BY <1>3, <1>4 DEF TransferInv, DataOK, Good, OwnData
  <2>7. \A s \in 0 .. n - 1 : segs[s] = Absent => segments[s] = Absent
    BY <1>3, <2>1
  <2>8. Segs(d) = segs /\ Flights(d) = Cleared(d.seg) /\ CountNow(d) = received + 1
    BY <1>6 DEF Segs, Flights, CountNow
  <2> HIDE DEF segs
  <2> QED
    BY <1>1, <1>2, <1>3, <1>5, <2>4, <2>5, <2>6, <2>7, <2>8 DEF Fills
<1>7. CASE ~ Accepts(d)
  <2>1. Segs(d) = segments /\ Flights(d) = in_flight /\ CountNow(d) = received
    BY <1>7 DEF Segs, Flights, CountNow
  <2> QED
    BY <1>1, <1>2, <1>3, <1>4, <1>5, <2>1 DEF Fills
<1> QED
  BY <1>6, <1>7

LEMMA SegmentPreserves ==
  ASSUME TransferInv, UNCHANGED prodVars, NEW d \in datas, RecvSegment(d)
  PROVE  TransferInv'
<1>1. /\ fetch = "fetching" /\ UNCHANGED <<prefix, first, cached, netLimits>>
      /\ datas' \subseteq datas
  BY DEF RecvSegment, Delivers
<1>2. PICK n \in Nat : Fill(n, segments, in_flight, next_seg, first, received)
  BY <1>1 DEF TransferInv, Tables
<1>3. /\ prefix \in Versions
      /\ \A i \in interests : i \in SegmentNames /\ i.seg < next_seg
      /\ \A e \in datas : e.seg = first \/ e.seg < next_seg
  BY <1>1 DEF TransferInv, AskedOnly
<1>4. first \in {Absent} \cup Numbers
  BY DEF TransferInv, TypeOK, FetchTypeOK
<1>5. Fills(n, Segs(d), Flights(d), next_seg, CountNow(d))
  BY <1>2, SegmentFills
<1> QED
  BY <1>1, <1>3, <1>4, <1>5, FilledPreserves

(* What the first Data says: how many segments there are, and the tables   *)
(* it starts.                                                              *)
Total(d) == IF d.last = Absent THEN 1 ELSE (d.last + 1) % Word
Start(d) == [s \in 0 .. Total(d) - 1 |-> IF s = d.seg THEN d.from ELSE Absent]
Zeros(d) == [s \in DOMAIN Start(d) |-> 0]
NextAfter(d) == IF d.seg = 0 THEN 1 ELSE 0
Whole(d) == d.seg = Absent \/ Total(d) = 1
Refused(d) == Total(d) > Room \/ d.seg >= Total(d)

(* A usize counts the segments, unless the last index is the largest one.  *)
LEMMA TotalIs ==
  ASSUME setting \in Settings, NEW d \in Packets, d.last # Absent
  PROVE  /\ Total(d) = IF d.last = Word - 1 THEN 0 ELSE d.last + 1
         /\ d.last \in Nat /\ Room \in Nat
<1>1. d.last \in 0 .. Word - 1 /\ Word \in Nat /\ Room \in Nat
  BY PacketIs, NetAssumption DEF NetAssumption, Numbers
<1>2. \A n \in Nat, w \in Nat : n < w => n % w = n
  OBVIOUS
<1>3. \A w \in Nat \ {0} : w % w = 0
  OBVIOUS
<1> QED
  BY <1>1, <1>2, <1>3 DEF Total


LEMMA FirstIs ==
  ASSUME TransferInv, NEW d \in datas, RecvFirst(d)
  PROVE  /\ fetch = "discovering" /\ UNCHANGED <<cached, netLimits>>
         /\ datas' \subseteq datas /\ prefix' = d.ver /\ first' = d.seg
         /\ interests = {} /\ datas = {d}
         /\ d.ver \in Versions /\ d.from \in Versions
         /\ d.from \in Nat \ {0} /\ d.from # Absent
         /\ d.seg \in {Absent} \cup Numbers /\ d.last \in {Absent} \cup Numbers
         /\ d.seg \in Int /\ d.last \in Int
         /\ d.seg # Absent => d.seg \in Nat
         /\ d.last # Absent => d.last \in Nat
         /\ Total(d) \in Nat /\ Good(d) /\ setting \in Settings
         /\ ~ Whole(d) /\ Refused(d) => Beyond(d) \/ TooMany(d)
         /\ OneProducer => /\ Total(d) = Counts[1] /\ d.from = 1
                           /\ d.seg # Absent /\ d.seg \in 0 .. Total(d) - 1
<1>1. /\ fetch = "discovering" /\ UNCHANGED <<cached, netLimits>>
      /\ datas' \subseteq datas /\ prefix' = d.ver /\ first' = d.seg
  BY DEF RecvFirst, Delivers
<1>2. interests = {} /\ datas = {d}
  BY <1>1 DEF TransferInv, OneAnswer
<1>3. /\ d.ver \in Versions /\ d.from \in Versions
      /\ d.from \in Nat \ {0} /\ d.from # Absent
      /\ d.seg \in {Absent} \cup Numbers /\ d.last \in {Absent} \cup Numbers
      /\ d.seg \in Int /\ d.last \in Int
      /\ d.seg # Absent => d.seg \in Nat
      /\ d.last # Absent => d.last \in Nat
  BY PacketIs DEF TransferInv, TypeOK
<1>4. Good(d) /\ setting \in Settings
  BY DEF TransferInv, DataOK, TypeOK
<1>5. /\ Total(d) \in Nat
      /\ ~ Whole(d) /\ Refused(d) => Beyond(d) \/ TooMany(d)
  <2>1. CASE d.last = Absent
    BY <2>1 DEF Total, Whole
  <2>2. CASE d.last # Absent
    <3>1. d \in Packets
      BY DEF TransferInv, TypeOK
    <3>2. /\ Total(d) = IF d.last = Word - 1 THEN 0 ELSE d.last + 1
          /\ d.last \in Nat /\ Room \in Nat /\ Word \in Nat /\ Room < Word
      BY <1>4, <2>2, <3>1, TotalIs, NetAssumption DEF NetAssumption
    <3> QED
      BY <1>3, <2>2, <3>2 DEF Whole, Refused, Beyond, TooMany
  <2> QED
    BY <2>1, <2>2
<1>6. ASSUME OneProducer
      PROVE  /\ Counts[1] \in Nat /\ d.last = Counts[1] - 1 /\ d.from = 1
             /\ d.seg \in 0 .. Counts[1] - 1
  BY <1>4, <1>6, SettingIs DEF Good, OwnData
<1>7. ASSUME OneProducer
      PROVE  /\ Total(d) = Counts[1] /\ d.from = 1
             /\ d.seg # Absent /\ d.seg \in 0 .. Total(d) - 1
  <2>1. Counts[1] \in Nat \ {0} /\ d.last = Counts[1] - 1 /\ d.last # Absent
    BY <1>6, <1>7 DEF Absent
  <2>2. d \in Packets /\ Counts[1] <= Room /\ Room \in Nat /\ Word \in Nat /\ Room < Word
    BY <1>4, SettingIs DEF TransferInv, TypeOK
  <2>3. Total(d) = Counts[1]
    BY <1>4, <2>1, <2>2, TotalIs
  <2> QED
    BY <1>6, <1>7, <2>3 DEF Absent
<1> QED
  BY <1>1, <1>2, <1>3, <1>4, <1>5, <1>7

LEMMA FirstFills ==
  ASSUME TransferInv, NEW d \in datas, RecvFirst(d),
         ~ Whole(d), ~ Refused(d)
  PROVE  Fills(Total(d), Start(d), Zeros(d), NextAfter(d), 1)
<1> DEFINE total == Total(d)
           start == Start(d)
           zeros == Zeros(d)
           next == NextAfter(d)
<1>1. prefix' = d.ver /\ first' = d.seg
  BY FirstIs
<1>2. /\ d.from \in Versions /\ d.from # Absent /\ d.seg \in Nat
      /\ total \in Nat \ {0} /\ d.seg < total /\ total <= Room /\ Room \in Nat
      /\ setting \in Settings
      /\ OneProducer => total = Counts[1] /\ d.from = 1
  BY FirstIs, NetAssumption DEF Whole, Refused, NetAssumption
<1>3. Refill(prefix', start, zeros, next, first', 1)
  BY <1>1 DEF RecvFirst, Total, Start, Zeros, NextAfter, Whole, Refused
<1>4. d.seg \in 0 .. total - 1 /\ next \in 0 .. total
  BY <1>2 DEF NextAfter
<1>5. /\ start \in [0 .. total - 1 -> {Absent} \cup Versions]
      /\ DOMAIN start = 0 .. total - 1 /\ DOMAIN zeros = 0 .. total - 1
      /\ \A s \in 0 .. total - 1 : /\ start[s] = IF s = d.seg THEN d.from ELSE Absent
                                   /\ zeros[s] = 0
  BY <1>2 DEF Start, Zeros
<1> HIDE DEF total, start, zeros
<1>6. Flying(zeros) <= Pipeline
  <2>1. Flying(zeros) = Cardinality({s \in 0 .. total - 1 : zeros[s] = 1})
    <3>1. /\ total \in Nat /\ DOMAIN zeros = 0 .. total - 1
          /\ \A s \in 0 .. total - 1 : zeros[s] \in {0, 1}
      BY <1>2, <1>5
    <3> QED
      BY <3>1, FlyingIs
  <2>2. {s \in 0 .. total - 1 : zeros[s] = 1} = {}
    BY <1>5
  <2>3. Flying(zeros) = 0
    BY <2>1, <2>2, FS_EmptySet, Zenon
  <2> QED
    BY <2>3, PipelineAssumption DEF PipelineAssumption
<1>7. 1 = Cardinality({s \in 0 .. total - 1 : start[s] # Absent})
  <2>1. {s \in 0 .. total - 1 : start[s] # Absent} = {d.seg}
    BY <1>2, <1>4, <1>5
  <2> QED
    BY <2>1, FS_Singleton
<1>8. ASSUME NEW s \in 0 .. total - 1
      PROVE  /\ zeros[s] = IF s < next /\ start[s] = Absent THEN 1 ELSE 0
             /\ start[s] # Absent => s = d.seg \/ s < next
  BY <1>2, <1>5 DEF NextAfter
<1> HIDE DEF next
<1>9. Fill(total, start, zeros, next, first', 1)
  BY <1>1, <1>2, <1>4, <1>5, <1>6, <1>7, <1>8 DEF Fill
<1>10. 0 .. total - 1 \subseteq SegIndices
  BY <1>2 DEF SegIndices
<1>11. OneProducer => /\ total = Counts[1]
                      /\ \A s \in 0 .. total - 1 : start[s] \in {Absent, 1}
  BY <1>2, <1>5
<1> QED
  BY <1>3, <1>5, <1>9, <1>10, <1>11 DEF Fills, total, start, zeros, next

LEMMA FirstPreserves ==
  ASSUME TransferInv, UNCHANGED prodVars, NEW d \in datas, RecvFirst(d)
  PROVE  TransferInv'
<1>1. /\ UNCHANGED <<cached, netLimits>>
      /\ datas' \subseteq datas /\ prefix' = d.ver /\ first' = d.seg
      /\ interests = {} /\ datas = {d}
  BY FirstIs
<1>2. /\ d.ver \in Versions /\ d.from \in Versions /\ d.from # Absent
      /\ d.seg \in {Absent} \cup Numbers /\ d.seg \in Int
  BY FirstIs
<1>3. Versions' = Versions /\ SegIndices' = SegIndices
  BY <1>1 DEF Versions, SegIndices, Counts, netLimits
<1>4. CASE Whole(d)
  <2>1. /\ fetch' = "done" /\ segments' = [s \in {0} |-> d.from] /\ received' = 1
        /\ UNCHANGED <<in_flight, next_seg, interests>>
    BY <1>4 DEF RecvFirst, Total, Whole
  <2>2. Indices' = {0} /\ \A s \in Indices' : segments'[s] = d.from
    BY <2>1 DEF Indices
  <2>3. segments' \in [Indices' -> {Absent} \cup Versions']
    BY <1>2, <1>3, <2>1, <2>2
  <2>4. FetchTypeOK'
    BY <1>1, <1>2, <1>3, <2>1, <2>3 DEF TransferInv, TypeOK, FetchTypeOK
  <2>5. /\ TypeOK' /\ DataOK' /\ OneProducer' = OneProducer /\ Counts' = Counts
    BY <1>1, <2>1, <2>4, FetchLeaves
  <2>6. ReceivedIsCount'
    <3>1. {s \in Indices' : segments'[s] # Absent} = {0}
      BY <1>2, <2>2
    <3> QED
      BY <2>1, <3>1, FS_Singleton DEF ReceivedIsCount
  <2>7. NoHole' /\ WithinPipeline' /\ NoPanic'
    BY <1>2, <2>1, <2>2 DEF TransferInv, NoHole, WithinPipeline, NoPanic
  <2>8. OwnBytes'
    <3>1. ASSUME OneProducer PROVE Indices' = 0 .. Counts[1] - 1 /\ d.from = 1
      BY <1>4, <2>2, <3>1, FirstIs DEF Whole
    <3> QED
      BY <2>2, <2>5, <3>1 DEF OwnBytes
  <2> QED
    BY <2>1, <2>5, <2>6, <2>7, <2>8
       DEF TransferInv, OneAnswer, NothingYet, Tables, AskedOnly
<1>5. CASE ~ Whole(d) /\ Refused(d)
  <2>1. /\ fetch' = "panicked"
        /\ UNCHANGED <<segments, received, in_flight, next_seg, interests>>
    BY <1>5 DEF RecvFirst, Total, Whole, Refused
  <2>2. Indices' = Indices
    BY <2>1 DEF Indices
  <2>3. FetchTypeOK'
    BY <1>1, <1>2, <1>3, <2>1, <2>2 DEF TransferInv, TypeOK, FetchTypeOK
  <2>4. /\ TypeOK' /\ DataOK' /\ OneProducer' = OneProducer /\ Counts' = Counts
    BY <1>1, <2>1, <2>3, FetchLeaves
  <2>5. (Beyond(d) \/ TooMany(d)) /\ Good(d)
    BY <1>5, FirstIs
  <2>6. NoPanic'
    BY <1>1, <2>5 DEF NoPanic, Good, netLimits
  <2>7. NoHole' /\ WithinPipeline' /\ ReceivedIsCount'
    BY <2>1 DEF TransferInv, NoHole, WithinPipeline, ReceivedIsCount
  <2>8. OwnBytes'
    BY <2>1, <2>2, <2>4 DEF TransferInv, OwnBytes
  <2> QED
    BY <2>1, <2>4, <2>6, <2>7, <2>8
       DEF TransferInv, OneAnswer, NothingYet, Tables, AskedOnly
<1>6. CASE ~ Whole(d) /\ ~ Refused(d)
  <2>1. Fills(Total(d), Start(d), Zeros(d), NextAfter(d), 1) /\ Total(d) \in Nat
    BY <1>6, FirstFills, FirstIs
  <2>2. \A e \in datas' : e.seg = first' \/ e.seg < NextAfter(d)
    BY <1>1
  <2> QED
    BY <1>1, <1>2, <2>1, <2>2, FilledPreserves
<1> QED
  BY <1>4, <1>5, <1>6

(***************************************************************************)
(* The theorems.                                                           *)
(***************************************************************************)
LEMMA NextTransfer == TransferInv /\ [Next]_vars => TransferInv'
<1> SUFFICES ASSUME TransferInv, [Next]_vars PROVE TransferInv'
  OBVIOUS
<1>1. ASSUME FetchNext, UNCHANGED prodVars PROVE TransferInv'
  BY <1>1, StillPreserves, FirstPreserves, SegmentPreserves DEF FetchNext
<1>2. ASSUME ProdNext, UNCHANGED fetchVars PROVE TransferInv'
  BY <1>2, ProducerPreserves, ServePreserves DEF ProdNext
<1>3. ASSUME NEW i \in SegmentNames, ServeOther(i), UNCHANGED fetchVars PROVE TransferInv'
  BY <1>3, OtherPreserves
<1>4. ASSUME NEW i \in interests, CacheAnswers(i), UNCHANGED <<fetchVars, prodVars>>
      PROVE  TransferInv'
  BY <1>4, CachePreserves
<1>5. ASSUME LosesPacket, UNCHANGED <<fetchVars, prodVars>> PROVE TransferInv'
  BY <1>5, LossPreserves
<1>6. ASSUME UNCHANGED vars PROVE TransferInv'
  <2>1. /\ UNCHANGED fetchVars /\ UNCHANGED <<setting, version>>
        /\ UNCHANGED <<interests, datas, cached, losses, prod, stop>>
    BY <1>6 DEF vars, prodVars, netVars, netLimits
  <2>2. ProdTypeOK' /\ (OneProducer' => OneProducer)
    BY <2>1, ProducerRests DEF TransferInv, TypeOK, ProdTypeOK
  <2>3. OneAnswer'
    BY <2>1 DEF TransferInv, OneAnswer, fetchVars
  <2> QED
    BY <2>1, <2>2, <2>3, NetPreserves DEF TransferInv, TypeOK, DataOK, AskedOnly
<1> QED
  BY <1>1, <1>2, <1>3, <1>4, <1>5, <1>6 DEF Next

LEMMA TransferInvHolds == Spec => []TransferInv
<1>1. Init => TransferInv
  BY InitTransfer
<1>2. TransferInv /\ [Next]_vars => TransferInv'
  BY NextTransfer
<1> QED
  BY <1>1, <1>2, PTL DEF Spec

(* Whatever mixture of Data, old, new, foreign, late or doubled, reaches   *)
(* fetch_segmented, what it counts, what it has in flight and what is      *)
(* there agree, the pipeline is never overfilled, the loop never waits for *)
(* nothing, and only foreign Data that contradicts itself or promises more *)
(* segments than a vector can hold ends the program.                       *)
THEOREM PipelineInvHolds == Spec => []PipelineInv
<1>1. TransferInv => PipelineInv
  <2> SUFFICES ASSUME TransferInv PROVE MissingIsInFlight
    BY DEF TransferInv, PipelineInv
  <2> SUFFICES ASSUME fetch = "fetching"
               PROVE  /\ \A s \in Indices : in_flight[s] =
                           IF s < next_seg /\ segments[s] = Absent THEN 1 ELSE 0
                      /\ \E s \in Indices : in_flight[s] > 0
    BY DEF MissingIsInFlight
  <2>1. PICK n \in Nat : Fill(n, segments, in_flight, next_seg, first, received)
    BY DEF TransferInv, Tables
  <2> QED
    BY <2>1 DEF TransferInv, Tables, Fill, Indices
<1> QED
  BY <1>1, TransferInvHolds, PTL

(* What ndn-peek returns, as long as one run of ndn-put serves, is the     *)
(* object that run published, whatever is lost, doubled or cached.         *)
THEOREM WholeObjectHolds == Spec => []WholeObject
<1>1. TransferInv => WholeObject
  <2> SUFFICES ASSUME TransferInv, OneProducer, fetch = "done"
               PROVE  segments = [s \in 0 .. Counts[1] - 1 |-> 1]
    BY DEF WholeObject
  <2>1. /\ Indices = 0 .. Counts[1] - 1
        /\ \A s \in Indices : segments[s] = 1
    BY DEF TransferInv, OwnBytes, NoHole
  <2>2. segments \in [Indices -> {Absent} \cup Versions]
    BY DEF TransferInv, TypeOK, FetchTypeOK
  <2> QED
    BY <2>1, <2>2
<1> QED
  BY <1>1, TransferInvHolds, PTL

(***************************************************************************)
(* The fetch as a windowed flow.                                           *)
(***************************************************************************)

(* What is in a pipeline, and what has been and no longer is.              *)
Out(flights) == {s \in DOMAIN flights : flights[s] > 0}
Past(next, skip, flights) == {s \in 0 .. next - 1 : s # skip} \ Out(flights)
Settled == Past(next_seg, first, in_flight)
Open == fetch \in {"starting", "discovering", "fetching"}

(* What is in the pipeline is what is missing, and it fits.                *)
LEMMA PipelineIs ==
  ASSUME NEW n \in Nat, NEW segs, NEW flights, NEW next, NEW skip, NEW count,
         Fill(n, segs, flights, next, skip, count)
  PROVE  /\ Out(flights) = {s \in 0 .. n - 1 : s < next /\ segs[s] = Absent}
         /\ Past(next, skip, flights)
              = {s \in 0 .. n - 1 : s # skip /\ segs[s] # Absent}
         /\ Cardinality(Out(flights)) <= Pipeline
<1> DEFINE O == {s \in 0 .. n - 1 : flights[s] = 1}
<1>1. /\ DOMAIN flights = 0 .. n - 1 /\ next \in 0 .. n
      /\ \A s \in 0 .. n - 1 :
           /\ flights[s] = IF s < next /\ segs[s] = Absent THEN 1 ELSE 0
           /\ segs[s] # Absent => s = skip \/ s < next
  BY DEF Fill
<1>2. /\ Out(flights) = {s \in 0 .. n - 1 : s < next /\ segs[s] = Absent}
      /\ Out(flights) = O
  BY <1>1 DEF Out
<1>3. \A s \in 0 .. n - 1 : s # skip /\ segs[s] # Absent => s \in 0 .. next - 1
  BY <1>1
<1>4. 0 .. next - 1 \subseteq 0 .. n - 1 /\ \A s \in 0 .. next - 1 : s < next
  BY <1>1
<1>5. Past(next, skip, flights) = {s \in 0 .. n - 1 : s # skip /\ segs[s] # Absent}
  BY <1>2, <1>3, <1>4 DEF Past
<1>6. Cardinality(Out(flights)) <= Pipeline
  <2>1. Flying(flights) = Cardinality(O) /\ Flying(flights) <= Pipeline
    <3>1. \A s \in 0 .. n - 1 : flights[s] \in {0, 1}
      BY <1>1
    <3> QED
      BY <1>1, <3>1, FlyingIs DEF Fill
  <2> HIDE DEF O
  <2> QED
    BY <1>2, <2>1
<1> QED
  BY <1>2, <1>5, <1>6

(* The variables of the abstract flow, in the operators above.             *)
LEMMA FlowTurns ==
  ASSUME NEW gone \in SUBSET InPipeline,
         NEW asked \in SUBSET SegIndices,
         asked \cap (InPipeline \cup Settled) = {},
         asked # {} => Open /\ Cardinality((InPipeline \ gone) \cup asked) <= Pipeline,
         InPipeline' = (InPipeline \ gone) \cup asked,
         Settled' = Settled \cup gone,
         Open' => Open
  PROVE  [Flow!FlowNext]_(Flow!flowVars)
<1>1. Settled = {s \in 0 .. next_seg - 1 : s # first} \ InPipeline
  BY DEF Settled, Past, Out, InPipeline
<1>2. Settled' = {s \in 0 .. next_seg' - 1 : s # first'} \ InPipeline'
  BY DEF Settled, Past, Out, InPipeline
<1>3. Open' \in {Open, FALSE}
  <2>1. Open \in BOOLEAN /\ Open' \in BOOLEAN
    BY DEF Open
  <2>2. CASE Open' = Open
    BY <2>2
  <2>3. CASE Open' = FALSE
    BY <2>3
  <2> QED
    BY <2>1, <2>2, <2>3
<1>4. asked # {} => /\ fetch \in {"starting", "discovering", "fetching"}
                    /\ Flow!Cardinality((InPipeline \ gone) \cup asked) <= Pipeline
  BY Zenon DEF Flow!Cardinality, Cardinality, Open
<1>5. (fetch' \in {"starting", "discovering", "fetching"})
        \in {(fetch \in {"starting", "discovering", "fetching"}), FALSE}
  BY <1>3, Zenon DEF Open
<1>6. ({s \in 0 .. next_seg - 1 : s # first} \ InPipeline)'
        = ({s \in 0 .. next_seg - 1 : s # first} \ InPipeline) \cup gone
  BY <1>1, <1>2, Zenon
<1>7. asked \cap (InPipeline \cup ({s \in 0 .. next_seg - 1 : s # first} \ InPipeline)) = {}
  BY <1>1, Zenon
<1>8. Flow!Turn(gone, asked)
  BY <1>4, <1>5, <1>6, <1>7, Zenon DEF Flow!Turn
<1> QED
  BY <1>8, Zenon DEF Flow!FlowNext

(* A step that leaves the tables alone settles nothing and asks for        *)
(* nothing new.                                                            *)
LEMMA IdleFlows ==
  ASSUME UNCHANGED <<InPipeline, Settled>>, Open' => Open
  PROVE  [Flow!FlowNext]_(Flow!flowVars)
<1> DEFINE gone == {}
           asked == {}
<1>1. /\ gone \in SUBSET InPipeline
      /\ asked \in SUBSET SegIndices
      /\ asked \cap (InPipeline \cup Settled) = {}
      /\ asked # {} => Open /\ Cardinality((InPipeline \ gone) \cup asked) <= Pipeline
      /\ InPipeline' = (InPipeline \ gone) \cup asked
      /\ Settled' = Settled \cup gone
  OBVIOUS
<1> HIDE DEF gone, asked
<1> QED
  BY <1>1, FlowTurns

(* The pipeline refilled: of what was in it some has come, and what is in  *)
(* it now and was not before was never asked for.                          *)
LEMMA FillsFlow ==
  ASSUME setting \in Settings, fetch \in {"discovering", "fetching"},
         NEW n \in Nat, NEW segs, NEW flights, NEW next, NEW count,
         Fills(n, segs, flights, next, count),
         InPipeline \subseteq {s \in 0 .. n - 1 : s < next /\ s # first'},
         Settled \subseteq {s \in 0 .. n - 1 : s # first' /\ segs[s] # Absent},
         {s \in 0 .. n - 1 : s # first' /\ segs[s] # Absent} \subseteq InPipeline \cup Settled
  PROVE  [Flow!FlowNext]_(Flow!flowVars)
<1> DEFINE gone == InPipeline \ InPipeline'
           asked == InPipeline' \ InPipeline
<1>1. /\ Fill(n, segs, in_flight', next_seg', first', count)
      /\ next_seg' \in next .. n /\ next \in 0 .. n /\ 0 .. n - 1 \subseteq SegIndices
  <2>1. /\ Fill(n, segs, flights, next, first', count)
        /\ Refill(prefix', segs, flights, next, first', count)
        /\ 0 .. n - 1 \subseteq SegIndices
    BY DEF Fills
  <2>2. Fill(n, segs, in_flight', next_seg', first', count) /\ next_seg' \in next .. n
    BY <2>1, RefillIs
  <2>3. next \in 0 .. n
    BY <2>1 DEF Fill
  <2> QED
    BY <2>1, <2>2, <2>3
<1>2. /\ InPipeline' = {s \in 0 .. n - 1 : s < next_seg' /\ segs[s] = Absent}
      /\ Settled' = {s \in 0 .. n - 1 : s # first' /\ segs[s] # Absent}
      /\ Cardinality(InPipeline') <= Pipeline
  <2>1. InPipeline' = Out(in_flight') /\ Settled' = Past(next_seg', first', in_flight')
    BY DEF InPipeline, Settled, Past, Out
  <2> QED
    BY <1>1, <2>1, PipelineIs
<1>3. \A s \in InPipeline : s \in 0 .. n - 1 /\ s < next_seg' /\ s # first'
  BY <1>1
<1>4. Settled' = Settled \cup gone
  <2>1. ASSUME NEW s \in Settled' PROVE s \in Settled \cup gone
    BY <1>2, <2>1
  <2>2. ASSUME NEW s \in gone PROVE s \in Settled'
    BY <1>2, <1>3, <2>2
  <2>3. Settled \subseteq Settled'
    BY <1>2
  <2> HIDE DEF gone
  <2> QED
    BY <2>1, <2>2, <2>3
<1>5. asked \cap (InPipeline \cup Settled) = {}
  BY <1>2
<1>6. InPipeline' = (InPipeline \ gone) \cup asked
  OBVIOUS
<1>7. asked \in SUBSET SegIndices
  BY <1>1, <1>2
<1>8. gone \in SUBSET InPipeline
  OBVIOUS
<1>9. Open
  BY DEF Open
<1> HIDE DEF gone, asked
<1>10. Cardinality((InPipeline \ gone) \cup asked) <= Pipeline
  BY <1>2, <1>6
<1> QED
  BY <1>4, <1>5, <1>6, <1>7, <1>8, <1>9, <1>10, FlowTurns

LEMMA FirstFlows ==
  ASSUME TransferInv, NEW d \in datas, RecvFirst(d)
  PROVE  [Flow!FlowNext]_(Flow!flowVars)
<1>1. fetch = "discovering" /\ InPipeline = {} /\ Settled = {} /\ next_seg = 0
  BY FirstIs DEF TransferInv, NothingYet, InPipeline, Settled, Past
<1>2. CASE Whole(d) \/ Refused(d)
  <2>1. UNCHANGED <<in_flight, next_seg>>
    BY <1>2 DEF RecvFirst, Total, Whole, Refused
  <2>2. InPipeline' = {} /\ Settled' = {}
    BY <1>1, <2>1 DEF InPipeline, Settled, Past, Out
  <2> QED
    BY <1>1, <2>2, IdleFlows DEF Open
<1>3. CASE ~ Whole(d) /\ ~ Refused(d)
  <2>1. Fills(Total(d), Start(d), Zeros(d), NextAfter(d), 1) /\ Total(d) \in Nat
    BY <1>3, FirstFills, FirstIs
  <2>2. \A s \in 0 .. Total(d) - 1 : Start(d)[s] # Absent => s = first'
    BY FirstIs DEF Start
  <2>3. setting \in Settings
    BY DEF TransferInv, TypeOK
  <2> QED
    BY <1>1, <2>1, <2>2, <2>3, FillsFlow
<1> QED
  BY <1>2, <1>3

LEMMA SegmentFlows ==
  ASSUME TransferInv, NEW d \in datas, RecvSegment(d)
  PROVE  [Flow!FlowNext]_(Flow!flowVars)
<1>1. fetch = "fetching" /\ first' = first /\ setting \in Settings
  BY DEF RecvSegment, TransferInv, TypeOK
<1>2. PICK n \in Nat : Fill(n, segments, in_flight, next_seg, first, received)
  BY <1>1 DEF TransferInv, Tables
<1>3. /\ Fills(n, Segs(d), Flights(d), next_seg, CountNow(d))
      /\ \A s \in 0 .. n - 1 : Segs(d)[s] = Absent => segments[s] = Absent
  BY <1>2, SegmentFills
<1>4. /\ InPipeline = {s \in 0 .. n - 1 : s < next_seg /\ segments[s] = Absent}
      /\ Settled = {s \in 0 .. n - 1 : s # first /\ segments[s] # Absent}
  <2>1. InPipeline = Out(in_flight)
    BY DEF InPipeline, Out
  <2> QED
    BY <1>2, <2>1, PipelineIs DEF Settled
<1>5. segments[first] # Absent
  BY <1>2 DEF Fill
<1>6. \A s \in 0 .. n - 1 : Segs(d)[s] # Absent => s = first \/ s < next_seg
  BY <1>1, <1>3 DEF Fills, Fill
<1>7. /\ InPipeline \subseteq {s \in 0 .. n - 1 : s < next_seg /\ s # first'}
      /\ Settled \subseteq {s \in 0 .. n - 1 : s # first' /\ Segs(d)[s] # Absent}
      /\ {s \in 0 .. n - 1 : s # first' /\ Segs(d)[s] # Absent} \subseteq InPipeline \cup Settled
  BY <1>1, <1>3, <1>4, <1>5, <1>6
<1> QED
  BY <1>1, <1>3, <1>7, FillsFlow

LEMMA StepFlows == TransferInv /\ [Next]_vars => [Flow!FlowNext]_(Flow!flowVars)
<1> SUFFICES ASSUME TransferInv, [Next]_vars PROVE [Flow!FlowNext]_(Flow!flowVars)
  OBVIOUS
<1>1. ASSUME UNCHANGED <<in_flight, next_seg, first>>,
             Open' => Open
      PROVE  [Flow!FlowNext]_(Flow!flowVars)
  <2>1. UNCHANGED <<InPipeline, Settled>>
    BY <1>1 DEF InPipeline, Settled, Past, Out
  <2> QED
    BY <1>1, <2>1, IdleFlows
<1>2. ASSUME FetchNext PROVE [Flow!FlowNext]_(Flow!flowVars)
  <2>1. ASSUME Discover \/ AskAgain \/ DiscoveryTimesOut \/ ConnectionFails
        PROVE  [Flow!FlowNext]_(Flow!flowVars)
    BY <1>1, <2>1 DEF Discover, AskAgain, DiscoveryTimesOut, ConnectionFails, fetchVars, Open
  <2> QED
    BY <1>2, <2>1, FirstFlows, SegmentFlows DEF FetchNext
<1>3. ASSUME UNCHANGED fetchVars PROVE [Flow!FlowNext]_(Flow!flowVars)
  BY <1>1, <1>3 DEF fetchVars, Open
<1> QED
  BY <1>2, <1>3 DEF Next, vars

(* The fetch implements WindowedFlow: past the segment that answered the   *)
(* discovery, a segment is new once, received once and never in the        *)
(* pipeline again, and the pipeline is never filled beyond its depth (the  *)
(* refill at the top of fetch_segmented's loop).                           *)
THEOREM FetchIsAFlow == Spec => ImplementsFlow
<1>1. Init => Flow!FlowInit
  BY DEF Init, FetchInit, Flow!FlowInit, InPipeline
<1> QED
  BY <1>1, TransferInvHolds, StepFlows, PTL DEF Spec, ImplementsFlow, Flow!FlowSpec

-----------------------------------------------------------------------------
(***************************************************************************)
(* The probes, for any distance, hop limit, number of probes, pings and    *)
(* runs, and any forwarders that name themselves.                          *)
(***************************************************************************)
Names == [seq : Nat, marked : BOOLEAN]
Runs == {"trace", "ping"} \X Nat
Packet == [name : Names, by : Nat, run : Runs, probe : Nat, fresh : BOOLEAN]

(* The report of a ping: its counters, each number once.                   *)
Counting == [pc : {"ping", "done"}, run : Nat, seq : 0 .. Count, received : Nat,
             nacks : Nat, timeouts : Nat, stale : Nat]
PingOK ==
  \/ ping = Idle(0)
  \/ /\ ping \in Counting
     /\ ping.seq = ping.received + ping.nacks + ping.timeouts
     /\ ping.stale <= ping.received

(* What a trace is while it runs and when it is over.                      *)
Tracing == [pc : {"hop", "done", "failed"}, run : Nat \ {0}, probes : Nat \ {0}, identify : BOOLEAN,
            hop : Nat \ {0}, tries : Nat, seq : Nat, outcome : {"timeout", "nack", "hop", "reached"},
            reached : Nat, missed : SUBSET Nat, answer : [by : Nat, probe : Nat], stale : Nat]
TraceOK == trace = Idle(0) \/ trace \in Tracing

StoreOK == store \in [Line -> SUBSET Packet] /\ fresh \in BOOLEAN

(* Of the run that is under way, only probes already sent have Data.       *)
SentBefore ==
  \A k \in Line : \A d \in store[k] : \A n \in Nat :
    d.run = <<"trace", n>> =>
      /\ trace # Idle(0) /\ n <= trace.run
      /\ n = trace.run => d.name.seq < trace.seq

(* A trace without stale Data: what its hop was answered by, and that every hop    *)
(* from the server's on that is behind it was missed.                      *)
Answered ==
  /\ trace.outcome \in {"hop", "reached"} => trace.answer.probe = trace.seq - 1
  /\ trace.outcome = "hop" => trace.answer.by = trace.hop /\ trace.hop < Distance
  /\ trace.outcome = "reached" => trace.answer.by = Server /\ trace.hop >= Distance
Behind == \A h \in Nat : Distance <= h /\ h < trace.hop => h \in trace.missed
Ramp ==
  trace # Idle(0) /\ trace.pc # "failed" =>
    /\ trace.pc = "hop" /\ trace.outcome \in {"hop", "reached"} => trace.tries = trace.probes
    /\ trace.reached # 0 => trace.pc = "done" /\ trace.reached = trace.hop /\ trace.outcome = "reached"
    /\ trace.stale = 0 => Answered /\ Behind

Inv == PingOK /\ TraceOK /\ StoreOK /\ SentBefore /\ Ramp

(* What an Interest of either tool carries.                                *)
Interest == [name : Names, marked : BOOLEAN, hops : Nat, mustBeFresh : BOOLEAN, run : Runs, probe : Nat]

LEMMA InitInv == ProbesInit => Inv
<1> SUFFICES ASSUME ProbesInit PROVE Inv
  OBVIOUS
<1>1. trace = Idle(0) /\ ping = Idle(0)
  BY DEF ProbesInit
<1>2. \A k \in Line : store[k] = {}
  BY DEF ProbesInit
<1>3. StoreOK
  BY DEF ProbesInit, StoreOK
<1> QED
  BY <1>1, <1>2, <1>3 DEF Inv, PingOK, TraceOK, SentBefore, Ramp

(* Data that answers an Interest carries its name; it comes from a cache,  *)
(* or it was made for it by the server, within the hop limit, or by the    *)
(* forwarder where the limit ends, nearer than the server.                 *)
LEMMA AnswersAre ==
  ASSUME StoreOK, NEW i \in Interest, NEW a \in Answers(i)
  PROVE  /\ a.data \in Packet /\ a.data.name = i.name
         /\ \/ \E k \in Line : a.data \in store[k]
            \/ /\ a.data.run = i.run /\ a.data.probe = i.probe
               /\ \/ a.data.by = Server /\ i.hops >= Distance
                  \/ i.marked /\ a.data.by = i.hops /\ i.hops < Distance /\ i.hops # Server
<1>0. Distance \in Nat \ {0} /\ Line \subseteq Nat \ {0}
  BY ProbesAssumption DEF ProbesAssumption, Line
<1>1. CASE Caching(i) # {}
  <2>1. PICK k \in Nearest(i) : \E d \in {x \in store[k] : Usable(x, i)} :
            a = [data |-> d, passes |-> 1 .. k - 1]
    BY <1>1 DEF Answers
  <2>2. k \in Line
    BY DEF Nearest, Caching
  <2>3. a.data \in store[k] /\ Usable(a.data, i)
    BY <2>1
  <2>4. a.data \in Packet
    BY <2>2, <2>3 DEF StoreOK
  <2> QED
    BY <2>2, <2>3, <2>4 DEF Usable
<1>2. CASE Caching(i) = {}
  <2>1. PICK h \in Line :
          /\ (i.hops >= h /\ h = Distance) \/ (i.marked /\ h = i.hops /\ h \in Naming)
          /\ a = [data |-> Made(i, IF h = Distance THEN Server ELSE h), passes |-> 1 .. h]
    BY <1>2 DEF Answers
  <2> DEFINE by == IF h = Distance THEN Server ELSE h
  <2>2. a.data = Made(i, by)
    BY <2>1
  <2>3. h \in 1 .. Distance
    BY DEF Line
  <2>4. by \in Nat
    BY <1>0 DEF Server
  <2>5. i.name \in Names /\ i.run \in Runs /\ i.probe \in Nat /\ i.hops \in Nat
    BY DEF Interest
  <2>6. a.data \in Packet /\ a.data.name = i.name /\ a.data.run = i.run /\ a.data.probe = i.probe /\ a.data.by = by
    <3> HIDE DEF by
    <3> QED
      BY <2>2, <2>4, <2>5 DEF Made, Packet, StoreOK
  <2>7. CASE h = Distance
    BY <2>1, <2>5, <2>6, <2>7, <1>0 DEF Server
  <2>8. CASE h # Distance
    BY <2>1, <2>3, <2>5, <2>6, <2>8, <1>0 DEF Server
  <2> QED
    BY <2>7, <2>8
<1> QED
  BY <1>1, <1>2

(* Caching an answer adds nothing else to a store.                         *)
LEMMA CachedIs ==
  ASSUME StoreOK, NEW a, a.data \in Packet, store' = Cached(a), UNCHANGED fresh
  PROVE  /\ StoreOK'
         /\ \A k \in Line : store'[k] \subseteq store[k] \cup {a.data}
BY DEF StoreOK, Cached

(***************************************************************************)
(* The ping client.                                                        *)
(***************************************************************************)
LEMMA PingInterestIs ==
  ASSUME ping \in Counting
  PROVE  PingInterest \in Interest /\ PingInterest.run = <<"ping", ping.run>>
<1>1. Distance \in Nat
  BY ProbesAssumption DEF ProbesAssumption
<1> QED
  BY <1>1 DEF PingInterest, Counting, Interest, Names, Runs

LEMMA PingStarts ==
  ASSUME PingOK, PingStart
  PROVE  PingOK'
<1>1. ping.run \in Nat /\ Count \in Nat \ {0}
  BY ProbesAssumption DEF PingOK, Counting, Idle, ProbesAssumption
<1>2. ping' = [pc |-> "ping", run |-> ping.run + 1, seq |-> 0, received |-> 0, nacks |-> 0,
               timeouts |-> 0, stale |-> 0]
  BY DEF PingStart
<1> QED
  BY <1>1, <1>2 DEF PingOK, Counting

(* Each of the three ways a ping ends counts it once, and advances seq     *)
(* (run_client's match).                                                   *)
LEMMA PingCounts ==
  ASSUME PingOK, ping.pc = "ping", ping.seq < Count,
         \/ \E d : ping' = Received(ping, d)
         \/ ping' = [ping EXCEPT !.nacks = @ + 1, !.seq = @ + 1]
         \/ ping' = Lost(ping)
  PROVE  PingOK'
<1>1. /\ ping \in Counting /\ Count \in Nat
      /\ ping.seq = ping.received + ping.nacks + ping.timeouts /\ ping.stale <= ping.received
  BY ProbesAssumption DEF PingOK, Idle, ProbesAssumption
<1> USE DEF Counting
<1>2. ASSUME NEW r \in Nat, NEW n \in Nat, NEW t \in Nat, NEW x \in Nat,
             r + n + t = ping.seq + 1, x <= r,
             ping' = [pc |-> ping.pc, run |-> ping.run, seq |-> ping.seq + 1, received |-> r,
                 nacks |-> n, timeouts |-> t, stale |-> x]
      PROVE  PingOK'
  <2>1. ping.seq + 1 \in 0 .. Count
    BY <1>1
  <2>2. ping' \in Counting
    BY <1>1, <1>2, <2>1
  <2> QED
    BY <1>2, <2>2 DEF PingOK
<1>3. CASE \E d : ping' = Received(ping, d)
  <2>1. PICK d : ping' = Received(ping, d)
    BY <1>3
  <2> DEFINE x == IF d.run = <<"ping", ping.run>> THEN ping.stale ELSE ping.stale + 1
  <2>2. ping' = [pc |-> ping.pc, run |-> ping.run, seq |-> ping.seq + 1, received |-> ping.received + 1,
                 nacks |-> ping.nacks, timeouts |-> ping.timeouts, stale |-> x]
    <3>1. ping' = [ping EXCEPT !.received = ping.received + 1, !.seq = ping.seq + 1, !.stale = x]
      BY <2>1 DEF Received
    <3> HIDE DEF x
    <3> QED
      BY <1>1, <3>1
  <2>3. x \in Nat /\ x <= ping.received + 1
    BY <1>1
  <2> HIDE DEF x
  <2> QED
    BY <1>1, <1>2, <2>2, <2>3
<1>4. CASE ping' = [ping EXCEPT !.nacks = @ + 1, !.seq = @ + 1]
  <2>1. ping' = [pc |-> ping.pc, run |-> ping.run, seq |-> ping.seq + 1, received |-> ping.received,
                 nacks |-> ping.nacks + 1, timeouts |-> ping.timeouts, stale |-> ping.stale]
    BY <1>1, <1>4
  <2> QED
    BY <1>1, <1>2, <2>1
<1>5. CASE ping' = Lost(ping)
  <2>1. ping' = [pc |-> ping.pc, run |-> ping.run, seq |-> ping.seq + 1, received |-> ping.received,
                 nacks |-> ping.nacks, timeouts |-> ping.timeouts + 1, stale |-> ping.stale]
    BY <1>1, <1>5 DEF Lost
  <2> QED
    BY <1>1, <1>2, <2>1
<1> QED
  BY <1>3, <1>4, <1>5

LEMMA PingSteps ==
  ASSUME PingOK, PingStart \/ Ping \/ PingEnds
  PROVE  PingOK'
<1>1. CASE PingStart
  BY <1>1, PingStarts
<1>2. CASE Ping
  BY <1>2, PingCounts DEF Ping, Fetch
<1>3. CASE PingEnds
  BY <1>3 DEF PingEnds, PingOK, Counting, Idle
<1> QED
  BY <1>1, <1>2, <1>3

(***************************************************************************)
(* The stores.                                                             *)
(***************************************************************************)
(* New Data of other runs, or of probes already sent, is no news to a      *)
(* trace.                                                                  *)
LEMMA OthersData ==
  ASSUME StoreOK, SentBefore, UNCHANGED <<trace, fresh>>, NEW a, a.data \in Packet, store' = Cached(a),
         (\E k \in Line : a.data \in store[k]) \/ \A n \in Nat : a.data.run # <<"trace", n>>
  PROVE  SentBefore'
<1>1. \A k \in Line : store'[k] \subseteq store[k] \cup {a.data}
  BY CachedIs
<1>2. SUFFICES ASSUME NEW k \in Line, NEW d \in store'[k], NEW n \in Nat, d.run = <<"trace", n>>
               PROVE  \E j \in Line : d \in store[j]
  BY DEF SentBefore
<1> QED
  BY <1>1, <1>2

LEMMA Aging ==
  ASSUME Inv, Age
  PROVE  Inv'
<1>1. store' = [k \in Line |-> {Aged(d) : d \in store[k]}] /\ UNCHANGED <<fresh, trace, ping>>
  BY DEF Age
<1>2. \A k \in Line : \A d \in store[k] : Aged(d) \in Packet
  <2>1. \A d \in Packet : Aged(d) \in Packet
    BY DEF Packet, Aged
  <2> QED
    BY <2>1 DEF Inv, StoreOK
<1>3. StoreOK'
  BY <1>1, <1>2 DEF Inv, StoreOK
<1>4. SentBefore'
  <2> SUFFICES ASSUME NEW k \in Line, NEW e \in store'[k], NEW n \in Nat, e.run = <<"trace", n>>
               PROVE  /\ trace # Idle(0) /\ n <= trace.run
                      /\ n = trace.run => e.name.seq < trace.seq
    BY <1>1 DEF SentBefore
  <2>1. PICK d \in store[k] : e = Aged(d)
    BY <1>1
  <2>3. e.run = d.run /\ e.name = d.name
    BY <2>1 DEF Aged
  <2> QED
    BY <2>3 DEF Inv, SentBefore
<1>5. PingOK' /\ TraceOK' /\ Ramp'
  BY <1>1 DEF Inv, PingOK, TraceOK, Ramp, Answered, Behind
<1> QED
  BY <1>3, <1>4, <1>5 DEF Inv

(* A step of the ping client leaves the trace what it was.                 *)
LEMMA PingKeeps ==
  ASSUME Inv, PingStart \/ Ping \/ PingEnds
  PROVE  Inv'
<1>1. UNCHANGED <<trace, fresh>>
  BY DEF PingStart, Ping, PingEnds
<1>2. PingOK' /\ TraceOK' /\ Ramp'
  <2>1. PingOK'
    BY PingSteps DEF Inv
  <2> QED
    BY <1>1, <2>1 DEF Inv, TraceOK, Ramp, Answered, Behind
<1>3. CASE UNCHANGED store
  BY <1>1, <1>2, <1>3 DEF Inv, StoreOK, SentBefore
<1>4. CASE Ping /\ \E a \in Answers(PingInterest) : store' = Cached(a)
  <2>1. PICK a \in Answers(PingInterest) : store' = Cached(a)
    BY <1>4
  <2>2. ping \in Counting
    BY <1>4 DEF Inv, PingOK, Idle, Ping
  <2>3. PingInterest \in Interest /\ PingInterest.run = <<"ping", ping.run>>
    BY <2>2, PingInterestIs
  <2>4. /\ a.data \in Packet
        /\ (\E k \in Line : a.data \in store[k]) \/ a.data.run = <<"ping", ping.run>>
    BY <2>3, AnswersAre DEF Inv
  <2>5. \A n \in Nat : <<"ping", ping.run>> # <<"trace", n>>
    OBVIOUS
  <2>6. SentBefore'
    BY <1>1, <2>1, <2>4, <2>5, OthersData DEF Inv
  <2>7. StoreOK'
    BY <1>1, <2>1, <2>4, CachedIs DEF Inv
  <2> QED
    BY <1>2, <2>6, <2>7 DEF Inv
<1> QED
  BY <1>3, <1>4 DEF PingStart, Ping, PingEnds, Fetch

(***************************************************************************)
(* The traceroute.                                                         *)
(***************************************************************************)
LEMMA TraceInterestIs ==
  ASSUME trace \in Tracing
  PROVE  /\ TraceInterest \in Interest
         /\ TraceInterest.run = <<"trace", trace.run>> /\ TraceInterest.probe = trace.seq
         /\ TraceInterest.name.seq = trace.seq /\ TraceInterest.hops = trace.hop
         /\ TraceInterest.marked = trace.identify
BY DEF TraceInterest, ProbeName, Tracing, Interest, Names, Runs

(* A new run has sent nothing yet.                                         *)
LEMMA TraceStarts ==
  ASSUME Inv, TraceStart
  PROVE  Inv'
<1>1. PICK n \in ProbeCounts, identify \in BOOLEAN :
        trace' = [pc |-> "hop", run |-> trace.run + 1, probes |-> n, identify |-> identify,
                  hop |-> 1, tries |-> 0, seq |-> 0, outcome |-> "timeout", reached |-> 0,
                  missed |-> {}, answer |-> None, stale |-> 0]
  BY DEF TraceStart
<1>2. UNCHANGED <<fresh, store, ping>>
  BY DEF TraceStart
<1>3. trace.run \in Nat /\ n \in Nat \ {0} /\ Distance \in Nat \ {0}
  BY ProbesAssumption DEF Inv, TraceOK, Tracing, Idle, ProbesAssumption
<1>4. trace' \in Tracing
  BY <1>1, <1>3 DEF Tracing, None, Server
<1>5. trace' # Idle(0)
  BY <1>1 DEF Idle
<1>6. SentBefore'
  <2> SUFFICES ASSUME NEW k \in Line, NEW d \in store[k], NEW m \in Nat, d.run = <<"trace", m>>
               PROVE  m <= trace.run
    BY <1>1, <1>2, <1>3, <1>5 DEF SentBefore
  <2> QED
    BY DEF Inv, SentBefore
<1>7. Ramp'
  BY <1>1, <1>3 DEF Ramp, Answered, Behind
<1> QED
  BY <1>2, <1>4, <1>6, <1>7 DEF Inv, PingOK, TraceOK, StoreOK

LEMMA IdleIsNotTracing ==
  ASSUME NEW t \in Tracing
  PROVE  t # Idle(0)
BY DEF Tracing, Idle

(* While a hop is probed: what its record holds.                           *)
LEMMA OnHop ==
  ASSUME Inv, trace.pc = "hop"
  PROVE  trace \in Tracing /\ trace.reached = 0
BY DEF Inv, TraceOK, Idle, Ramp, Tracing

(* The next probe's number is above that of all Data of the run.           *)
LEMMA SentNext ==
  ASSUME Inv, trace \in Tracing, trace' \in Tracing,
         trace'.run = trace.run, trace'.seq = trace.seq + 1,
         \A k \in Line : \A d \in store'[k] :
           \/ \E j \in Line : d \in store[j]
           \/ d.run = <<"trace", trace.run>> /\ d.name.seq = trace.seq
  PROVE  SentBefore'
<1>1. trace' # Idle(0) /\ trace.run \in Nat /\ trace.seq \in Nat
  BY IdleIsNotTracing DEF Tracing
<1>2. ASSUME NEW j \in Line, NEW d \in store[j], NEW n \in Nat, d.run = <<"trace", n>>
      PROVE  n <= trace.run /\ (n = trace.run => d.name.seq < trace.seq) /\ d.name.seq \in Nat
  <2>1. d.name.seq \in Nat
    BY DEF Inv, StoreOK, Packet, Names
  <2> QED
    BY <1>2, <2>1 DEF Inv, SentBefore
<1> QED
  BY <1>1, <1>2 DEF SentBefore

(* The Data of a probe, when it is of this run, was made for that probe:   *)
(* it is the server's, or it names the hop (run_client's match).           *)
LEMMA AnswerOfProbe ==
  ASSUME Inv, trace \in Tracing, NEW a \in Answers(TraceInterest)
  PROVE  /\ a.data \in Packet
         /\ \/ \E j \in Line : a.data \in store[j]
            \/ a.data.run = <<"trace", trace.run>> /\ a.data.name.seq = trace.seq
         /\ a.data.run = <<"trace", trace.run>> =>
               /\ a.data.probe = trace.seq
               /\ \/ a.data.by = Server /\ trace.hop >= Distance
                  \/ trace.identify /\ a.data.by = trace.hop /\ trace.hop < Distance /\ trace.hop # Server
<1>1. /\ TraceInterest \in Interest
      /\ TraceInterest.run = <<"trace", trace.run>> /\ TraceInterest.probe = trace.seq
      /\ TraceInterest.name.seq = trace.seq /\ TraceInterest.hops = trace.hop
      /\ TraceInterest.marked = trace.identify
  BY TraceInterestIs
<1>2. /\ a.data \in Packet /\ a.data.name = TraceInterest.name
      /\ \/ \E k \in Line : a.data \in store[k]
         \/ /\ a.data.run = TraceInterest.run /\ a.data.probe = TraceInterest.probe
            /\ \/ a.data.by = Server /\ TraceInterest.hops >= Distance
               \/ TraceInterest.marked /\ a.data.by = TraceInterest.hops
                  /\ TraceInterest.hops < Distance /\ TraceInterest.hops # Server
  BY <1>1, AnswersAre DEF Inv
<1>3. (\E k \in Line : a.data \in store[k]) => a.data.run # <<"trace", trace.run>>
  <2> SUFFICES ASSUME NEW k \in Line, a.data \in store[k], a.data.run = <<"trace", trace.run>>
               PROVE  FALSE
    OBVIOUS
  <2>1. a.data.name.seq < trace.seq
    BY DEF Inv, SentBefore, Tracing
  <2> QED
    BY <1>1, <1>2, <2>1 DEF Tracing
<1> QED
  BY <1>1, <1>2, <1>3

(* What a step does with the traceroute's record, in full.                 *)
Traced(seq, tries, outcome, answer, stale) ==
  [pc |-> "hop", run |-> trace.run, probes |-> trace.probes, identify |-> trace.identify,
   hop |-> trace.hop, tries |-> tries, seq |-> seq, outcome |-> outcome, reached |-> trace.reached,
   missed |-> trace.missed, answer |-> answer, stale |-> stale]

LEMMA TracedIsTracing ==
  ASSUME trace \in Tracing, NEW seq \in Nat, NEW tries \in Nat, NEW o \in {"timeout", "nack", "hop", "reached"},
         NEW answer \in [by : Nat, probe : Nat], NEW stale \in Nat
  PROVE  Traced(seq, tries, o, answer, stale) \in Tracing
<1>1. /\ trace.run \in Nat \ {0} /\ trace.probes \in Nat \ {0} /\ trace.identify \in BOOLEAN
      /\ trace.hop \in Nat \ {0} /\ trace.reached \in Nat /\ trace.missed \in SUBSET Nat
  BY DEF Tracing
<1>2. answer \in [by : Nat, probe : Nat]
  OBVIOUS
<1> QED
  BY <1>1, <1>2 DEF Tracing, Traced

(* A probe that is refused or lost leaves the hop without an answer.       *)
LEMMA Unanswered ==
  ASSUME Inv, trace.pc = "hop", trace.tries < trace.probes, UNCHANGED <<fresh, ping>>,
         \/ trace' = [trace EXCEPT !.seq = @ + 1, !.tries = @ + 1, !.outcome = "nack"]
         \/ trace' = [trace EXCEPT !.seq = @ + 1, !.tries = @ + 1],
         StoreOK',
         \A k \in Line : \A d \in store'[k] :
           \/ \E j \in Line : d \in store[j]
           \/ d.run = <<"trace", trace.run>> /\ d.name.seq = trace.seq
  PROVE  Inv'
<1>1. trace \in Tracing /\ trace.reached = 0
  BY OnHop
<1>2. trace.outcome \notin {"hop", "reached"}
  BY <1>1 DEF Inv, Ramp, Tracing, Idle
<1>3. PICK o \in {"timeout", "nack"} : trace' = Traced(trace.seq + 1, trace.tries + 1, o, trace.answer, trace.stale)
  <2>1. CASE trace' = [trace EXCEPT !.seq = @ + 1, !.tries = @ + 1, !.outcome = "nack"]
    BY <1>1, <2>1 DEF Tracing, Traced
  <2>2. CASE trace' = [trace EXCEPT !.seq = @ + 1, !.tries = @ + 1]
    BY <1>1, <1>2, <2>2 DEF Tracing, Traced
  <2> QED
    BY <2>1, <2>2
<1>4. trace' \in Tracing
  BY <1>1, <1>3 DEF Tracing, Traced
<1>5. SentBefore'
  BY <1>1, <1>3, <1>4, SentNext DEF Traced
<1>6. Ramp'
  <2>1. trace'.reached = 0 /\ trace'.outcome = o /\ trace'.hop = trace.hop /\ trace'.missed = trace.missed
        /\ trace'.stale = trace.stale
    BY <1>1, <1>3 DEF Traced
  <2>2. trace.stale = 0 => Behind
    BY <1>1, IdleIsNotTracing DEF Inv, Ramp
  <2> QED
    BY <2>1, <2>2 DEF Ramp, Answered, Behind
<1> QED
  BY <1>4, <1>5, <1>6 DEF Inv, PingOK, TraceOK

LEMMA ProbeAnswered ==
  ASSUME Inv, trace.pc = "hop", trace.tries < trace.probes, UNCHANGED <<fresh, ping>>,
         NEW a \in Answers(TraceInterest), store' = Cached(a),
         trace' = [trace EXCEPT !.seq = @ + 1, !.tries = trace.probes, !.outcome = Outcome(a.data),
                                !.answer = [by |-> a.data.by, probe |-> a.data.probe],
                                !.stale = IF a.data.run = <<"trace", trace.run>> THEN @ ELSE @ + 1]
  PROVE  Inv'
<1>1. trace \in Tracing /\ trace.reached = 0
  BY OnHop
<1>2. /\ a.data \in Packet
      /\ \/ \E j \in Line : a.data \in store[j]
         \/ a.data.run = <<"trace", trace.run>> /\ a.data.name.seq = trace.seq
      /\ a.data.run = <<"trace", trace.run>> =>
            /\ a.data.probe = trace.seq
            /\ \/ a.data.by = Server /\ trace.hop >= Distance
               \/ trace.identify /\ a.data.by = trace.hop /\ trace.hop < Distance /\ trace.hop # Server
  BY <1>1, AnswerOfProbe
<1> DEFINE stale == IF a.data.run = <<"trace", trace.run>> THEN trace.stale ELSE trace.stale + 1
           answer == [by |-> a.data.by, probe |-> a.data.probe]
<1>3. trace' = Traced(trace.seq + 1, trace.probes, Outcome(a.data), answer, stale)
  <2>1. trace' = [trace EXCEPT !.seq = trace.seq + 1, !.tries = trace.probes, !.outcome = Outcome(a.data),
                               !.answer = answer, !.stale = stale]
    OBVIOUS
  <2> HIDE DEF answer, stale
  <2> QED
    BY <1>1, <2>1 DEF Tracing, Traced
<1>4. trace' \in Tracing
  <2>1. answer \in [by : Nat, probe : Nat] /\ Outcome(a.data) \in {"hop", "reached"} /\ stale \in Nat
    BY <1>1, <1>2 DEF Packet, Tracing, Outcome
  <2>2. trace.seq + 1 \in Nat /\ trace.probes \in Nat
    BY <1>1 DEF Tracing
  <2> HIDE DEF answer, stale
  <2> QED
    BY <1>1, <1>3, <2>1, <2>2, TracedIsTracing
<1>5. StoreOK' /\ SentBefore'
  <2>1. StoreOK' /\ \A k \in Line : store'[k] \subseteq store[k] \cup {a.data}
    BY <1>2, CachedIs DEF Inv
  <2>2. trace'.run = trace.run /\ trace'.seq = trace.seq + 1
    BY <1>3 DEF Traced
  <2>3. \A k \in Line : \A d \in store'[k] :
           \/ \E j \in Line : d \in store[j]
           \/ d.run = <<"trace", trace.run>> /\ d.name.seq = trace.seq
    BY <1>2, <2>1
  <2> QED
    BY <1>1, <1>4, <2>1, <2>2, <2>3, SentNext
<1>6. Ramp'
  <2>1. /\ trace'.pc = "hop" /\ trace'.reached = 0 /\ trace'.tries = trace'.probes
        /\ trace'.hop = trace.hop /\ trace'.missed = trace.missed /\ trace'.seq = trace.seq + 1
        /\ trace'.outcome = Outcome(a.data) /\ trace'.answer = answer /\ trace'.stale = stale
    BY <1>1, <1>3 DEF Traced
  <2>2. SUFFICES ASSUME stale = 0 PROVE (Answered /\ Behind)'
    <3> HIDE DEF answer, stale
    <3> QED
      BY <2>1 DEF Ramp
  <2>0. trace.stale = 0 /\ a.data.run = <<"trace", trace.run>>
    BY <1>1, <2>2 DEF Tracing
  <2>3. Behind
    BY <1>1, <2>0, IdleIsNotTracing DEF Inv, Ramp
  <2>4. answer.probe = trace.seq /\ answer.by = a.data.by /\ trace.seq \in Nat
    BY <1>1, <1>2, <2>0 DEF Tracing
  <2>5. Answered'
    <3>1. CASE a.data.by = Server /\ trace.hop >= Distance
      BY <2>1, <2>4, <3>1 DEF Answered, Outcome
    <3>2. CASE trace.identify /\ a.data.by = trace.hop /\ trace.hop < Distance /\ trace.hop # Server
      BY <2>1, <2>4, <3>2 DEF Answered, Outcome
    <3> QED
      BY <1>2, <2>0, <3>1, <3>2
  <2> QED
    BY <2>1, <2>3, <2>5 DEF Behind
<1> QED
  BY <1>4, <1>5, <1>6 DEF Inv, PingOK, TraceOK

(* One probe, whatever its Interest meets (run_client's inner loop).       *)
LEMMA Probing ==
  ASSUME Inv, Probe
  PROVE  Inv'
<1>1. trace.pc = "hop" /\ trace.tries < trace.probes /\ UNCHANGED <<fresh, ping>>
  BY DEF Probe
<1>2. trace \in Tracing
  BY <1>1, OnHop
<1>3. CASE UNCHANGED store
  <2>1. StoreOK' /\ \A k \in Line : \A d \in store'[k] : \E j \in Line : d \in store[j]
    BY <1>1, <1>3 DEF Inv, StoreOK
  <2>2. CASE \/ trace' = [trace EXCEPT !.seq = @ + 1, !.tries = @ + 1, !.outcome = "nack"]
             \/ trace' = [trace EXCEPT !.seq = @ + 1, !.tries = @ + 1]
    BY <1>1, <2>1, <2>2, Unanswered
  <2>3. CASE \E a \in Answers(TraceInterest) : store' = Cached(a)
                /\ trace' = [trace EXCEPT !.seq = @ + 1, !.tries = trace.probes, !.outcome = Outcome(a.data),
                                !.answer = [by |-> a.data.by, probe |-> a.data.probe],
                                !.stale = IF a.data.run = <<"trace", trace.run>> THEN @ ELSE @ + 1]
    BY <1>1, <2>3, ProbeAnswered
  <2> QED
    BY <2>2, <2>3 DEF Probe, Fetch
<1>4. CASE \E a \in Answers(TraceInterest) : store' = Cached(a)
  <2>1. PICK a \in Answers(TraceInterest) :
          /\ store' = Cached(a)
          /\ \/ trace' = [trace EXCEPT !.seq = @ + 1, !.tries = trace.probes, !.outcome = Outcome(a.data),
                                !.answer = [by |-> a.data.by, probe |-> a.data.probe],
                                !.stale = IF a.data.run = <<"trace", trace.run>> THEN @ ELSE @ + 1]
             \/ trace' = [trace EXCEPT !.seq = @ + 1, !.tries = @ + 1]
             \/ UNCHANGED store
    BY <1>4 DEF Probe, Fetch
  <2>2. CASE trace' = [trace EXCEPT !.seq = @ + 1, !.tries = @ + 1]
    <3>1. /\ a.data \in Packet
          /\ \/ \E j \in Line : a.data \in store[j]
             \/ a.data.run = <<"trace", trace.run>> /\ a.data.name.seq = trace.seq
      BY <1>2, AnswerOfProbe
    <3>2. StoreOK' /\ \A k \in Line : store'[k] \subseteq store[k] \cup {a.data}
      BY <1>1, <2>1, <3>1, CachedIs DEF Inv
    <3>3. \A k \in Line : \A d \in store'[k] :
             \/ \E j \in Line : d \in store[j]
             \/ d.run = <<"trace", trace.run>> /\ d.name.seq = trace.seq
      BY <3>1, <3>2
    <3> QED
      BY <1>1, <2>2, <3>2, <3>3, Unanswered
  <2> QED
    BY <1>1, <1>3, <2>1, <2>2, ProbeAnswered
<1> QED
  BY <1>3, <1>4 DEF Probe, Fetch

(* The summary, or the next hop: the hops behind the new one were missed,  *)
(* if the server is not beyond them (run_client's outer loop).             *)
LEMMA HopEnds ==
  ASSUME Inv, HopDone
  PROVE  Inv'
<1>1. trace.pc = "hop" /\ trace.tries = trace.probes /\ UNCHANGED <<fresh, store, ping>>
  BY DEF HopDone
<1>2. trace \in Tracing /\ trace.reached = 0
  BY <1>1, OnHop
<1> DEFINE missed == IF trace.outcome = "timeout" THEN trace.missed \cup {trace.hop} ELSE trace.missed
           Record(pc, hop, tries, outcome, reached) ==
             [pc |-> pc, run |-> trace.run, probes |-> trace.probes, identify |-> trace.identify,
              hop |-> hop, tries |-> tries, seq |-> trace.seq, outcome |-> outcome, reached |-> reached,
              missed |-> missed, answer |-> trace.answer, stale |-> trace.stale]
<1>3. \/ trace.outcome = "reached" /\ trace' = Record("done", trace.hop, trace.tries, trace.outcome, trace.hop)
      \/ trace.outcome # "reached" /\ trace' = Record("done", trace.hop, trace.tries, trace.outcome, 0)
      \/ /\ trace.outcome \in {"hop", "timeout"}
         /\ trace' = Record("hop", trace.hop + 1, 0, "timeout", 0)
  <2>1. /\ trace.outcome = "reached" => trace' = [trace EXCEPT !.pc = "done", !.missed = missed, !.reached = trace.hop]
        /\ trace.outcome = "nack" => trace' = [trace EXCEPT !.pc = "done", !.missed = missed]
        /\ trace.outcome \in {"hop", "timeout"} =>
             \/ trace' = [trace EXCEPT !.pc = "done", !.missed = missed]
             \/ trace' = [trace EXCEPT !.pc = "hop", !.missed = missed, !.hop = trace.hop + 1, !.tries = 0,
                                       !.outcome = "timeout"]
    <3> DEFINE over == [trace EXCEPT !.pc = "done", !.missed = missed]
    <3>1. /\ trace.outcome = "reached" => trace' = [over EXCEPT !.reached = trace.hop]
          /\ trace.outcome = "nack" => trace' = over
          /\ trace.outcome \in {"hop", "timeout"} =>
               \/ trace' = over
               \/ trace' = [over EXCEPT !.pc = "hop", !.hop = @ + 1, !.tries = 0, !.outcome = "timeout"]
      BY DEF HopDone
    <3> HIDE DEF missed
    <3> QED
      BY <1>2, <3>1 DEF Tracing
  <2>2. trace.outcome \in {"timeout", "nack", "hop", "reached"}
    BY <1>2 DEF Tracing
  <2> HIDE DEF missed
  <2>3. ASSUME trace' = [trace EXCEPT !.pc = "done", !.missed = missed, !.reached = trace.hop]
        PROVE  trace' = Record("done", trace.hop, trace.tries, trace.outcome, trace.hop)
    BY <1>2, <2>3 DEF Tracing
  <2>4. ASSUME trace' = [trace EXCEPT !.pc = "done", !.missed = missed]
        PROVE  trace' = Record("done", trace.hop, trace.tries, trace.outcome, 0)
    BY <1>2, <2>4 DEF Tracing
  <2>5. ASSUME trace' = [trace EXCEPT !.pc = "hop", !.missed = missed, !.hop = trace.hop + 1, !.tries = 0,
                                      !.outcome = "timeout"]
        PROVE  trace' = Record("hop", trace.hop + 1, 0, "timeout", 0)
    BY <1>2, <2>5 DEF Tracing
  <2> HIDE DEF Record
  <2> QED
    BY <2>1, <2>2, <2>3, <2>4, <2>5
<1>4. missed \in SUBSET Nat /\ trace.hop \in Nat \ {0}
  BY <1>2 DEF Tracing
<1>5. trace' \in Tracing
  <2>1. /\ trace.run \in Nat \ {0} /\ trace.probes \in Nat \ {0} /\ trace.identify \in BOOLEAN
        /\ trace.tries \in Nat /\ trace.seq \in Nat /\ trace.answer \in [by : Nat, probe : Nat]
        /\ trace.stale \in Nat /\ trace.outcome \in {"timeout", "nack", "hop", "reached"}
    BY <1>2 DEF Tracing
  <2> HIDE DEF missed
  <2>2. ASSUME NEW pc \in {"hop", "done"}, NEW hop \in Nat \ {0}, NEW tries \in Nat,
               NEW o \in {"timeout", "nack", "hop", "reached"}, NEW reached \in Nat
        PROVE  Record(pc, hop, tries, o, reached) \in Tracing
    BY <1>4, <2>1 DEF Tracing
  <2>3. trace.hop + 1 \in Nat \ {0} /\ trace.hop \in Nat
    BY <1>4
  <2> HIDE DEF Record
  <2> QED
    BY <1>3, <1>4, <2>1, <2>2, <2>3
<1>6. trace'.run = trace.run /\ trace'.seq = trace.seq /\ trace'.stale = trace.stale /\ trace'.missed = missed
      /\ trace'.answer = trace.answer
  <2> HIDE DEF missed
  <2> QED
    BY <1>3
<1>7. SentBefore'
  BY <1>1, <1>2, <1>5, <1>6, IdleIsNotTracing DEF Inv, SentBefore
<1>8. Ramp'
  <2>1. /\ trace.stale = 0 => Answered /\ Behind
        /\ trace.outcome \in {"timeout", "nack", "hop", "reached"}
        /\ Distance \in Nat \ {0}
    BY <1>1, <1>2, IdleIsNotTracing, ProbesAssumption DEF Inv, Ramp, Tracing, ProbesAssumption
  <2>2. CASE trace'.pc = "done"
    <3>1. /\ trace'.hop = trace.hop /\ trace'.outcome = trace.outcome
          /\ trace'.reached # 0 => trace.outcome = "reached" /\ trace'.reached = trace.hop
      BY <1>3, <2>2
    <3> QED
      BY <1>6, <2>1, <2>2, <3>1 DEF Ramp, Answered, Behind
  <2>3. CASE trace'.pc = "hop"
    <3>1. /\ trace'.hop = trace.hop + 1 /\ trace'.outcome = "timeout" /\ trace'.reached = 0
          /\ trace.outcome \in {"hop", "timeout"}
      BY <1>3, <2>3
    <3>2. trace.stale = 0 => Behind'
      <4> SUFFICES ASSUME trace.stale = 0, NEW h \in Nat, Distance <= h, h < trace.hop + 1
                   PROVE  h \in missed
        BY <1>6, <3>1 DEF Behind
      <4>1. CASE h < trace.hop
        BY <2>1, <4>1 DEF Behind
      <4>2. CASE h = trace.hop
        BY <2>1, <3>1, <4>2 DEF Answered
      <4> QED
        BY <1>4, <4>1, <4>2
    <3> QED
      BY <1>6, <2>3, <3>1, <3>2 DEF Ramp, Answered
  <2> QED
    BY <1>3, <2>2, <2>3
<1> QED
  BY <1>1, <1>5, <1>7, <1>8 DEF Inv, PingOK, TraceOK, StoreOK

LEMMA Failing ==
  ASSUME Inv, TraceFails
  PROVE  Inv'
<1>1. trace.pc = "hop" /\ trace' = [trace EXCEPT !.pc = "failed"] /\ UNCHANGED <<fresh, store, ping>>
  BY DEF TraceFails
<1>2. trace \in Tracing
  BY <1>1, OnHop
<1>3. trace' \in Tracing /\ trace'.run = trace.run /\ trace'.seq = trace.seq /\ trace'.pc = "failed"
  BY <1>1, <1>2 DEF Tracing
<1>4. SentBefore'
  BY <1>1, <1>2, <1>3, IdleIsNotTracing DEF Inv, SentBefore
<1> QED
  BY <1>1, <1>3, <1>4 DEF Inv, PingOK, TraceOK, StoreOK, Ramp
(***************************************************************************)
(* Every step.                                                             *)
(***************************************************************************)
LEMMA NextInv ==
  ASSUME Inv, [ProbesNext]_probeVars
  PROVE  Inv'
<1>1. CASE TraceStart
  BY <1>1, TraceStarts
<1>2. CASE Probe
  BY <1>2, Probing
<1>3. CASE TraceFails
  BY <1>3, Failing
<1>4. CASE HopDone
  BY <1>4, HopEnds
<1>5. CASE PingStart \/ Ping \/ PingEnds
  BY <1>5, PingKeeps
<1>6. CASE Age
  BY <1>6, Aging
<1>7. CASE UNCHANGED probeVars
  BY <1>7 DEF probeVars, Inv, PingOK, TraceOK, StoreOK, SentBefore, Ramp, Answered, Behind
<1> QED
  BY <1>1, <1>2, <1>3, <1>4, <1>5, <1>6, <1>7 DEF ProbesNext

(* What holds of both tools and of the stores, in every state.             *)
THEOREM Invariance == ProbesSpec => []Inv
<1>1. ProbesInit => Inv
  BY InitInv
<1>2. Inv /\ [ProbesNext]_probeVars => Inv'
  BY NextInv
<1> QED
  BY <1>1, <1>2, PTL DEF ProbesSpec

(* run_client of ping.rs: every ping is counted once, as answered, refused *)
(* or lost, also when the content store answers.                           *)
THEOREM PingReportHolds == ProbesSpec => []PingReport
<1>1. Inv => PingReport
  <2> SUFFICES ASSUME Inv, ping.pc # "idle" PROVE PingReport
    BY DEF PingReport
  <2>1. ping \in Counting /\ Count \in Nat
    BY ProbesAssumption DEF Inv, PingOK, Idle, ProbesAssumption
  <2> QED
    BY <2>1 DEF Inv, PingOK, PingReport, Counting, Idle
<1> QED
  BY <1>1, Invariance, PTL

(* run_client of traceroute.rs: without stale Data the distance reported   *)
(* is the server's, but for hops that were missed, a hop that names itself *)
(* is the one asked, and no probe has an earlier one's answer.             *)
THEOREM TraceInvHolds == ProbesSpec => []TraceInv
<1>1. Inv => TraceInv
  <2> SUFFICES ASSUME Inv, trace.pc \in {"hop", "done"}, trace.stale = 0 PROVE TraceInv
    BY DEF TraceInv, TraceIsTrue, ProbesAreFresh
  <2>1. trace \in Tracing /\ trace # Idle(0) /\ Distance \in Nat \ {0}
    BY ProbesAssumption DEF Inv, TraceOK, Idle, ProbesAssumption
  <2>2. /\ Answered /\ Behind
        /\ trace.reached # 0 => trace.reached = trace.hop /\ trace.outcome = "reached"
    BY <2>1 DEF Inv, Ramp
  <2>3. trace.reached # 0 => Distance .. trace.reached - 1 \subseteq trace.missed
    BY <2>1, <2>2 DEF Behind, Tracing
  <2> QED
    BY <2>2, <2>3 DEF TraceInv, TraceIsTrue, ProbesAreFresh, Answered
<1> QED
  BY <1>1, Invariance, PTL

=============================================================================

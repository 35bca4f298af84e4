---------------------------- MODULE MonitorsProofs ----------------------------
(***************************************************************************)
(* Proofs about RadioFace, for any radio faces and radios, any dongles,    *)
(* and any names, routes and numbers of changes; about Monitors, for any   *)
(* face slots and numbers of drops and ticks; and about OtelBridge, for    *)
(* any set of spans, batch size and number of lost confirmations.          *)
(***************************************************************************)
EXTENDS MCMonitors, WellFoundedInduction, FiniteSetTheorems, TLAPS

(* The threads of the bring-up, and who holds which dongle.                *)
States == {"none", "opening", "claimed", "up", "failed"}
BootOK ==
  /\ cur \in All /\ thread \in [All -> States] /\ claim \in [Dongles -> SUBSET All]
Claims ==
  /\ \A r \in All : thread[r] = "claimed" => DeviceOf(r).usb
  /\ \A r \in All : thread[r] \in {"claimed", "up"} /\ DeviceOf(r).usb => claim[Wanted(r)] = {r}
  /\ \A d \in Dongles : \A r \in claim[d] : thread[r] \in {"claimed", "up"}

(* The faces are set up in their order, and each has a radio.              *)
InOrder ==
  /\ \A f \in Faces : f < cur[1] => Built(f) # {}
  /\ phase = "up" => \A f \in Faces : Built(f) # {}

(* What a face's contexts and demand were derived from: the prefixes that  *)
(* were routed through it then, whatever the FIB has become since.         *)
Contexts(S) == IF S = {} THEN {Root} ELSE {Key(p) : p \in S}
Derived ==
  /\ ctxs = [f \in Faces |-> ctxs[f]] /\ demand = [f \in Faces |-> demand[f]]
  /\ known = [f \in Faces |-> known[f]] /\ asked = [f \in Faces |-> asked[f]]
  /\ \A f \in Faces : ctxs[f] \in {{}, Contexts(known[f])}
  /\ \A f \in Faces : demand[f] # {} => \E p \in asked[f] : demand[f] = {Key(p)}

Inv == BootOK /\ Claims /\ InOrder /\ Derived

(* Every set of naturals that has a member has a smallest one.             *)
LEMMA Smallest ==
  ASSUME NEW S, S \subseteq Nat, S # {}
  PROVE  \E n \in S : \A m \in S : n <= m
<1>1. PICK R : /\ \A x, y \in Nat : <<y, x>> \in R <=> y < x
               /\ IsWellFoundedOn(R, Nat)
  <2> DEFINE R == OpToRel(<, Nat)
  <2>1. IsWellFoundedOn(R, Nat)
    BY NatLessThanWellFounded
  <2>2. \A x, y \in Nat : <<y, x>> \in R <=> y < x
    BY DEF OpToRel
  <2> HIDE DEF R
  <2> QED
    BY <2>1, <2>2
<1>2. PICK x \in S : \A y \in S : <<y, x>> \notin R
  BY <1>1, WFMin
<1>3. \A y \in S : ~ (y < x)
  BY <1>1, <1>2
<1> QED
  BY <1>3

LEMMA RadiosAre ==
  /\ \A f \in Faces : f \in Nat /\ Len(Radios[f]) \in 1 .. 4
  /\ \A r \in All : /\ r = <<r[1], r[2]>> /\ r[1] \in Faces
                    /\ r[2] \in 1 .. Len(Radios[r[1]])
  /\ \A f \in Faces : \A i \in 1 .. Len(Radios[f]) : <<f, i>> \in All
<1>1. \A f \in Faces : f \in Nat /\ Len(Radios[f]) \in 1 .. 4
  BY RadioFaceAssumption DEF RadioFaceAssumption, Faces
<1>2. ASSUME NEW r \in All
      PROVE  /\ r = <<r[1], r[2]>> /\ r[1] \in Faces
             /\ r[2] \in 1 .. Len(Radios[r[1]])
  <2>1. PICK f \in Faces, i \in 1 .. 4 : r = <<f, i>>
    BY DEF All, Ids
  <2>2. i <= Len(Radios[f])
    BY <2>1 DEF All
  <2> QED
    BY <1>1, <2>1, <2>2
<1>3. ASSUME NEW f \in Faces, NEW i \in 1 .. Len(Radios[f])
      PROVE  <<f, i>> \in All
  <2>1. PICK n \in 1 .. 4 : n = Len(Radios[f])
    BY <1>1
  <2>a. i \in 1 .. n
    BY <2>1, Zenon
  <2>b. i \in 1 .. 4 /\ i <= n
    BY <2>a
  <2>2. i \in 1 .. 4 /\ i <= Len(Radios[f])
    BY <2>1, <2>b, Zenon
  <2>3. <<f, i>> \in Ids
    BY <2>2 DEF Ids
  <2> QED
    BY <2>2, <2>3 DEF All
<1> QED
  BY <1>1, <1>2, <1>3

(* device_select finds a dongle of the host.                               *)
LEMMA WantedIs == \A r \in All : Wanted(r) \in Dongles
<1> SUFFICES ASSUME NEW r \in All PROVE Wanted(r) \in Dongles
  OBVIOUS
<1>1. DeviceOf(r).address \in Dongles \cup {Unset}
  <2> DEFINE R == [usb : BOOLEAN, address : Dongles \cup {Unset}]
  <2>1. Radios \in Seq(Seq(R)) /\ r[1] \in DOMAIN Radios
    BY RadiosAre, RadioFaceAssumption DEF RadioFaceAssumption, Faces
  <2>2. Radios[r[1]] \in Seq(R)
    <3> HIDE DEF R
    <3> QED
      BY <2>1
  <2>3. Radios[r[1]][r[2]] \in R
    <3> HIDE DEF R
    <3> QED
      BY <2>2, RadiosAre
  <2> QED
    BY <2>3 DEF DeviceOf
<1>2. \E d \in Dongles : \A e \in Dongles : d <= e
  BY Smallest, RadioFaceAssumption DEF RadioFaceAssumption
<1> QED
  BY <1>1, <1>2 DEF Wanted

(* The FIB's longest match is a match.                                     *)
LEMMA LongestIs ==
  ASSUME NEW name \in NamePrefixes, Matches(name) # {}
  PROVE  Longest(name) \in Matches(name)
<1>1. \A p \in NamePrefixes : Len(p) \in Nat
  BY RadioFaceAssumption DEF RadioFaceAssumption
<1>2. ASSUME NEW p \in Matches(name)
      PROVE  p \in NamePrefixes /\ Len(p) <= Len(name)
  <2>1. p \in NamePrefixes /\ IsPrefix(p, name)
    BY DEF Matches
  <2> QED
    BY <2>1 DEF IsPrefix
<1> DEFINE S == {Len(name) - Len(p) : p \in Matches(name)}
<1>3. S \subseteq Nat /\ S # {}
  BY <1>1, <1>2
<1>4. PICK n \in S : \A m \in S : n <= m
  <2> HIDE DEF S
  <2> QED
    BY <1>3, Smallest
<1>5. PICK p \in Matches(name) : n = Len(name) - Len(p)
  OBVIOUS
<1>6. ASSUME NEW q \in Matches(name)
      PROVE  Len(q) <= Len(p)
  <2>1. n <= Len(name) - Len(q)
    BY <1>4
  <2> QED
    BY <2>1, <1>1, <1>2, <1>5
<1> QED
  BY <1>6 DEF Longest

LEMMA InitInv == RadioInit => Inv
<1> SUFFICES ASSUME RadioInit PROVE Inv
  OBVIOUS
<1> USE DEF RadioInit, Boot
<1>1. BootOK
  <2>1. 1 \in Faces
    <3> DEFINE R == Seq([usb : BOOLEAN, address : Dongles \cup {Unset}])
    <3>1. Radios \in Seq(R) /\ Radios # <<>>
      BY RadioFaceAssumption DEF RadioFaceAssumption
    <3> HIDE DEF R
    <3> QED
      BY <3>1 DEF Faces
  <2>a. PICK n \in 1 .. 4 : n = Len(Radios[1])
    BY <2>1, RadiosAre
  <2>b. 1 \in 1 .. n
    OBVIOUS
  <2>2. 1 \in 1 .. Len(Radios[1])
    BY <2>a, <2>b, Zenon
  <2> QED
    BY <2>1, <2>2, RadiosAre DEF BootOK, States
<1>2. Claims
  BY DEF Claims
<1>3. InOrder
  BY RadiosAre, RadioFaceAssumption DEF InOrder, RadioFaceAssumption, Faces
<1>4. Derived
  BY DEF Derived
<1> QED
  BY <1>1, <1>2, <1>3, <1>4 DEF Inv

(* What a step that leaves the bring-up, or the cognition, alone keeps.    *)
LEMMA BootKept == BootOK /\ Claims /\ InOrder /\ UNCHANGED boot => BootOK' /\ Claims' /\ InOrder'
BY DEF boot, BootOK, Claims, InOrder, Built
LEMMA CognitionKept == Derived /\ UNCHANGED cognition => Derived'
BY DEF cognition, routing, Derived, Contexts

(* A radio that is up stays up, so a face that is built stays built.       *)
LEMMA BuiltStays ==
  ASSUME InOrder, UNCHANGED <<phase, cur>>,
         \A r \in All : thread[r] = "up" => thread'[r] = "up"
  PROVE  InOrder'
<1>1. \A f \in Faces : Built(f) # {} => Built(f)' # {}
  BY DEF Built
<1> QED
  BY <1>1 DEF InOrder

(* The threads: a claim is taken on a free dongle, kept with the bearer,   *)
(* and given back when opening fails or comes too late.                    *)
LEMMA ThreadSteps ==
  ASSUME Inv, NEW r \in All, Claim(r) \/ OpenFails(r) \/ Opens(r)
  PROVE  Inv'
<1> USE DEF Inv, BootOK, States
<1>1. Derived'
  BY CognitionKept DEF Claim, OpenFails, Opens
<1>2. CASE Claim(r)
  <2>1. BootOK'
    BY <1>2, WantedIs DEF Claim
  <2>2. Claims'
    <3>1. /\ thread' = [thread EXCEPT ![r] = "claimed"] /\ DeviceOf(r).usb
          /\ claim[Wanted(r)] = {} /\ claim' = [claim EXCEPT ![Wanted(r)] = {r}]
      BY <1>2 DEF Claim
    <3>2. \A q \in All : thread[q] \in {"claimed", "up"} /\ DeviceOf(q).usb => Wanted(q) # Wanted(r)
      BY <3>1 DEF Claims
    <3> QED
      BY <3>1, <3>2, WantedIs DEF Claims
  <2>3. InOrder'
    BY <1>2, BuiltStays DEF Claim, Opening
  <2> QED
    BY <1>1, <2>1, <2>2, <2>3
<1>3. CASE /\ thread' = [thread EXCEPT ![r] = "failed"] /\ Release(r)
          /\ thread[r] # "up" /\ UNCHANGED <<phase, cur>>
  <2>1. BootOK'
    BY <1>3 DEF Release
  <2>2. Claims'
    <3>1. /\ thread' = [thread EXCEPT ![r] = "failed"]
          /\ \A d \in Dongles : claim'[d] = claim[d] \ {r}
      BY <1>3 DEF Release
    <3>2. ASSUME NEW q \in All, thread'[q] \in {"claimed", "up"}, DeviceOf(q).usb
          PROVE  claim'[Wanted(q)] = {q}
      BY <3>1, <3>2, WantedIs DEF Claims
    <3> QED
      BY <3>1, <3>2 DEF Claims
  <2>3. InOrder'
    BY <1>3, BuiltStays
  <2> QED
    BY <1>1, <2>1, <2>2, <2>3
<1>4. CASE Opens(r) /\ r \notin late
  <2>1. BootOK'
    BY <1>4 DEF Opens
  <2>2. Claims'
    BY <1>4, WantedIs DEF Opens, Opening, Claims
  <2>3. InOrder'
    BY <1>4, BuiltStays DEF Opens
  <2> QED
    BY <1>1, <2>1, <2>2, <2>3
<1> QED
  BY <1>2, <1>3, <1>4 DEF OpenFails, Opens, Opening

(* The startup: radio after radio, face after face.                        *)
LEMMA StartupSteps ==
  ASSUME Inv, BringUp \/ TimeOut \/ NextRadio \/ Exit \/ Mount
  PROVE  Inv'
<1> USE DEF Inv
<1>1. Derived'
  BY CognitionKept DEF BringUp, TimeOut, NextRadio, Exit, Mount
<1>2. CASE BringUp
  <2>1. BootOK'
    BY <1>2 DEF BringUp, BootOK, States
  <2>2. Claims'
    BY <1>2 DEF BringUp, Claims, BootOK
  <2>3. InOrder'
    BY <1>2, BuiltStays DEF BringUp, BootOK
  <2> QED
    BY <1>1, <2>1, <2>2, <2>3
<1>3. CASE TimeOut \/ Exit
  <2>1. BootOK' /\ Claims'
    BY <1>3 DEF TimeOut, Exit, BootOK, Claims
  <2>2. UNCHANGED <<cur, thread>> /\ (phase' = "up" => phase = "up")
    BY <1>3 DEF TimeOut, Exit
  <2>3. InOrder'
    BY <2>2 DEF InOrder, Built
  <2> QED
    BY <1>1, <2>1, <2>3
<1>4. CASE NextRadio
  <2>1. cur' = <<cur[1], cur[2] + 1>>
    BY <1>4 DEF NextRadio, After
  <2>2. cur' \in All
    <3>1. PICK n \in 1 .. 4 : n = Len(Radios[cur[1]])
      BY RadiosAre DEF BootOK
    <3>2. cur[2] \in 1 .. n
      BY <3>1, RadiosAre, Zenon DEF BootOK
    <3>3. cur[2] # n
      BY <1>4, <3>1, Zenon DEF NextRadio, IsLast
    <3>4. cur[2] + 1 \in 1 .. n
      BY <3>2, <3>3
    <3> QED
      BY <2>1, <3>1, <3>4, RadiosAre, Zenon DEF BootOK
  <2> QED
    <3>1. BootOK' /\ Claims'
      BY <1>4, <2>2 DEF NextRadio, BootOK, Claims
    <3>2. UNCHANGED <<phase, thread>> /\ cur'[1] = cur[1]
      BY <1>4, <2>1 DEF NextRadio
    <3>3. InOrder'
      BY <3>2 DEF InOrder, Built
    <3> QED
      BY <1>1, <3>1, <3>3
<1>5. CASE Mount
  <2>1. Claims'
    BY <1>5 DEF Mount, Claims
  <2>2. /\ cur[1] \in Faces /\ Built(cur[1]) # {}
        /\ UNCHANGED <<thread, claim>>
    BY <1>5, RadiosAre DEF Mount, BootOK
  <2>3. CASE cur[1] + 1 \in Faces
    <3>1. cur' = <<cur[1] + 1, 1>> /\ UNCHANGED phase
      BY <1>5, <2>3 DEF Mount, After
    <3>2. 1 \in 1 .. Len(Radios[cur[1] + 1])
      <4>1. PICK n \in 1 .. 4 : n = Len(Radios[cur[1] + 1])
        BY <2>3, RadiosAre
      <4>2. 1 \in 1 .. n
        OBVIOUS
      <4> QED
        BY <4>1, <4>2, Zenon
    <3>3. cur' \in All
      BY <3>1, <3>2, <2>3, RadiosAre
    <3>4. \A f \in Faces : f < cur[1] + 1 => Built(f) # {}
      BY <2>2, RadiosAre DEF InOrder
    <3>5. InOrder'
      BY <2>2, <3>1, <3>4, <1>5 DEF InOrder, Built, Mount
    <3> QED
      BY <1>1, <2>1, <2>2, <3>3, <3>5 DEF BootOK
  <2>4. CASE cur[1] + 1 \notin Faces
    <3>1. phase' = "up" /\ UNCHANGED cur
      BY <1>5, <2>4 DEF Mount
    <3>2. \A f \in Faces : f <= cur[1]
      <4>1. Len(Radios) \in Nat /\ Faces = 1 .. Len(Radios)
        BY RadioFaceAssumption DEF RadioFaceAssumption, Faces
      <4> QED
        BY <4>1, <2>2, <2>4
    <3>3. \A f \in Faces : Built(f) # {}
      BY <2>2, <3>2, RadiosAre DEF InOrder
    <3>4. InOrder'
      BY <2>2, <3>3 DEF InOrder, Built
    <3> QED
      BY <1>1, <2>1, <2>2, <3>1, <3>4 DEF BootOK
  <2> QED
    BY <2>3, <2>4
<1> QED
  BY <1>2, <1>3, <1>4, <1>5

(* The cognition: a route changes neither contexts nor demand; each of the *)
(* two is derived from the routes of its own moment.                       *)
LEMMA RouteStep ==
  ASSUME Inv, NEW p, NEW nh, Route(p, nh)
  PROVE  Inv'
BY BootKept DEF Inv, Route, Derived, Contexts

LEMMA EgressStep ==
  ASSUME Inv, NEW f \in Faces, NEW name \in NamePrefixes, Egress(f, name)
  PROVE  Inv'
<1>1. Longest(name) \in Routed(f)
  BY LongestIs DEF Egress, Matches, Routed
<1>2. Inv /\ BootOK' /\ Claims' /\ InOrder'
  BY BootKept DEF Inv, Egress
<1>3. /\ demand' = [demand EXCEPT ![f] = {Key(Longest(name))}]
      /\ asked' = [asked EXCEPT ![f] = Routed(f)] /\ UNCHANGED <<ctxs, known>>
  BY DEF Egress, PrefixKey
<1> QED
  BY <1>1, <1>2, <1>3 DEF Inv, Derived, Contexts

LEMMA LoopSteps ==
  ASSUME Inv, NEW f \in Faces, Refresh(f) \/ Neighbour(f) \/ Gate(f)
  PROVE  Inv'
<1> USE DEF Inv
<1>1. BootOK' /\ Claims' /\ InOrder'
  BY BootKept DEF Refresh, Neighbour, Gate
<1>2. CASE Refresh(f)
  <2>1. /\ ctxs' = [ctxs EXCEPT ![f] = ActiveContexts(f)]
        /\ known' = [known EXCEPT ![f] = Routed(f)] /\ UNCHANGED <<demand, asked>>
    BY <1>2 DEF Refresh
  <2>2. ActiveContexts(f) = Contexts(Routed(f))
    BY DEF ActiveContexts, Contexts
  <2> QED
    BY <1>1, <2>1, <2>2 DEF Derived, Contexts
<1>3. CASE Neighbour(f) \/ Gate(f)
  BY <1>1, <1>3 DEF Neighbour, Gate, routing, Derived, Contexts
<1> QED
  BY <1>2, <1>3

LEMMA NextInv == Inv /\ [RadioNext]_radioVars => Inv'
<1> SUFFICES ASSUME Inv, [RadioNext]_radioVars PROVE Inv'
  OBVIOUS
<1>1. CASE BringUp \/ TimeOut \/ NextRadio \/ Exit \/ Mount
  BY <1>1, StartupSteps
<1>2. ASSUME NEW r \in All, Claim(r) \/ OpenFails(r) \/ Opens(r) PROVE Inv'
  BY <1>2, ThreadSteps
<1>3. ASSUME NEW p \in NamePrefixes, NEW nh, Route(p, nh) PROVE Inv'
  BY <1>3, RouteStep
<1>4. ASSUME NEW f \in Faces, NEW p \in NamePrefixes, Egress(f, p) PROVE Inv'
  BY <1>4, EgressStep
<1>5. ASSUME NEW f \in Faces, Refresh(f) \/ Neighbour(f) \/ Gate(f) PROVE Inv'
  BY <1>5, LoopSteps
<1>6. CASE UNCHANGED <<boot, cognition>>
  BY <1>6, BootKept, CognitionKept DEF Inv
<1> QED
  BY <1>1, <1>2, <1>3, <1>4, <1>5, <1>6
  DEF RadioNext, SetUp, radioVars, boot, cognition, routing, Cancel, FaceEnds, ReportEnds, ReportFails, WatcherEnds

LEMMA Invariance == RadioSpec => []Inv
BY InitInv, NextInv, PTL DEF RadioSpec

(* However late a bring-up that was given up finishes, a radio that is up  *)
(* is the only holder of its dongle and nothing else holds one; and a      *)
(* forwarder that runs has a radio in every radio face (mount_radio_face). *)
THEOREM RadiosAreHeldHolds == RadioSpec => []RadiosAreHeld
<1>1. Inv => RadiosAreHeld
  BY DEF Inv, Claims, InOrder, RadiosAreHeld
<1> QED
  BY <1>1, Invariance, PTL

(* What an Interest demands is among the contexts the control loop decides *)
(* for (set_prefix_key and active_contexts), for any names and any changes *)
(* of the routes, unless what is routed through the face changed between   *)
(* the Interest and the refresh.                                           *)
THEOREM DemandIsDecidedHolds == RadioSpec => []DemandIsDecided
<1>1. Inv => DemandIsDecided
  BY DEF Inv, Derived, DemandIsDecided, Contexts
<1> QED
  BY <1>1, Invariance, PTL

-----------------------------------------------------------------------------
(***************************************************************************)
(* The "forwarding" watcher (Monitors), for any face slots, drops and      *)
(* ticks.  Number the drops in the order they happen: there are sets of    *)
(* them, owner[f] the drops the counter of slot f stands for, S those that *)
(* the running probe has summed, P those that the tick before has, and F   *)
(* one for each failing tick.                                              *)
(***************************************************************************)
Ordered == 1 .. noticed.all
CountsOK(owner, S, P, F) ==
  /\ \A f \in Slots : Cardinality(owner[f]) = drops[f]
  /\ \A f, g \in Slots : f # g => owner[f] \cap owner[g] = {}
  /\ Cardinality(S) = sum /\ Cardinality(P) = prev /\ Cardinality(F) = entry.fail

(* What has failed a tick and is counted again was counted by the tick     *)
(* before, and a probe sums a slot once.                                   *)
FailsOK(owner, S, P, F) ==
  /\ \A f \in faces : F \cap owner[f] \subseteq P
  /\ pc = "sample" =>
        /\ F \cap S \subseteq P
        /\ \A f \in left : S \cap owner[f] = {}
        /\ \A f \in faces \ left : F \cap owner[f] \subseteq S

(* As long as no face that dropped has ended, all drops are of live faces, *)
(* and what the tick before has counted the probe counts too.              *)
LiveOK(owner, S, P) ==
  ~ noticed.gone =>
      /\ \A d \in Ordered : \E f \in faces : d \in owner[f]
      /\ pc = "sample" => \A f \in faces \ left : P \cap owner[f] \subseteq S

(* A drop that is due is new to the tick, and to the probe once it has     *)
(* visited the face.                                                       *)
Seen(owner, S, f) == IF pc = "sample" /\ f \notin left THEN owner[f] \cap S ELSE owner[f]
DueOK(owner, S, P) == \A f \in noticed.due : \E d \in Seen(owner, S, f) : d \notin P

Tally(owner, S, P, F) ==
  CountsOK(owner, S, P, F) /\ FailsOK(owner, S, P, F) /\ LiveOK(owner, S, P) /\ DueOK(owner, S, P)
Told ==
  \E owner \in [Slots -> SUBSET Ordered] : \E S, P, F \in SUBSET Ordered : Tally(owner, S, P, F)

Ticking ==
  /\ entry.ok + entry.fail <= MaxTicks
  /\ pc = "sample" => entry.ok + entry.fail < MaxTicks
WatchInv ==
  /\ Watcher!TypeOK /\ Ticking /\ noticed.due \subseteq faces
  /\ Watcher!DropsAreNoticed /\ Told

LEMMA Bounds ==
  /\ MaxDrops \in Nat /\ MaxTicks \in Nat /\ MaxTicks > 0
BY WatcherAssumption DEF Watcher!MonitorsAssumption

(* The sizes of sets of drops.                                             *)
LEMMA Sizes ==
  ASSUME NEW n \in Nat, NEW T \in SUBSET (1 .. n)
  PROVE  IsFiniteSet(T) /\ Cardinality(T) \in 0 .. n
<1>1. IsFiniteSet(1 .. n) /\ Cardinality(1 .. n) = n
  BY FS_Interval
<1>2. IsFiniteSet(T) /\ Cardinality(T) <= n
  BY <1>1, FS_Subset
<1>3. Cardinality(T) \in Nat
  BY <1>2, FS_CardinalityType
<1> QED
  BY <1>2, <1>3

LEMMA WatchTypes ==
  ASSUME Watcher!TypeOK
  PROVE  /\ faces \subseteq Slots /\ drops \in [Slots -> 0 .. MaxDrops]
         /\ left \subseteq Slots /\ sum \in 0 .. MaxDrops /\ prev \in 0 .. MaxDrops
         /\ entry.ok \in Nat /\ entry.fail \in Nat
         /\ noticed.all \in Nat /\ noticed.all <= MaxDrops
         /\ noticed.due \subseteq Slots
         /\ noticed.gone \in BOOLEAN /\ noticed.missed \in BOOLEAN
  BY Bounds DEF Watcher!TypeOK, Watcher!Counters

LEMMA WatchInitInv == Watcher!Init => WatchInv
<1> SUFFICES ASSUME Watcher!Init PROVE WatchInv
  OBVIOUS
<1>1. /\ faces = {} /\ drops = [f \in Slots |-> 0] /\ cancelled = FALSE /\ pc = "wait"
      /\ left = {} /\ sum = 0 /\ prev = 0
      /\ entry = [status |-> "running", ok |-> 0, fail |-> 0]
      /\ noticed = [all |-> 0, due |-> {}, gone |-> FALSE, missed |-> FALSE]
  BY DEF Watcher!Init, Watcher!Registered
<1>2. Watcher!TypeOK
  <2>1. 0 \in 0 .. MaxDrops /\ 0 \in 0 .. MaxTicks
    BY Bounds
  <2>2. /\ drops \in Watcher!Counters
        /\ entry \in [status : {"running", "stopped"}, ok : 0 .. MaxTicks, fail : 0 .. MaxTicks]
    BY <1>1, <2>1 DEF Watcher!Counters
  <2>3. noticed \in [all : 0 .. MaxDrops, due : SUBSET Slots, gone : BOOLEAN, missed : BOOLEAN]
    BY <1>1, <2>1
  <2> QED
    BY <1>1, <2>1, <2>2, <2>3 DEF Watcher!TypeOK
<1>3. Ticking /\ noticed.due \subseteq faces /\ Watcher!DropsAreNoticed
  BY <1>1, Bounds DEF Ticking, Watcher!DropsAreNoticed
<1>4. Told
  <2>1. PICK owner : owner = [f \in Slots |-> {}]
    OBVIOUS
  <2>2. owner \in [Slots -> SUBSET Ordered]
    BY <2>1
  <2>3. Ordered = {}
    BY <1>1 DEF Ordered
  <2>4. CountsOK(owner, {}, {}, {})
    BY <1>1, <2>1, FS_EmptySet DEF CountsOK
  <2>5. FailsOK(owner, {}, {}, {}) /\ LiveOK(owner, {}, {}) /\ DueOK(owner, {}, {})
    BY <1>1, <2>3 DEF FailsOK, LiveOK, DueOK
  <2> QED
    BY <2>2, <2>4, <2>5 DEF Told, Tally
<1> QED
  BY <1>2, <1>3, <1>4 DEF WatchInv

(* A face starts with no drops of its own.                                 *)
LEMMA AddsFace ==
  ASSUME WatchInv, NEW f \in Slots, Watcher!FaceAdded(f)
  PROVE  WatchInv'
<1>1. /\ f \notin faces /\ faces' = faces \cup {f} /\ drops' = [drops EXCEPT ![f] = 0]
      /\ cancelled' = cancelled /\ pc' = pc /\ left' = left /\ sum' = sum /\ prev' = prev
      /\ entry' = entry /\ noticed' = noticed
  BY DEF Watcher!FaceAdded
<1>2. Watcher!TypeOK /\ noticed.due \subseteq faces
  BY DEF WatchInv
<1>3. Watcher!TypeOK'
  BY <1>1, <1>2, Bounds DEF Watcher!TypeOK, Watcher!Counters
<1>4. Ticking' /\ (noticed.due)' \subseteq faces' /\ Watcher!DropsAreNoticed'
  BY <1>1 DEF WatchInv, Ticking, Watcher!DropsAreNoticed
<1>5. Told'
  <2>1. PICK owner \in [Slots -> SUBSET Ordered] :
          \E S, P, F \in SUBSET Ordered : Tally(owner, S, P, F)
    BY DEF WatchInv, Told
  <2>2. PICK S \in SUBSET Ordered, P \in SUBSET Ordered, F \in SUBSET Ordered :
          Tally(owner, S, P, F)
    BY <2>1
  <2>3. PICK mine : mine = [owner EXCEPT ![f] = {}]
    OBVIOUS
  <2>4. /\ Ordered' = Ordered /\ mine \in [Slots -> SUBSET Ordered] /\ mine[f] = {}
        /\ \A g \in Slots : g # f => mine[g] = owner[g]
    BY <1>1, <2>3 DEF Ordered
  <2>5. CountsOK(mine, S, P, F)'
    <3>1. \A g \in Slots : Cardinality(mine[g]) = drops'[g]
      BY <1>1, <1>2, <2>2, <2>4, FS_EmptySet DEF Tally, CountsOK, Watcher!TypeOK, Watcher!Counters
    <3>2. \A g, h \in Slots : g # h => mine[g] \cap mine[h] = {}
      BY <2>2, <2>4 DEF Tally, CountsOK
    <3> QED
      BY <1>1, <2>2, <3>1, <3>2 DEF Tally, CountsOK
  <2>6. \A g \in faces' : g \in Slots /\ (g = f \/ g \in faces)
    BY <1>1, <1>2, WatchTypes
  <2>7. FailsOK(mine, S, P, F)'
    <3>1. \A g \in left : g \in Slots
      BY <1>2, WatchTypes
    <3> QED
      BY <1>1, <2>2, <2>4, <2>6, <3>1 DEF Tally, FailsOK
  <2>8. LiveOK(mine, S, P)'
    BY <1>1, <1>2, <2>2, <2>4, <2>6, WatchTypes DEF Tally, LiveOK
  <2>9. DueOK(mine, S, P)'
    BY <1>1, <1>2, <2>2, <2>4, WatchTypes DEF Tally, DueOK, Seen
  <2> QED
    BY <2>4, <2>5, <2>7, <2>8, <2>9 DEF Told, Tally
<1> QED
  BY <1>3, <1>4, <1>5 DEF WatchInv

(* A face that has dropped and ends takes its drops with it.               *)
LEMMA EndsFace ==
  ASSUME WatchInv, NEW f \in Slots, Watcher!FaceEnds(f)
  PROVE  WatchInv'
<1>1. /\ f \in faces /\ faces' = faces \ {f} /\ drops' = drops /\ cancelled' = cancelled
      /\ pc' = pc /\ left' = left /\ sum' = sum /\ prev' = prev /\ entry' = entry
  BY DEF Watcher!FaceEnds
<1>2. Watcher!TypeOK /\ noticed.due \subseteq faces
  BY DEF WatchInv
<1>3. /\ noticed'.all = noticed.all /\ noticed'.due = noticed.due \ {f}
      /\ noticed'.gone = (noticed.gone \/ drops[f] > 0) /\ noticed'.missed = noticed.missed
      /\ noticed' \in [all : 0 .. MaxDrops, due : SUBSET Slots, gone : BOOLEAN, missed : BOOLEAN]
  BY <1>2 DEF Watcher!FaceEnds, Watcher!TypeOK
<1>4. Watcher!TypeOK'
  BY <1>1, <1>2, <1>3 DEF Watcher!TypeOK, Watcher!Counters
<1>5. Ticking' /\ (noticed.due)' \subseteq faces' /\ Watcher!DropsAreNoticed'
  BY <1>1, <1>2, <1>3 DEF WatchInv, Ticking, Watcher!DropsAreNoticed
<1>6. Told'
  <2>1. PICK owner \in [Slots -> SUBSET Ordered] :
          \E S, P, F \in SUBSET Ordered : Tally(owner, S, P, F)
    BY DEF WatchInv, Told
  <2>2. PICK S \in SUBSET Ordered, P \in SUBSET Ordered, F \in SUBSET Ordered :
          Tally(owner, S, P, F)
    BY <2>1
  <2>3. Ordered' = Ordered
    BY <1>3 DEF Ordered
  <2>4. CountsOK(owner, S, P, F)'
    BY <1>1, <2>2 DEF Tally, CountsOK
  <2>5. FailsOK(owner, S, P, F)'
    BY <1>1, <2>2 DEF Tally, FailsOK
  <2>6. ~ noticed'.gone => ~ noticed.gone /\ owner[f] = {}
    <3>1. SUFFICES ASSUME ~ noticed'.gone PROVE ~ noticed.gone /\ owner[f] = {}
      OBVIOUS
    <3>2. ~ noticed.gone /\ drops[f] = 0
      BY <3>1, <1>2, <1>3, WatchTypes, Bounds
    <3>3. Cardinality(owner[f]) = 0
      BY <3>2, <2>2 DEF Tally, CountsOK
    <3>4. IsFiniteSet(owner[f])
      <4>1. noticed.all \in Nat /\ owner[f] \in SUBSET (1 .. noticed.all)
        BY <1>2, WatchTypes DEF Ordered
      <4> QED
        BY <4>1, Sizes
    <3> QED
      BY <3>2, <3>3, <3>4, FS_EmptySet
  <2>7. LiveOK(owner, S, P)'
    BY <1>1, <2>2, <2>3, <2>6 DEF Tally, LiveOK
  <2>8. DueOK(owner, S, P)'
    BY <1>1, <1>3, <2>2 DEF Tally, DueOK, Seen
  <2> QED
    BY <2>3, <2>4, <2>5, <2>7, <2>8 DEF Told, Tally
<1> QED
  BY <1>4, <1>5, <1>6 DEF WatchInv

(* A drop is the next in the order.                                        *)
LEMMA Drops ==
  ASSUME WatchInv, NEW f \in Slots, Watcher!Drop(f)
  PROVE  WatchInv'
<1>1. /\ f \in faces /\ faces' = faces /\ drops' = [drops EXCEPT ![f] = drops[f] + 1]
      /\ cancelled' = cancelled /\ pc' = pc /\ left' = left /\ sum' = sum /\ prev' = prev
      /\ entry' = entry /\ noticed.all < MaxDrops
  BY DEF Watcher!Drop
<1>2. Watcher!TypeOK /\ noticed.due \subseteq faces
  BY DEF WatchInv
<1>3. PICK n \in Nat : n = noticed.all + 1
  BY <1>2, WatchTypes
<1>4. /\ noticed'.all = n /\ noticed'.gone = noticed.gone /\ noticed'.missed = noticed.missed
      /\ noticed'.due = IF pc = "wait" THEN noticed.due \cup {f} ELSE noticed.due
      /\ noticed' \in [all : 0 .. MaxDrops, due : SUBSET Slots, gone : BOOLEAN, missed : BOOLEAN]
  <2>1. n \in 0 .. MaxDrops
    BY <1>1, <1>2, <1>3, WatchTypes, Bounds
  <2> QED
    BY <1>2, <1>3, <2>1 DEF Watcher!Drop, Watcher!TypeOK
<1>5. Ticking' /\ (noticed.due)' \subseteq faces' /\ Watcher!DropsAreNoticed'
  BY <1>1, <1>2, <1>4 DEF WatchInv, Ticking, Watcher!DropsAreNoticed
<1>6. PICK owner \in [Slots -> SUBSET Ordered] :
        \E S, P, F \in SUBSET Ordered : Tally(owner, S, P, F)
  BY DEF WatchInv, Told
<1>7. PICK S \in SUBSET Ordered, P \in SUBSET Ordered, F \in SUBSET Ordered :
        Tally(owner, S, P, F)
  BY <1>6
<1>8. \A g \in Slots : IsFiniteSet(owner[g]) /\ Cardinality(owner[g]) \in 0 .. noticed.all
  <2>1. noticed.all \in Nat /\ \A g \in Slots : owner[g] \in SUBSET (1 .. noticed.all)
    BY <1>2, WatchTypes DEF Ordered
  <2> QED
    BY <2>1, Sizes
<1>9. Watcher!TypeOK'
  <2>1. drops[f] + 1 \in 0 .. MaxDrops
    BY <1>1, <1>2, <1>7, <1>8, WatchTypes, Bounds DEF Tally, CountsOK
  <2>2. drops' \in Watcher!Counters
    BY <1>1, <1>2, <2>1 DEF Watcher!TypeOK, Watcher!Counters
  <2> QED
    BY <1>1, <1>2, <1>4, <2>2 DEF Watcher!TypeOK
<1>10. Told'
  <2>1. PICK mine : mine = [owner EXCEPT ![f] = owner[f] \cup {n}]
    OBVIOUS
  <2>2. n \notin Ordered /\ Ordered' = Ordered \cup {n}
    BY <1>2, <1>3, <1>4, WatchTypes DEF Ordered
  <2>3. /\ mine \in [Slots -> SUBSET (Ordered')] /\ mine[f] = owner[f] \cup {n}
        /\ \A g \in Slots : g # f => mine[g] = owner[g]
    BY <2>1, <2>2
  <2>4. \A g \in Slots : n \notin owner[g]
    BY <2>2
  <2>5. n \notin S /\ n \notin P /\ n \notin F
    BY <2>2
  <2>6. CountsOK(mine, S, P, F)'
    <3>1. Cardinality(mine[f]) = Cardinality(owner[f]) + 1
      BY <1>8, <2>3, <2>4, FS_AddElement
    <3>2. \A g \in Slots : Cardinality(mine[g]) = drops'[g]
      BY <1>1, <1>2, <1>7, <2>3, <3>1 DEF Tally, CountsOK, Watcher!TypeOK, Watcher!Counters
    <3>3. \A g, h \in Slots : g # h => mine[g] \cap mine[h] = {}
      BY <1>7, <2>3, <2>4 DEF Tally, CountsOK
    <3> QED
      BY <1>1, <1>7, <3>2, <3>3 DEF Tally, CountsOK
  <2>7. \A g \in Slots : /\ S \cap mine[g] = S \cap owner[g]
                         /\ P \cap mine[g] = P \cap owner[g]
                         /\ F \cap mine[g] = F \cap owner[g]
    BY <2>3, <2>5
  <2>8. FailsOK(mine, S, P, F)'
    BY <1>1, <1>2, <1>7, <2>7, WatchTypes DEF Tally, FailsOK
  <2>9. LiveOK(mine, S, P)'
    <3>1. SUFFICES ASSUME ~ noticed'.gone
                   PROVE  /\ \A d \in Ordered' : \E g \in faces : d \in mine[g]
                          /\ pc = "sample" => \A g \in faces \ left : P \cap mine[g] \subseteq S
      BY <1>1 DEF LiveOK
    <3>2. \A d \in Ordered : \E g \in faces : d \in owner[g]
      BY <3>1, <1>4, <1>7 DEF Tally, LiveOK
    <3>3. \A g \in faces : g \in Slots /\ owner[g] \subseteq mine[g]
      BY <1>2, <2>3, WatchTypes
    <3>4. \A d \in Ordered' : \E g \in faces : d \in mine[g]
      BY <3>2, <3>3, <1>1, <2>2, <2>3
    <3>5. pc = "sample" => \A g \in faces \ left : P \cap mine[g] \subseteq S
      BY <3>1, <3>3, <1>4, <1>7, <2>7 DEF Tally, LiveOK
    <3> QED
      BY <3>4, <3>5
  <2>10. DueOK(mine, S, P)'
    <3>1. \A g \in noticed.due : g \in Slots /\ owner[g] \subseteq mine[g]
      BY <1>2, <2>3, WatchTypes
    <3>2. \A g \in noticed.due : \E d \in Seen(mine, S, g) : d \notin P
      BY <3>1, <1>7 DEF Tally, DueOK, Seen
    <3>3. pc = "wait" => \E d \in Seen(mine, S, f) : d \notin P
      BY <2>3, <2>5 DEF Seen
    <3>4. \A g \in noticed'.due : \E d \in Seen(mine, S, g) : d \notin P
      BY <3>2, <3>3, <1>4
    <3>5. \A g : Seen(mine, S, g)' = Seen(mine, S, g)
      BY <1>1 DEF Seen
    <3> QED
      BY <3>4, <3>5 DEF DueOK
  <2>11. S \in SUBSET (Ordered') /\ P \in SUBSET (Ordered') /\ F \in SUBSET (Ordered')
    BY <2>2
  <2> QED
    BY <2>3, <2>6, <2>8, <2>9, <2>10, <2>11 DEF Told, Tally
<1> QED
  BY <1>5, <1>9, <1>10 DEF WatchInv

LEMMA Ticks ==
  ASSUME WatchInv, Watcher!Tick
  PROVE  WatchInv'
<1>1. /\ pc = "wait" /\ pc' = "sample" /\ left' = Slots /\ sum' = 0
      /\ entry.ok + entry.fail < MaxTicks
      /\ faces' = faces /\ drops' = drops /\ cancelled' = cancelled /\ prev' = prev
      /\ entry' = entry /\ noticed' = noticed
  BY DEF Watcher!Tick
<1>2. Watcher!TypeOK
  BY DEF WatchInv
<1>3. Watcher!TypeOK'
  BY <1>1, <1>2, Bounds DEF Watcher!TypeOK, Watcher!Counters
<1>4. Ticking' /\ (noticed.due)' \subseteq faces' /\ Watcher!DropsAreNoticed'
  BY <1>1 DEF WatchInv, Ticking, Watcher!DropsAreNoticed
<1>5. Told'
  <2>1. PICK owner \in [Slots -> SUBSET Ordered] :
          \E S, P, F \in SUBSET Ordered : Tally(owner, S, P, F)
    BY DEF WatchInv, Told
  <2>2. PICK S \in SUBSET Ordered, P \in SUBSET Ordered, F \in SUBSET Ordered :
          Tally(owner, S, P, F)
    BY <2>1
  <2>3. Ordered' = Ordered
    BY <1>1 DEF Ordered
  <2>4. CountsOK(owner, {}, P, F)'
    BY <1>1, <2>2, FS_EmptySet DEF Tally, CountsOK
  <2>5. FailsOK(owner, {}, P, F)'
    BY <1>1, <1>2, <2>2, WatchTypes DEF Tally, FailsOK
  <2>6. LiveOK(owner, {}, P)'
    BY <1>1, <1>2, <2>2, <2>3, WatchTypes DEF Tally, LiveOK
  <2>7. DueOK(owner, {}, P)'
    BY <1>1, <1>2, <2>2, WatchTypes DEF Tally, DueOK, Seen
  <2> QED
    BY <2>3, <2>4, <2>5, <2>6, <2>7 DEF Told, Tally
<1> QED
  BY <1>3, <1>4, <1>5 DEF WatchInv

LEMMA Visits ==
  ASSUME WatchInv, NEW f \in Slots, Watcher!Visit(f)
  PROVE  WatchInv'
<1>1. /\ pc = "sample" /\ f \in left /\ left' = left \ {f}
      /\ sum' = IF f \in faces THEN sum + drops[f] ELSE sum
      /\ faces' = faces /\ drops' = drops /\ cancelled' = cancelled /\ pc' = pc
      /\ prev' = prev /\ entry' = entry /\ noticed' = noticed
  BY DEF Watcher!Visit
<1>2. Watcher!TypeOK /\ noticed.due \subseteq faces
  BY DEF WatchInv
<1>3. PICK owner \in [Slots -> SUBSET Ordered] :
        \E S, P, F \in SUBSET Ordered : Tally(owner, S, P, F)
  BY DEF WatchInv, Told
<1>4. PICK S \in SUBSET Ordered, P \in SUBSET Ordered, F \in SUBSET Ordered :
        Tally(owner, S, P, F)
  BY <1>3
<1>5. PICK T : T = IF f \in faces THEN S \cup owner[f] ELSE S
  OBVIOUS
<1>6. Ordered' = Ordered /\ T \in SUBSET Ordered /\ S \subseteq T
  BY <1>1, <1>5 DEF Ordered
<1>7. Cardinality(T) = sum'
  <2>1. CASE f \notin faces
    BY <2>1, <1>1, <1>4, <1>5 DEF Tally, CountsOK
  <2>2. CASE f \in faces
    <3>1. S \cap owner[f] = {} /\ Cardinality(S) = sum /\ Cardinality(owner[f]) = drops[f]
      BY <1>1, <1>4 DEF Tally, CountsOK, FailsOK
    <3>2. IsFiniteSet(S) /\ IsFiniteSet(owner[f])
      BY <1>2, WatchTypes, Sizes DEF Ordered
    <3>3. Cardinality(S \cup owner[f]) = sum + drops[f] - Cardinality({})
      BY <3>1, <3>2, FS_Union, Zenon
    <3>4. Cardinality(S \cup owner[f]) = sum + drops[f]
      BY <3>3, <1>2, FS_EmptySet, WatchTypes
    <3> QED
      BY <2>2, <3>4, <1>1, <1>5
  <2> QED
    BY <2>1, <2>2
<1>8. Watcher!TypeOK'
  <2>1. sum' \in 0 .. noticed.all
    <3>1. noticed.all \in Nat /\ T \in SUBSET (1 .. noticed.all)
      BY <1>2, <1>6, WatchTypes DEF Ordered
    <3> QED
      BY <3>1, <1>7, Sizes
  <2>2. sum' \in 0 .. MaxDrops
    BY <2>1, <1>2, WatchTypes, Bounds
  <2> QED
    BY <1>1, <1>2, <2>2 DEF Watcher!TypeOK, Watcher!Counters
<1>9. Ticking' /\ (noticed.due)' \subseteq faces' /\ Watcher!DropsAreNoticed'
  BY <1>1 DEF WatchInv, Ticking, Watcher!DropsAreNoticed
<1>10. \A g \in Slots : g # f => T \cap owner[g] = S \cap owner[g]
  BY <1>4, <1>5 DEF Tally, CountsOK
<1>11. f \in faces => owner[f] \subseteq T
  BY <1>5
<1>12. CountsOK(owner, T, P, F)'
  BY <1>1, <1>4, <1>7 DEF Tally, CountsOK
<1>13. FailsOK(owner, T, P, F)'
  <2>1. F \cap T \subseteq P
    BY <1>1, <1>4, <1>5 DEF Tally, FailsOK
  <2>2. \A g \in left \ {f} : T \cap owner[g] = {}
    BY <1>1, <1>2, <1>4, <1>10, WatchTypes DEF Tally, FailsOK
  <2>3. \A g \in faces \ (left \ {f}) : F \cap owner[g] \subseteq T
    BY <1>1, <1>4, <1>6, <1>11 DEF Tally, FailsOK
  <2> QED
    BY <2>1, <2>2, <2>3, <1>1, <1>4 DEF Tally, FailsOK
<1>14. LiveOK(owner, T, P)'
  BY <1>1, <1>4, <1>6, <1>11 DEF Tally, LiveOK
<1>15. DueOK(owner, T, P)'
  <2> SUFFICES ASSUME NEW g \in noticed.due
               PROVE  \E d \in Seen(owner, T, g)' : d \notin P
    BY <1>1 DEF DueOK
  <2>1. PICK d \in Seen(owner, S, g) : d \notin P
    BY <1>4 DEF Tally, DueOK
  <2>2. CASE g = f
    BY <2>1, <2>2, <1>1, <1>2, <1>11 DEF Seen
  <2>3. CASE g # f
    BY <2>1, <2>3, <1>1, <1>6 DEF Seen
  <2> QED
    BY <2>2, <2>3
<1>16. Told'
  BY <1>6, <1>12, <1>13, <1>14, <1>15 DEF Told, Tally
<1> QED
  BY <1>8, <1>9, <1>16 DEF WatchInv

(* A probe that sums more than the last one has counted a drop that no     *)
(* tick has failed for yet; one that counts all the last one has, and a    *)
(* drop that is due, sums more.                                            *)
LEMMA Records ==
  ASSUME WatchInv, Watcher!Record
  PROVE  WatchInv'
<1>1. /\ pc = "sample" /\ left = {} /\ prev' = sum /\ pc' = "wait"
      /\ faces' = faces /\ drops' = drops /\ cancelled' = cancelled /\ left' = left
      /\ sum' = sum
  BY DEF Watcher!Record
<1>2. Watcher!TypeOK /\ noticed.due \subseteq faces /\ Ticking
  BY DEF WatchInv
<1>3. sum \in Nat /\ prev \in Nat
  BY <1>2, WatchTypes, Bounds
<1>4. Watcher!NewDrops = 0 <=> sum <= prev
  BY <1>3 DEF Watcher!NewDrops
<1>5. /\ entry'.status = entry.status
      /\ entry'.ok = entry.ok + (IF sum <= prev THEN 1 ELSE 0)
      /\ entry'.fail = entry.fail + (IF sum <= prev THEN 0 ELSE 1)
      /\ entry' = [status |-> entry'.status, ok |-> entry'.ok, fail |-> entry'.fail]
  BY <1>2, <1>4 DEF Watcher!Record, Watcher!TypeOK
<1>6. /\ noticed'.all = noticed.all /\ noticed'.due = {} /\ noticed'.gone = noticed.gone
      /\ noticed'.missed = (noticed.missed \/ (noticed.due # {} /\ sum <= prev))
      /\ noticed' \in [all : 0 .. MaxDrops, due : SUBSET Slots, gone : BOOLEAN, missed : BOOLEAN]
  BY <1>2, <1>4 DEF Watcher!Record, Watcher!TypeOK
<1>7. Watcher!TypeOK' /\ Ticking'
  <2>1. entry.ok + entry.fail < MaxTicks /\ entry.ok \in Nat /\ entry.fail \in Nat
    BY <1>1, <1>2, WatchTypes DEF Ticking
  <2>2. /\ entry'.ok \in 0 .. MaxTicks /\ entry'.fail \in 0 .. MaxTicks
        /\ entry'.ok + entry'.fail <= MaxTicks
    BY <2>1, <1>5, Bounds
  <2>3. entry' \in [status : {"running", "stopped"}, ok : 0 .. MaxTicks, fail : 0 .. MaxTicks]
    BY <2>2, <1>2, <1>5 DEF Watcher!TypeOK
  <2> QED
    BY <2>2, <2>3, <1>1, <1>2, <1>6 DEF Watcher!TypeOK, Watcher!Counters, Ticking
<1>8. PICK owner \in [Slots -> SUBSET Ordered] :
        \E S, P, F \in SUBSET Ordered : Tally(owner, S, P, F)
  BY DEF WatchInv, Told
<1>9. PICK S \in SUBSET Ordered, P \in SUBSET Ordered, F \in SUBSET Ordered :
        Tally(owner, S, P, F)
  BY <1>8
<1>10. /\ IsFiniteSet(S) /\ IsFiniteSet(P) /\ IsFiniteSet(F)
       /\ Cardinality(S) = sum /\ Cardinality(P) = prev /\ Cardinality(F) = entry.fail
  BY <1>2, <1>9, WatchTypes, Sizes DEF Ordered, Tally, CountsOK
<1>11. Watcher!DropsAreNoticed'
  <2> SUFFICES ASSUME noticed.due # {}, sum <= prev, ~ noticed.gone PROVE FALSE
    BY <1>6 DEF WatchInv, Watcher!DropsAreNoticed
  <2>1. P \subseteq S
    <3> SUFFICES ASSUME NEW d \in P PROVE d \in S
      OBVIOUS
    <3>1. PICK g \in faces : d \in owner[g]
      BY <1>9 DEF Tally, LiveOK
    <3> QED
      BY <3>1, <1>1, <1>9 DEF Tally, LiveOK
  <2>2. S # P
    BY <1>1, <1>9 DEF Tally, DueOK, Seen
  <2>3. prev <= sum /\ prev # sum
    BY <2>1, <2>2, <1>10, FS_Subset
  <2> QED
    BY <2>3, <1>3
<1>12. PICK G \in SUBSET Ordered :
         /\ F \subseteq G /\ G \subseteq F \cup S
         /\ Cardinality(G) = entry'.fail
  <2>1. CASE sum <= prev
    BY <2>1, <1>2, <1>5, <1>10, WatchTypes
  <2>2. CASE ~ (sum <= prev)
    <3>1. ~ (S \subseteq P)
      BY <2>2, <1>3, <1>10, FS_Subset
    <3>2. PICK d \in S : d \notin P
      BY <3>1
    <3>3. d \notin F
      BY <3>2, <1>1, <1>9 DEF Tally, FailsOK
    <3>4. Cardinality(F \cup {d}) = entry'.fail
      <4>1. Cardinality(F \cup {d}) = entry.fail + 1
        BY <3>3, <1>10, FS_AddElement
      <4> QED
        BY <4>1, <2>2, <1>5
    <3> QED
      BY <3>2, <3>4
  <2> QED
    BY <2>1, <2>2
<1>13. Told'
  <2>1. CountsOK(owner, S, S, G)'
    BY <1>1, <1>9, <1>12 DEF Tally, CountsOK
  <2>2. FailsOK(owner, S, S, G)'
    BY <1>1, <1>9, <1>12 DEF Tally, FailsOK
  <2>3. Ordered' = Ordered
    BY <1>6 DEF Ordered
  <2>4. LiveOK(owner, S, S)'
    BY <1>1, <1>6, <1>9, <2>3 DEF Tally, LiveOK
  <2>5. DueOK(owner, S, S)'
    BY <1>6 DEF DueOK
  <2> QED
    BY <2>1, <2>2, <2>3, <2>4, <2>5 DEF Told, Tally
<1>14. (noticed.due)' \subseteq faces'
  BY <1>6
<1> QED
  BY <1>7, <1>11, <1>13, <1>14 DEF WatchInv

LEMMA Ends ==
  ASSUME WatchInv, Watcher!Cancel \/ Watcher!Stop \/ UNCHANGED Watcher!vars
  PROVE  WatchInv'
<1>1. /\ faces' = faces /\ drops' = drops /\ left' = left /\ sum' = sum /\ prev' = prev
      /\ noticed' = noticed /\ entry'.ok = entry.ok /\ entry'.fail = entry.fail
      /\ pc' = pc \/ (pc = "wait" /\ pc' = "ended")
      /\ Watcher!TypeOK'
  BY DEF WatchInv, Watcher!TypeOK, Watcher!Counters, Watcher!Cancel, Watcher!Stop, Watcher!vars
<1>2. Ticking' /\ (noticed.due)' \subseteq faces' /\ Watcher!DropsAreNoticed'
  BY <1>1 DEF WatchInv, Ticking, Watcher!DropsAreNoticed
<1>3. Told'
  <2>1. PICK owner \in [Slots -> SUBSET Ordered] :
          \E S, P, F \in SUBSET Ordered : Tally(owner, S, P, F)
    BY DEF WatchInv, Told
  <2>2. PICK S \in SUBSET Ordered, P \in SUBSET Ordered, F \in SUBSET Ordered :
          Tally(owner, S, P, F)
    BY <2>1
  <2>3. Ordered' = Ordered
    BY <1>1 DEF Ordered
  <2>4. pc' = "sample" <=> pc = "sample"
    BY <1>1
  <2>5. CountsOK(owner, S, P, F)' /\ FailsOK(owner, S, P, F)'
    BY <1>1, <2>2, <2>4 DEF Tally, CountsOK, FailsOK
  <2>6. LiveOK(owner, S, P)' /\ DueOK(owner, S, P)'
    BY <1>1, <2>2, <2>3, <2>4 DEF Tally, LiveOK, DueOK, Seen
  <2> QED
    BY <2>3, <2>5, <2>6 DEF Told, Tally
<1> QED
  BY <1>1, <1>2, <1>3 DEF WatchInv

LEMMA WatchNextInv == WatchInv /\ [Watcher!Next]_(Watcher!vars) => WatchInv'
BY AddsFace, EndsFace, Drops, Ticks, Visits, Records, Ends DEF Watcher!Next

(* Each failing tick answers a drop of its own, and as long as no face     *)
(* that dropped has ended, a live face's drop fails the next tick, though  *)
(* faces come and go while the probe walks the table (forwarding_probe).   *)
THEOREM TicksMeanDropsHolds == Watcher!Spec => []TicksMeanDrops
<1>1. WatchInv => TicksMeanDrops
  <2> SUFFICES ASSUME WatchInv PROVE entry.fail <= noticed.all
    BY DEF WatchInv, TicksMeanDrops, Watcher!TicksMeanDrops, Watcher!AlarmIsReal
  <2>1. noticed.all \in Nat
    BY WatchTypes DEF WatchInv
  <2>2. PICK F \in SUBSET (1 .. noticed.all) : Cardinality(F) = entry.fail
    BY DEF WatchInv, Told, Tally, CountsOK, Ordered
  <2> QED
    BY <2>1, <2>2, Sizes
<1> QED
  BY <1>1, WatchInitInv, WatchNextInv, PTL DEF Watcher!Spec

-----------------------------------------------------------------------------
(***************************************************************************)
(* Why there are no other duplicates: a span is in the batch only after it  *)
(* entered seen, so it enters once; while it is there, each export of it    *)
(* was a POST whose confirmation was lost.                                  *)
(***************************************************************************)
UnseenIsNew == \A s \in Spans : s \notin seen => exported[s] = 0
BatchedIsUnconfirmed == \A s \in Spans : Bridge!InBatch(s) => exported[s] <= lost

BridgeInv == Bridge!TypeOK /\ UnseenIsNew /\ BatchedIsUnconfirmed /\ Bridge!NoOtherDuplicates

(* The batch only holds seen spans (TypeOK), said of InBatch.               *)
LEMMA BatchedIsSeen ==
  ASSUME Bridge!TypeOK, NEW s, Bridge!InBatch(s)
  PROVE  s \in seen
BY DEF Bridge!TypeOK, Bridge!InBatch

(* Initially no span was exported and the batch is empty (main, before its  *)
(* loop).                                                                   *)
LEMMA BridgeInitInv == Bridge!Init => BridgeInv
<1> SUFFICES ASSUME Bridge!Init PROVE BridgeInv
  OBVIOUS
<1>1. \A s : ~Bridge!InBatch(s)
  <2>1. Len(batch) = 0
    BY DEF Bridge!Init
  <2> QED
    BY <2>1 DEF Bridge!InBatch
<1>2. batch \in Seq(seen)
  BY DEF Bridge!Init
<1>3. Bridge!TypeOK
  <2>1. exported \in [Spans -> Nat]
    BY DEF Bridge!Init
  <2>2. lost \in 0 .. MaxLost /\ posts \in Nat
    BY SpansAssumption DEF Bridge!Init, Bridge!BridgeAssumption
  <2>3. kept \subseteq published /\ published \subseteq Spans /\ listed \subseteq published
    BY DEF Bridge!Init
  <2>4. seen \subseteq published /\ stage = "select" /\ signal = FALSE
    BY DEF Bridge!Init
  <2> QED
    BY <1>2, <2>1, <2>2, <2>3, <2>4 DEF Bridge!TypeOK
<1>4. UnseenIsNew /\ Bridge!NoOtherDuplicates
  BY DEF Bridge!Init, UnseenIsNew, Bridge!NoOtherDuplicates
<1> QED
  BY <1>1, <1>3, <1>4 DEF BridgeInv, BatchedIsUnconfirmed

(* A step that takes the batch counts each of its spans once more.          *)
LEMMA TakenCounts ==
  ASSUME BridgeInv, Bridge!Taken
  PROVE  /\ exported' \in [Spans -> Nat]
         /\ \A s \in Spans : Bridge!InBatch(s) => exported'[s] = exported[s] + 1
         /\ \A s \in Spans : ~Bridge!InBatch(s) => exported'[s] = exported[s]
         /\ \A s \in Spans : s \notin seen => exported'[s] = 0
         /\ \A s \in Spans : exported'[s] <= exported[s] + 1
<1> USE DEF BridgeInv, Bridge!TypeOK
<1>1. \A s \in Spans : exported[s] \in Nat
  OBVIOUS
<1>2. \A s \in Spans : exported'[s] = exported[s] + (IF Bridge!InBatch(s) THEN 1 ELSE 0)
  BY DEF Bridge!Taken
<1>3. exported' \in [Spans -> Nat]
  BY <1>1 DEF Bridge!Taken
<1>4. \A s \in Spans : Bridge!InBatch(s) => s \in seen
  BY BatchedIsSeen
<1>5. \A s \in Spans : s \notin seen => exported[s] = 0
  BY DEF UnseenIsNew
<1> HIDE DEF BridgeInv, Bridge!TypeOK
<1>6. ASSUME NEW s \in Spans
      PROVE  /\ Bridge!InBatch(s) => exported'[s] = exported[s] + 1
             /\ ~Bridge!InBatch(s) => exported'[s] = exported[s]
             /\ exported'[s] <= exported[s] + 1
  BY <1>1, <1>2
<1> QED
  BY <1>3, <1>4, <1>5, <1>6

(* A step that leaves batch, seen, exported and lost alone keeps what is    *)
(* claimed of them.                                                         *)
LEMMA Untouched ==
  ASSUME BridgeInv, Bridge!TypeOK', UNCHANGED <<batch, seen, exported, lost>>
  PROVE  BridgeInv'
BY DEF BridgeInv, UnseenIsNew, BatchedIsUnconfirmed, Bridge!NoOtherDuplicates, Bridge!InBatch

(* Appending an unseen span and marking it: it was never exported           *)
(* (poll_once).                                                             *)
LEMMA FetchKeeps ==
  ASSUME BridgeInv, Bridge!FetchSpan PROVE BridgeInv'
<1> USE DEF BridgeInv
<1>1. PICK s \in listed :
        /\ listed' = listed \ {s}
        /\ seen' = seen \union {s}
        /\ batch' \in {batch} \union
             (IF s \in kept /\ s \notin seen THEN {Append(batch, s)} ELSE {})
  BY DEF Bridge!FetchSpan
<1>2. UNCHANGED <<published, kept, stage, exported, lost, posts, signal>>
  BY DEF Bridge!FetchSpan
<1>3. s \in published /\ s \in Spans
  BY <1>1 DEF Bridge!TypeOK
<1>4. batch \in Seq(seen')
  BY <1>1 DEF Bridge!TypeOK
<1>5. batch' \in Seq(seen')
  <2>1. Append(batch, s) \in Seq(seen')
    BY <1>1, <1>4
  <2> QED
    BY <1>1, <1>4, <2>1
<1>6. Bridge!TypeOK'
  BY <1>1, <1>2, <1>3, <1>5 DEF Bridge!TypeOK
<1>7. \A t \in Spans : Bridge!InBatch(t)' => Bridge!InBatch(t) \/ (t = s /\ s \notin seen)
  <2>1. CASE batch' = batch
    BY <2>1 DEF Bridge!InBatch
  <2>2. CASE batch' = Append(batch, s) /\ s \notin seen
    <3>1. batch \in Seq(seen)
      BY DEF Bridge!TypeOK
    <3>2. Len(batch') = Len(batch) + 1
      BY <2>2, <3>1
    <3>3. \A i \in 1 .. Len(batch') : batch'[i] = IF i = Len(batch) + 1 THEN s ELSE batch[i]
      BY <2>2, <3>1, <3>2
    <3> QED
      BY <2>2, <3>1, <3>2, <3>3 DEF Bridge!InBatch
  <2> QED
    BY <1>1, <2>1, <2>2
<1>8. BatchedIsUnconfirmed'
  BY <1>2, <1>3, <1>7 DEF BatchedIsUnconfirmed, UnseenIsNew, Bridge!TypeOK
<1>9. UnseenIsNew' /\ Bridge!NoOtherDuplicates'
  BY <1>1, <1>2 DEF UnseenIsNew, Bridge!NoOtherDuplicates
<1> QED
  BY <1>6, <1>8, <1>9

(* A confirmed POST empties the batch, so its spans are exported for the    *)
(* last time (flush).                                                       *)
LEMMA ConfirmedKeeps ==
  ASSUME BridgeInv, Bridge!Confirmed PROVE BridgeInv'
<1> USE DEF BridgeInv
<1>1. Bridge!Taken /\ batch' = <<>> /\ UNCHANGED <<published, kept, listed, seen, lost, posts, signal>>
  BY DEF Bridge!Confirmed
<1>2. \A s : ~Bridge!InBatch(s)'
  <2>1. Len(batch') = 0
    BY <1>1
  <2> QED
    BY <2>1 DEF Bridge!InBatch
<1>3. /\ exported' \in [Spans -> Nat]
      /\ \A s \in Spans : Bridge!InBatch(s) => exported'[s] = exported[s] + 1
      /\ \A s \in Spans : ~Bridge!InBatch(s) => exported'[s] = exported[s]
      /\ \A s \in Spans : s \notin seen => exported'[s] = 0
  BY <1>1, TakenCounts
<1>4. stage' \in {"select", "ended"}
  BY DEF Bridge!Confirmed, Bridge!Returns
<1>5. Bridge!TypeOK'
  BY <1>1, <1>3, <1>4 DEF Bridge!TypeOK
<1>6. \A s \in Spans : exported'[s] <= 1 + lost
  BY <1>3 DEF BatchedIsUnconfirmed, Bridge!NoOtherDuplicates, Bridge!TypeOK
<1> QED
  BY <1>1, <1>2, <1>3, <1>5, <1>6 DEF UnseenIsNew, BatchedIsUnconfirmed, Bridge!NoOtherDuplicates

(* A failed POST keeps the batch; if the collector took it, lost grows with *)
(* the exports (flush).                                                     *)
LEMMA FailedKeeps ==
  ASSUME BridgeInv, Bridge!Failed PROVE BridgeInv'
<1> USE DEF BridgeInv
<1>1. UNCHANGED <<published, kept, listed, seen, batch, posts, signal>> /\ stage' \in {"select", "ended"}
  BY DEF Bridge!Failed, Bridge!Returns
<1>2. \A s : Bridge!InBatch(s)' = Bridge!InBatch(s)
  BY <1>1 DEF Bridge!InBatch
<1>3. CASE UNCHANGED <<exported, lost>>
  <2>1. Bridge!TypeOK'
    BY <1>1, <1>3 DEF Bridge!TypeOK
  <2> QED
    BY <1>1, <1>3, <2>1, Untouched
<1>4. ASSUME lost < MaxLost, lost' = lost + 1, Bridge!Taken
      PROVE  BridgeInv'
  <2>1. /\ exported' \in [Spans -> Nat]
        /\ \A s \in Spans : Bridge!InBatch(s) => exported'[s] = exported[s] + 1
        /\ \A s \in Spans : s \notin seen => exported'[s] = 0
        /\ \A s \in Spans : exported'[s] <= exported[s] + 1
    BY <1>4, TakenCounts
  <2>2. lost \in Nat /\ lost' \in 0 .. MaxLost
    BY <1>4, SpansAssumption DEF Bridge!TypeOK, Bridge!BridgeAssumption
  <2>3. Bridge!TypeOK'
    BY <1>1, <2>1, <2>2 DEF Bridge!TypeOK
  <2>4. \A s \in Spans : exported[s] \in Nat /\ exported'[s] \in Nat
    BY <2>1 DEF Bridge!TypeOK
  <2>5. \A s \in Spans : Bridge!InBatch(s) => exported'[s] <= lost'
    BY <1>4, <2>1, <2>2, <2>4 DEF BatchedIsUnconfirmed
  <2>6. \A s \in Spans : exported'[s] <= 1 + lost'
    BY <1>4, <2>1, <2>2, <2>4 DEF Bridge!NoOtherDuplicates
  <2> QED
    BY <1>1, <1>2, <2>1, <2>3, <2>5, <2>6 DEF UnseenIsNew, BatchedIsUnconfirmed, Bridge!NoOtherDuplicates
<1> QED
  BY <1>3, <1>4 DEF Bridge!Failed

(* The remaining steps touch none of the four variables.                    *)
LEMMA OthersKeep ==
  ASSUME BridgeInv,
         \/ \E s \in Spans : Bridge!Publish(s) \/ Bridge!Evict(s)
         \/ Bridge!Signal \/ Bridge!PollRecent \/ Bridge!PollEnds \/ Bridge!Check \/ Bridge!ShutDown
         \/ UNCHANGED Bridge!vars
  PROVE  BridgeInv'
<1> USE DEF BridgeInv, Bridge!TypeOK, Bridge!Publish, Bridge!Evict, Bridge!Signal,
            Bridge!PollRecent, Bridge!PollEnds, Bridge!Check, Bridge!ShutDown, Bridge!vars
<1>1. UNCHANGED <<batch, seen, exported, lost>>
  OBVIOUS
<1>2. published \subseteq published' /\ published' \subseteq Spans /\ kept' \subseteq published'
  OBVIOUS
<1>3. listed' \subseteq published'
  BY <1>2
<1>4. stage' \in {"select", "poll", "check", "post", "flush", "ended"} /\ signal' \in BOOLEAN
  OBVIOUS
<1>5. posts' \in Nat
  <2>1. Len(batch) \in Nat
    OBVIOUS
  <2> QED
    BY <2>1
<1>6. Bridge!TypeOK'
  BY <1>1, <1>2, <1>3, <1>4, <1>5
<1> QED
  BY <1>1, <1>6, Untouched

(* The run's specification is the bridge's, with the rest at rest.           *)
LEMMA BridgeSpecIsItsOwn == BridgeSpec => Bridge!Spec
<1>1. BridgeInit => Bridge!Init
  BY DEF BridgeInit
<1>2. [BridgeNext]_<<follows, radioVars, watcherVars, bridgeVars>> => [Bridge!Next]_Bridge!vars
  BY DEF BridgeNext, bridgeVars, Bridge!vars
<1> QED
  BY <1>1, <1>2, PTL DEF BridgeSpec, Bridge!Spec

(* The invariant holds in every reachable state.                            *)
LEMMA BridgeInvariance == BridgeSpec => []BridgeInv
<1>1. BridgeInv /\ [Bridge!Next]_Bridge!vars => BridgeInv'
  BY FetchKeeps, ConfirmedKeeps, FailedKeeps, OthersKeep DEF Bridge!Next
<1> QED
  BY BridgeSpecIsItsOwn, BridgeInitInv, <1>1, PTL DEF Bridge!Spec

(* No span is exported more than once plus the number of POSTs whose        *)
(* confirmation was lost, whatever is published, evicted or refused.        *)
THEOREM Duplicates == BridgeSpec => []NoOtherDuplicates
<1>1. BridgeInv => NoOtherDuplicates
  BY DEF BridgeInv, NoOtherDuplicates
<1> QED
  BY BridgeInvariance, <1>1, PTL
=============================================================================

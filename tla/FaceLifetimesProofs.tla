-------------------------- MODULE FaceLifetimesProofs --------------------------
(***************************************************************************)
(* However many tasks and centrals there are, start, stop and the listener *)
(* tasks of the BLE listener interleave so that no listener and no face    *)
(* escapes its owner; and however many clients and requests there are, no  *)
(* control socket of the provisioner is left behind, nor taken away from   *)
(* its handoff but by a request with the same token.                       *)
(***************************************************************************)
EXTENDS MCFaceLifetimes, TLAPS

(* The BLE listener. *)

BleInv == Ble!TypeOK /\ Ble!OneOwned /\ Ble!FacesOwned

LEMMA IdleIsNoTask == Ble!Idle \notin Ble!Tasks
BY LifetimesAssumption DEF Ble!BleAssumption, Ble!Idle, Ble!Tasks

LEMMA BleInitInv == Ble!Init => BleInv
BY DEF Ble!Init, BleInv, Ble!TypeOK, Ble!OneOwned, Ble!FacesOwned, Ble!Alive, Ble!Serving

LEMMA BleStepType == Ble!TypeOK /\ [Ble!Next]_Ble!vars => Ble!TypeOK'
<1> SUFFICES ASSUME Ble!TypeOK, [Ble!Next]_Ble!vars PROVE Ble!TypeOK'
  OBVIOUS
<1>1. CASE Ble!Stop
  BY <1>1, IdleIsNoTask DEF Ble!Stop, Ble!TypeOK
<1>2. CASE Ble!Shutdown
  BY <1>2 DEF Ble!Shutdown, Ble!TypeOK
<1>3. CASE UNCHANGED Ble!vars
  BY <1>3 DEF Ble!vars, Ble!TypeOK
<1>4. ASSUME NEW t \in Ble!Tasks,
             Ble!Start(t) \/ Ble!BindOk(t) \/ Ble!BindFails(t) \/ Ble!AcceptOk(t)
                \/ Ble!AcceptFails(t) \/ Ble!Ends(t)
      PROVE  Ble!TypeOK'
  BY <1>4 DEF Ble!Start, Ble!BindOk, Ble!BindFails, Ble!AcceptOk, Ble!AcceptFails, Ble!Ends, Ble!TypeOK
<1>5. ASSUME NEW t \in Ble!Tasks, NEW c \in Centrals, Ble!AddFace(t, c) \/ Ble!FaceEnds(c, t)
      PROVE  Ble!TypeOK'
  BY <1>5 DEF Ble!AddFace, Ble!FaceEnds, Ble!TypeOK
<1> QED BY <1>1, <1>2, <1>3, <1>4, <1>5 DEF Ble!Next

LEMMA BleStepInv == BleInv /\ [Ble!Next]_Ble!vars => BleInv'
<1> SUFFICES ASSUME BleInv, [Ble!Next]_Ble!vars PROVE BleInv'
  OBVIOUS
<1>t. Ble!TypeOK /\ Ble!TypeOK'
  BY BleStepType DEF BleInv
<1>1. ASSUME NEW t \in Ble!Tasks, Ble!Start(t) PROVE Ble!OneOwned' /\ Ble!FacesOwned'
  \* Nothing was advertising, so the old owner, if any, is cancelled.
  <2>1. \A u \in Ble!Tasks : u = running => Ble!IsCancelled(u)
    BY <1>1, IdleIsNoTask DEF Ble!Start, Ble!Advertising
  <2>2. \A u \in Ble!Tasks : Ble!Alive(u) => Ble!IsCancelled(u)
    BY <2>1 DEF BleInv, Ble!OneOwned
  <2>3. \A c \in Centrals : \A u \in links[c] : Ble!IsCancelled(u)
    BY <2>1, <1>t DEF BleInv, Ble!FacesOwned, Ble!TypeOK
  <2>4. \A u \in Ble!Tasks : u # t => (Ble!Alive(u)' <=> Ble!Alive(u))
    BY <1>1, <1>t DEF Ble!Start, Ble!TypeOK, Ble!Alive, Ble!Serving
  <2>5. \A u : Ble!IsCancelled(u)' <=> Ble!IsCancelled(u)
    BY <1>1 DEF Ble!Start, Ble!IsCancelled
  <2>6. Ble!OneOwned'
    BY <1>1, <2>2, <2>4, <2>5 DEF Ble!Start, Ble!OneOwned
  <2>7. Ble!FacesOwned'
    BY <1>1, <2>3, <2>5 DEF Ble!Start, Ble!FacesOwned
  <2> QED BY <2>6, <2>7
<1>2. ASSUME Ble!Stop PROVE Ble!OneOwned' /\ Ble!FacesOwned'
  <2>1. \A u : Ble!IsCancelled(u)' <=> Ble!IsCancelled(u) \/ u = running
    BY <1>2 DEF Ble!Stop, Ble!IsCancelled
  <2>2. Ble!OneOwned'
    BY <1>2, <2>1 DEF Ble!Stop, BleInv, Ble!OneOwned, Ble!Alive, Ble!Serving
  <2>3. Ble!FacesOwned'
    BY <1>2, <2>1 DEF Ble!Stop, BleInv, Ble!FacesOwned
  <2> QED BY <2>2, <2>3
<1>3. ASSUME Ble!Shutdown PROVE Ble!OneOwned' /\ Ble!FacesOwned'
  BY <1>3 DEF Ble!Shutdown, Ble!OneOwned, Ble!FacesOwned, Ble!IsCancelled
<1>4. ASSUME UNCHANGED Ble!vars PROVE Ble!OneOwned' /\ Ble!FacesOwned'
  BY <1>4 DEF Ble!vars, BleInv, Ble!OneOwned, Ble!FacesOwned, Ble!IsCancelled, Ble!Alive, Ble!Serving
<1>5. ASSUME NEW t \in Ble!Tasks,
             Ble!BindOk(t) \/ Ble!BindFails(t) \/ Ble!AcceptOk(t) \/ Ble!AcceptFails(t) \/ Ble!Ends(t)
      PROVE  Ble!OneOwned' /\ Ble!FacesOwned'
  <2>1. /\ UNCHANGED <<running, cancelled, shutdown, links>>
        /\ \A u \in Ble!Tasks : Ble!Alive(u)' => Ble!Alive(u)
    BY <1>5, <1>t DEF Ble!BindOk, Ble!BindFails, Ble!AcceptOk, Ble!AcceptFails, Ble!Ends, Ble!TypeOK,
                      Ble!Alive, Ble!Serving
  <2> QED BY <2>1 DEF BleInv, Ble!OneOwned, Ble!FacesOwned, Ble!IsCancelled
<1>6. ASSUME NEW t \in Ble!Tasks, NEW c \in Centrals, Ble!AddFace(t, c)
      PROVE  Ble!OneOwned' /\ Ble!FacesOwned'
  <2>1. /\ UNCHANGED <<running, cancelled, shutdown>>
        /\ \A u \in Ble!Tasks : Ble!Alive(u)' => Ble!Alive(u)
    BY <1>6, <1>t DEF Ble!AddFace, Ble!TypeOK, Ble!Alive, Ble!Serving
  <2>2. t = running \/ Ble!IsCancelled(t)
    BY <1>6 DEF Ble!AddFace, BleInv, Ble!OneOwned, Ble!Alive, Ble!Serving
  <2>3. \A d \in Centrals : links'[d] \subseteq links[d] \cup {t}
    BY <1>6, <1>t DEF Ble!AddFace, Ble!TypeOK
  <2>4. Ble!OneOwned'
    BY <2>1 DEF BleInv, Ble!OneOwned, Ble!IsCancelled
  <2>5. Ble!FacesOwned'
    BY <2>1, <2>2, <2>3 DEF BleInv, Ble!FacesOwned, Ble!IsCancelled
  <2> QED BY <2>4, <2>5
<1>7. ASSUME NEW t \in Ble!Tasks, NEW c \in Centrals, Ble!FaceEnds(c, t)
      PROVE  Ble!OneOwned' /\ Ble!FacesOwned'
  <2>1. /\ UNCHANGED <<running, cancelled, shutdown, task>>
        /\ \A d \in Centrals : links'[d] \subseteq links[d]
    BY <1>7, <1>t DEF Ble!FaceEnds, Ble!TypeOK
  <2> QED BY <2>1 DEF BleInv, Ble!OneOwned, Ble!FacesOwned, Ble!IsCancelled, Ble!Alive, Ble!Serving
<1>8. Ble!OneOwned' /\ Ble!FacesOwned'
  BY <1>1, <1>2, <1>3, <1>4, <1>5, <1>6, <1>7 DEF Ble!Next
<1> QED BY <1>t, <1>8 DEF BleInv

\* The run's specification is the component's, with the others at rest.
LEMMA BleSpecIsItsOwn == BleSpec => Ble!Spec
<1>1. BleInit => Ble!Init
  BY DEF BleInit
<1>2. [BleNext]_<<origin, vars, provisioned, advertised>> => [Ble!Next]_Ble!vars
  BY DEF BleNext, advertised, Ble!vars
<1> QED
  BY <1>1, <1>2, PTL DEF BleSpec, Ble!Spec

\* The listener lifecycle invariant holds of every reachable state.
THEOREM BleInvariance == BleSpec => []BleInv
BY BleSpecIsItsOwn, BleInitInv, BleStepInv, PTL DEF Ble!Spec

\* No listener task that was not told to end escapes BleControl, whatever the
\* order of starts, stops, failed binds and accepts.
THEOREM OneOwnedHolds == BleSpec => []OneOwned
<1>1. BleInv => OneOwned
  BY DEF BleInv, OneOwned
<1> QED BY <1>1, BleInvariance, PTL

\* Every central is connected by the owned listener or by one that was told to
\* end.
THEOREM FacesOwnedHolds == BleSpec => []FacesOwned
<1>1. BleInv => FacesOwned
  BY DEF BleInv, FacesOwned
<1> QED BY <1>1, BleInvariance, PTL

-----------------------------------------------------------------------------
(* The provisioner. *)

\* Where a request can be, by what it asks for, and when it has a handoff.
StagesOK ==
    /\ asks \in [Requests -> Provisioner!Stages]
    /\ handoff \in [Requests -> {"none", "serving", "ended", "gone"}]
    /\ \A r \in Requests :
          /\ asks[r] \in {"scoped", "made"} => Scheme[r] \in {"shm", "named"}
          /\ asks[r] \in {"cleared", "bound", "served"} => Scheme[r] = "shm"
          /\ asks[r] = "connecting" => Scheme[r] = "dial"
          /\ handoff[r] # "none" => Scheme[r] = "shm" /\ asks[r] \in {"served", "done"}

\* A socket is at its request's path, and somebody will remove it.
FilesOK ==
    /\ file \in [Paths -> Provisioner!Files]
    /\ \A p \in Paths : \A r \in Requests : file[p] = Provisioner!Bound(r) =>
          Path[r] = p /\ (asks[r] = "bound" \/ handoff[r] \in {"serving", "ended"})

\* Who else removes what lies at r's path.
Reused(r) == \E q \in Requests \ {r} : Path[q] = Path[r] /\ Provisioner!PastClearing(q)

\* From bind until its handoff is over, a socket is only taken away by another
\* request with the same token.
Reachable ==
    \A r \in Requests : asks[r] = "bound" \/ handoff[r] = "serving" =>
        file[Path[r]] = Provisioner!Bound(r) \/ Reused(r)

ProvInv == StagesOK /\ FilesOK /\ Reachable

LEMMA BoundIs ==
  /\ \A r, q \in Requests : Provisioner!Bound(r) = Provisioner!Bound(q) => r = q
  /\ \A r \in Requests : /\ Provisioner!Bound(r) # Provisioner!None
                         /\ Provisioner!Bound(r) # Provisioner!Left
                         /\ Provisioner!Bound(r) \in Provisioner!Files
  /\ Provisioner!None \in Provisioner!Files /\ Provisioner!Left \in Provisioner!Files
<1>1. ASSUME NEW r \in Requests, NEW q \in Requests, Provisioner!Bound(r) = Provisioner!Bound(q)
      PROVE  r = q
  <2>1. Provisioner!Bound(r).of = r /\ Provisioner!Bound(q).of = q
    BY DEF Provisioner!Bound
  <2> QED
    BY <1>1, <2>1
<1>2. ASSUME NEW r \in Requests
      PROVE  Provisioner!Bound(r) # Provisioner!None /\ Provisioner!Bound(r) # Provisioner!Left
  <2>1. /\ Provisioner!Bound(r).by = "request" /\ Provisioner!None.by = "nobody"
        /\ Provisioner!Left.by = "earlier"
    BY DEF Provisioner!Bound, Provisioner!None, Provisioner!Left
  <2> QED
    BY <2>1
<1> QED
  BY <1>1, <1>2 DEF Provisioner!Files

LEMMA ProvInitInv == MCInit => ProvInv
<1> SUFFICES ASSUME MCInit PROVE ProvInv
  OBVIOUS
<1>1. PICK who : Provisioner!Asked(who)
  BY DEF MCInit
<1>2. StagesOK
  BY <1>1 DEF Provisioner!Asked, StagesOK, Provisioner!Stages
<1>3. FilesOK
  <2>1. \A p \in Paths : file[p] \in {Provisioner!Left, Provisioner!None}
    BY <1>1 DEF Provisioner!Asked
  <2>2. file \in [Paths -> Provisioner!Files]
    BY <1>1, BoundIs DEF Provisioner!Asked
  <2> QED
    BY <2>1, <2>2, BoundIs DEF FilesOK
<1>4. Reachable
  BY <1>1 DEF Provisioner!Asked, Reachable
<1> QED
  BY <1>2, <1>3, <1>4 DEF ProvInv

\* A request that moves on leaves the others where they are, and what was cleared
\* stays cleared.
LEMMA Moves ==
    ASSUME ProvInv, NEW r \in Requests, NEW at \in Provisioner!Stages, Provisioner!Goto(r, at),
           Provisioner!PastClearing(r) => at \in {"bound", "served", "done", "refused"}
    PROVE  /\ asks' \in [Requests -> Provisioner!Stages]
           /\ \A q \in Requests : asks'[q] = IF q = r THEN at ELSE asks[q]
           /\ \A q \in Requests : Provisioner!PastClearing(q) => Provisioner!PastClearing(q)'
<1>1. asks' = [asks EXCEPT ![r] = at] /\ asks \in [Requests -> Provisioner!Stages]
  BY DEF ProvInv, StagesOK, Provisioner!Goto
<1>2. /\ asks' \in [Requests -> Provisioner!Stages]
      /\ \A q \in Requests : asks'[q] = IF q = r THEN at ELSE asks[q]
  BY <1>1
<1>3. ASSUME NEW q \in Requests, Provisioner!PastClearing(q) PROVE Provisioner!PastClearing(q)'
  <2>1. CASE q = r
    BY <1>2, <1>3, <2>1 DEF Provisioner!PastClearing
  <2>2. CASE q # r
    BY <1>2, <1>3, <2>2 DEF Provisioner!PastClearing
  <2> QED
    BY <2>1, <2>2
<1> QED
  BY <1>2, <1>3

LEMMA StaysReused ==
    ASSUME NEW r \in Requests, Reused(r),
           \A q \in Requests : Provisioner!PastClearing(q) => Provisioner!PastClearing(q)'
    PROVE  Reused(r)'
BY DEF Reused

\* A step that neither binds, spawns nor removes: the request moves on, or nothing
\* of this does.
LEMMA Quiet ==
    ASSUME ProvInv, NEW r \in Requests, NEW at \in Provisioner!Stages, Provisioner!Goto(r, at),
           Provisioner!PastClearing(r) => at \in {"bound", "served", "done", "refused"},
           at # "bound", asks[r] # "bound",
           UNCHANGED <<file, handoff>>, handoff[r] # "none" => at \in {"served", "done"},
           at \in {"scoped", "made"} => Scheme[r] \in {"shm", "named"},
           at \in {"cleared", "served"} => Scheme[r] = "shm",
           at = "connecting" => Scheme[r] = "dial"
    PROVE  ProvInv'
<1>1. /\ asks' \in [Requests -> Provisioner!Stages]
      /\ \A q \in Requests : asks'[q] = IF q = r THEN at ELSE asks[q]
      /\ \A q \in Requests : Provisioner!PastClearing(q) => Provisioner!PastClearing(q)'
  BY Moves
<1>2. StagesOK'
  BY <1>1 DEF ProvInv, StagesOK
<1>3. \A q \in Requests : asks'[q] = "bound" <=> asks[q] = "bound"
  BY <1>1
<1>4. FilesOK'
  BY <1>3 DEF ProvInv, FilesOK, Provisioner!Bound, Provisioner!Files
<1>5. Reachable'
  BY <1>1, <1>3, StaysReused DEF ProvInv, Reachable, Provisioner!Bound
<1> QED
  BY <1>2, <1>4, <1>5 DEF ProvInv

\* A file goes from r's path: another request whose socket it was has the same
\* token.
LEMMA Removes ==
    ASSUME ProvInv, NEW r \in Requests, Provisioner!PastClearing(r)',
           \A q \in Requests : Provisioner!PastClearing(q) => Provisioner!PastClearing(q)',
           file' = [file EXCEPT ![Path[r]] = Provisioner!None],
           \A q \in Requests \ {r} : asks'[q] = asks[q] /\ handoff'[q] = handoff[q],
           asks'[r] # "bound", handoff'[r] # "serving"
    PROVE  FilesOK' /\ Reachable'
<1>1. Path \in [Requests -> Paths]
  BY LifetimesAssumption DEF Provisioner!ProvisionAssumption
<1>2. /\ file' \in [Paths -> Provisioner!Files]
      /\ \A p \in Paths : file'[p] = IF p = Path[r] THEN Provisioner!None ELSE file[p]
  BY <1>1, BoundIs DEF ProvInv, FilesOK
<1>3. FilesOK'
  <2> SUFFICES ASSUME NEW p \in Paths, NEW q \in Requests, file'[p] = Provisioner!Bound(q)
               PROVE  Path[q] = p /\ (asks'[q] = "bound" \/ handoff'[q] \in {"serving", "ended"})
    BY <1>2 DEF FilesOK, Provisioner!Bound, Provisioner!Files
  <2>1. p # Path[r] /\ file[p] = Provisioner!Bound(q)
    BY <1>2, BoundIs
  <2>2. Path[q] = p /\ (asks[q] = "bound" \/ handoff[q] \in {"serving", "ended"})
    BY <2>1 DEF ProvInv, FilesOK
  <2> QED
    BY <2>1, <2>2
<1>4. Reachable'
  <2> SUFFICES ASSUME NEW q \in Requests, asks'[q] = "bound" \/ handoff'[q] = "serving"
               PROVE  file'[Path[q]] = Provisioner!Bound(q) \/ Reused(q)'
    BY DEF Reachable, Provisioner!Bound
  <2>1. q # r /\ (asks[q] = "bound" \/ handoff[q] = "serving") /\ Path[q] \in Paths
    BY <1>1
  <2>2. file[Path[q]] = Provisioner!Bound(q) \/ Reused(q)
    BY <2>1 DEF ProvInv, Reachable
  <2>3. CASE Path[q] = Path[r]
    BY <2>1, <2>3 DEF Reused
  <2>4. CASE Path[q] # Path[r]
    BY <1>2, <2>1, <2>2, <2>4, StaysReused
  <2> QED
    BY <2>3, <2>4
<1> QED
  BY <1>3, <1>4

LEMMA ProvStepInv == ProvInv /\ [Provisioner!Next]_Provisioner!vars => ProvInv'
<1> SUFFICES ASSUME ProvInv, [Provisioner!Next]_Provisioner!vars PROVE ProvInv'
  OBVIOUS
<1>p. Path \in [Requests -> Paths]
  BY LifetimesAssumption DEF Provisioner!ProvisionAssumption
<1>i. ASSUME NEW r \in Requests
      PROVE  /\ handoff[r] # "none" => Scheme[r] = "shm" /\ asks[r] \in {"served", "done"}
             /\ asks[r] \in {"scoped", "made"} => Scheme[r] \in {"shm", "named"}
             /\ asks[r] \in {"cleared", "bound", "served"} => Scheme[r] = "shm"
             /\ asks[r] = "connecting" => Scheme[r] = "dial"
  BY DEF ProvInv, StagesOK
<1>1. ASSUME NEW r \in Requests,
             \/ Provisioner!Scope(r) \/ Provisioner!Make(r)
             \/ Provisioner!AddFace(r) \/ Provisioner!Dial(r) \/ Provisioner!Dialled(r)
      PROVE  ProvInv'
  <2>1. PICK at \in {"scoped", "made", "refused", "done", "connecting"} :
          /\ Provisioner!Goto(r, at) /\ UNCHANGED <<file, handoff>>
          /\ at = "scoped" => asks[r] = "asked" /\ Provisioner!Shm(r)
          /\ at = "made" => asks[r] = "scoped"
          /\ at = "refused" => asks[r] \in {"scoped", "asked", "connecting"}
          /\ at = "done" => asks[r] \in {"served", "made", "connecting"}
          /\ at = "connecting" => asks[r] = "asked" /\ Scheme[r] = "dial"
    BY <1>1 DEF Provisioner!Scope, Provisioner!Make, Provisioner!AddFace, Provisioner!Dial,
                Provisioner!Dialled, Provisioner!At
  <2>2. at \in Provisioner!Stages
    BY DEF Provisioner!Stages
  <2> QED
    BY <1>i, <2>1, <2>2, Quiet DEF Provisioner!PastClearing, Provisioner!Shm
<1>2. ASSUME NEW r \in Requests, Provisioner!ClearPath(r) PROVE ProvInv'
  <2>1. /\ asks[r] = "made" /\ Scheme[r] = "shm" /\ UNCHANGED handoff
        /\ Provisioner!Goto(r, "cleared")
        /\ file' = [file EXCEPT ![Path[r]] = Provisioner!None]
    BY <1>2 DEF Provisioner!ClearPath, Provisioner!At
  <2>2. /\ asks' \in [Requests -> Provisioner!Stages]
        /\ \A q \in Requests : asks'[q] = IF q = r THEN "cleared" ELSE asks[q]
        /\ \A q \in Requests : Provisioner!PastClearing(q) => Provisioner!PastClearing(q)'
    BY <2>1, Moves DEF Provisioner!PastClearing, Provisioner!Stages
  <2>3. handoff[r] = "none"
    BY <1>i, <2>1
  <2>4. StagesOK'
    BY <2>1, <2>2, <2>3 DEF ProvInv, StagesOK
  <2>5. Provisioner!PastClearing(r)'
    BY <2>1, <2>2 DEF Provisioner!PastClearing
  <2>6. FilesOK' /\ Reachable'
    BY <2>1, <2>2, <2>3, <2>5, Removes
  <2> QED
    BY <2>4, <2>6 DEF ProvInv
<1>3. ASSUME NEW r \in Requests, Provisioner!Bind(r) PROVE ProvInv'
  <2>0. asks[r] = "cleared" /\ Scheme[r] = "shm" /\ UNCHANGED handoff /\ handoff[r] = "none"
    BY <1>3, <1>i DEF Provisioner!Bind, Provisioner!At
  <2>1. CASE Provisioner!Goto(r, "refused") /\ UNCHANGED file
    BY <1>i, <2>0, <2>1, Quiet DEF Provisioner!PastClearing, Provisioner!Stages
  <2>2. CASE /\ file[Path[r]] = Provisioner!None /\ Provisioner!Goto(r, "bound")
             /\ file' = [file EXCEPT ![Path[r]] = Provisioner!Bound(r)]
    <3>1. /\ asks' \in [Requests -> Provisioner!Stages]
          /\ \A q \in Requests : asks'[q] = IF q = r THEN "bound" ELSE asks[q]
          /\ \A q \in Requests : Provisioner!PastClearing(q) => Provisioner!PastClearing(q)'
      BY <2>2, Moves DEF Provisioner!PastClearing, Provisioner!Stages
    <3>2. StagesOK'
      BY <2>0, <3>1 DEF ProvInv, StagesOK
    <3>3. /\ file' \in [Paths -> Provisioner!Files]
          /\ \A p \in Paths : file'[p] = IF p = Path[r] THEN Provisioner!Bound(r) ELSE file[p]
      BY <1>p, <2>2, BoundIs DEF ProvInv, FilesOK
    <3>4. FilesOK'
      <4> SUFFICES ASSUME NEW p \in Paths, NEW q \in Requests, file'[p] = Provisioner!Bound(q)
                   PROVE  Path[q] = p /\ (asks'[q] = "bound" \/ handoff'[q] \in {"serving", "ended"})
        BY <3>3 DEF FilesOK, Provisioner!Bound, Provisioner!Files
      <4>1. CASE p = Path[r]
        BY <3>1, <3>3, <4>1, BoundIs
      <4>2. CASE p # Path[r]
        BY <2>0, <3>1, <3>3, <4>2 DEF ProvInv, FilesOK
      <4> QED
        BY <4>1, <4>2
    <3>5. Provisioner!PastClearing(r)'
      BY <2>0, <3>1 DEF Provisioner!PastClearing
    <3>6. Reachable'
      <4> SUFFICES ASSUME NEW q \in Requests, asks'[q] = "bound" \/ handoff'[q] = "serving"
                   PROVE  file'[Path[q]] = Provisioner!Bound(q) \/ Reused(q)'
        BY DEF Reachable, Provisioner!Bound
      <4>1. CASE q = r
        BY <1>p, <3>3, <4>1
      <4>2. CASE q # r /\ Path[q] = Path[r]
        BY <3>5, <4>2 DEF Reused
      <4>3. CASE q # r /\ Path[q] # Path[r]
        <5>1. file[Path[q]] = Provisioner!Bound(q) \/ Reused(q)
          BY <2>0, <3>1, <4>3 DEF ProvInv, Reachable
        <5> QED
          BY <1>p, <3>1, <3>3, <4>3, <5>1, StaysReused
      <4> QED
        BY <4>1, <4>2, <4>3
    <3> QED
      BY <3>2, <3>4, <3>6 DEF ProvInv
  <2> QED
    BY <1>3, <2>1, <2>2 DEF Provisioner!Bind
<1>4. ASSUME NEW r \in Requests, Provisioner!Spawn(r) PROVE ProvInv'
  <2>1. /\ asks[r] = "bound" /\ Scheme[r] = "shm" /\ UNCHANGED file
        /\ Provisioner!Goto(r, "served") /\ handoff' = [handoff EXCEPT ![r] = "serving"]
    BY <1>4, <1>i DEF Provisioner!Spawn, Provisioner!At
  <2>2. /\ asks' \in [Requests -> Provisioner!Stages]
        /\ \A q \in Requests : asks'[q] = IF q = r THEN "served" ELSE asks[q]
        /\ \A q \in Requests : Provisioner!PastClearing(q) => Provisioner!PastClearing(q)'
    BY <2>1, Moves DEF Provisioner!Stages
  <2>3. \A q \in Requests : handoff'[q] = IF q = r THEN "serving" ELSE handoff[q]
    BY <2>1 DEF ProvInv, StagesOK
  <2>4. StagesOK'
    BY <2>1, <2>2, <2>3 DEF ProvInv, StagesOK
  <2>5. FilesOK'
    BY <2>1, <2>2, <2>3 DEF ProvInv, FilesOK, Provisioner!Bound, Provisioner!Files
  <2>6. Reachable'
    BY <2>1, <2>2, <2>3, StaysReused DEF ProvInv, Reachable, Provisioner!Bound
  <2> QED
    BY <2>4, <2>5, <2>6 DEF ProvInv
<1>5. ASSUME NEW r \in Requests, Provisioner!ServeEnds(r) PROVE ProvInv'
  <2>1. /\ handoff[r] = "serving" /\ UNCHANGED <<asks, file>>
        /\ handoff' = [handoff EXCEPT ![r] = "ended"]
    BY <1>5 DEF Provisioner!ServeEnds
  <2>2. \A q \in Requests : handoff'[q] = IF q = r THEN "ended" ELSE handoff[q]
    BY <2>1 DEF ProvInv, StagesOK
  <2>3. StagesOK'
    BY <1>i, <2>1, <2>2 DEF ProvInv, StagesOK
  <2>4. FilesOK'
    BY <2>1, <2>2 DEF ProvInv, FilesOK, Provisioner!Bound, Provisioner!Files
  <2>5. Reachable'
    BY <2>1, <2>2 DEF ProvInv, Reachable, Reused, Provisioner!PastClearing, Provisioner!Bound
  <2> QED
    BY <2>3, <2>4, <2>5 DEF ProvInv
<1>6. ASSUME NEW r \in Requests, Provisioner!RemoveFile(r) PROVE ProvInv'
  <2>1. /\ handoff[r] = "ended" /\ UNCHANGED asks
        /\ handoff' = [handoff EXCEPT ![r] = "gone"]
        /\ file' = [file EXCEPT ![Path[r]] = Provisioner!None]
    BY <1>6 DEF Provisioner!RemoveFile
  <2>2. \A q \in Requests : handoff'[q] = IF q = r THEN "gone" ELSE handoff[q]
    BY <2>1 DEF ProvInv, StagesOK
  <2>3. StagesOK'
    BY <1>i, <2>1, <2>2 DEF ProvInv, StagesOK
  <2>4. Scheme[r] = "shm" /\ asks[r] \in {"served", "done"}
    BY <1>i, <2>1
  <2>5. /\ Provisioner!PastClearing(r)'
        /\ \A q \in Requests : Provisioner!PastClearing(q) => Provisioner!PastClearing(q)'
    BY <2>1, <2>4 DEF Provisioner!PastClearing
  <2>6. /\ \A q \in Requests \ {r} : asks'[q] = asks[q] /\ handoff'[q] = handoff[q]
        /\ asks'[r] # "bound" /\ handoff'[r] # "serving"
    BY <2>1, <2>2, <2>4
  <2>7. FilesOK' /\ Reachable'
    BY <2>1, <2>5, <2>6, Removes
  <2> QED
    BY <2>3, <2>7 DEF ProvInv
<1>7. ASSUME UNCHANGED <<asks, file, handoff>> PROVE ProvInv'
  BY <1>7 DEF ProvInv, StagesOK, FilesOK, Reachable, Reused, Provisioner!PastClearing,
              Provisioner!Bound, Provisioner!Files
<1>8. ASSUME NEW r \in Requests, Provisioner!FaceEnds(r) \/ Provisioner!Destroy(r) PROVE ProvInv'
  BY <1>7, <1>8 DEF Provisioner!FaceEnds, Provisioner!Destroy
<1>9. ASSUME NEW c \in Clients, Provisioner!Disconnect(c) PROVE ProvInv'
  BY <1>7, <1>9 DEF Provisioner!Disconnect
<1>10. CASE UNCHANGED Provisioner!vars
  BY <1>7, <1>10 DEF Provisioner!vars
<1> QED
  BY <1>1, <1>2, <1>3, <1>4, <1>5, <1>6, <1>8, <1>9, <1>10
     DEF Provisioner!Next, Provisioner!Provision

\* Whoever disconnects when, whatever fails, and although binding, spawning,
\* ending and removing are steps of their own: a socket that is there will be
\* removed by its task, and one that is served can only be missing if its token was
\* used again (ShmProvisioner::provision).
THEOREM SocketIsServedHolds == MCSpec => []SocketIsServed
<1>1. [MCNext]_<<origin, vars, provisioned, advertised>>
        => [Provisioner!Next]_Provisioner!vars
  BY DEF MCNext, provisioned, Provisioner!vars
<1>2. MCSpec => []ProvInv
  BY <1>1, ProvInitInv, ProvStepInv, PTL DEF MCSpec
<1>3. ProvInv => SocketIsServed
  <2> SUFFICES ASSUME ProvInv PROVE Provisioner!SocketsEnd /\ Provisioner!ServedIsReachable
    BY DEF SocketIsServed, Provisioner!SocketIsServed
  <2>1. Path \in [Requests -> Paths]
    BY LifetimesAssumption DEF Provisioner!ProvisionAssumption
  <2>2. Provisioner!SocketsEnd
    BY <2>1 DEF ProvInv, FilesOK, Provisioner!SocketsEnd, Provisioner!At
  <2>3. Provisioner!ServedIsReachable
    BY DEF ProvInv, Reachable, Reused, Provisioner!ServedIsReachable
  <2> QED
    BY <2>2, <2>3
<1> QED BY <1>2, <1>3, PTL
================================================================================

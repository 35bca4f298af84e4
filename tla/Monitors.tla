------------------------------ MODULE Monitors ------------------------------
(***************************************************************************)
(* The watchers of monitors.rs: one task per watcher ticks the shared       *)
(* registry until the forwarder's token is cancelled (spawn_polling).  The  *)
(* watcher modelled is "forwarding", whose probe sums the egress drops of   *)
(* the live faces one face at a time and compares the sum with that of the  *)
(* tick before, while other threads forward, add faces and end them.        *)
(***************************************************************************)
EXTENDS Naturals, FiniteSets

CONSTANTS Faces,      \* the face ids, each a slot of the engine's table
          MaxDrops,   \* bound: egress drops in all
          MaxTicks    \* bound: ticks of the watcher

\* Assumed by the module that instantiates this one.
MonitorsAssumption ==
  IsFiniteSet(Faces) /\ MaxDrops \in Nat /\ MaxTicks \in Nat \ {0}

VARIABLES
  faces,      \* the live faces of the table
  drops,      \* out_drops of each face
  cancelled,  \* the forwarder's cancellation token
  pc,         \* "wait" in the select, "sample" inside the probe, "ended"
  left,       \* slots of the table the probe has not visited yet
  sum,        \* drops summed so far by this probe
  prev,       \* p_drops: the sum of the tick before
  entry,      \* the registry's entry: status, ok, fail
  noticed     \* history: what an operator may hold the tick to (see below)

vars == <<faces, drops, cancelled, pc, left, sum, prev, entry, noticed>>

Counters == [Faces -> 0 .. MaxDrops]

TypeOK ==
  /\ faces \subseteq Faces
  /\ drops \in Counters
  /\ cancelled \in BOOLEAN
  /\ pc \in {"wait", "sample", "ended"}
  /\ left \subseteq Faces
  /\ {sum, prev} \subseteq 0 .. MaxDrops
  /\ entry \in [status : {"running", "stopped"}, ok : 0 .. MaxTicks, fail : 0 .. MaxTicks]
  /\ noticed \in [all : 0 .. MaxDrops, due : SUBSET Faces, gone : BOOLEAN, missed : BOOLEAN]

\* noticed.all     drops in all, of live and of ended faces
\* noticed.due     live faces that dropped after the last probe and before this
\* noticed.gone    a face that had drops has ended
\* noticed.missed  a tick was ok although a drop was due
Registered(at, status) ==
  /\ faces = {}
  /\ drops = [f \in Faces |-> 0]
  /\ cancelled = FALSE
  /\ pc = at
  /\ left = {}
  /\ sum = 0
  /\ prev = 0
  /\ entry = [status |-> status, ok |-> 0, fail |-> 0]
  /\ noticed = [all |-> 0, due |-> {}, gone |-> FALSE, missed |-> FALSE]

Init == Registered("wait", "running")

\* A watcher that has ended.
Idle == Registered("ended", "stopped")

-----------------------------------------------------------------------------
(* The engine, seen through its table of face states. *)

FaceAdded(f) ==
  /\ f \notin faces
  /\ faces' = faces \union {f}
  /\ drops' = [drops EXCEPT ![f] = 0]
  /\ UNCHANGED <<cancelled, pc, left, sum, prev, entry, noticed>>

FaceEnds(f) ==
  /\ f \in faces
  /\ faces' = faces \ {f}
  /\ noticed' = [noticed EXCEPT !.gone = @ \/ drops[f] > 0, !.due = @ \ {f}]
  /\ UNCHANGED <<drops, cancelled, pc, left, sum, prev, entry>>

\* The outbound queue of f is full.
Drop(f) ==
  /\ f \in faces
  /\ noticed.all < MaxDrops
  /\ drops' = [drops EXCEPT ![f] = @ + 1]
  /\ noticed' = [noticed EXCEPT !.all = @ + 1,
                                !.due = IF pc = "wait" THEN @ \union {f} ELSE @]
  /\ UNCHANGED <<faces, cancelled, pc, left, sum, prev, entry>>

-----------------------------------------------------------------------------
(* The watcher's task. *)

\* ticker.tick(): the probe begins to walk the table.
Tick ==
  /\ pc = "wait"
  /\ entry.ok + entry.fail < MaxTicks
  /\ pc' = "sample"
  /\ left' = Faces
  /\ sum' = 0
  /\ UNCHANGED <<faces, drops, cancelled, prev, entry, noticed>>

\* Mutant of Visit: = in place of +=.
VisitLast(f) ==
  /\ pc = "sample"
  /\ f \in left
  /\ left' = left \ {f}
  /\ sum' = IF f \in faces THEN drops[f] ELSE sum
  /\ UNCHANGED <<faces, drops, cancelled, pc, prev, entry, noticed>>

Visit(f) ==
  /\ pc = "sample"
  /\ f \in left
  /\ left' = left \ {f}
  /\ sum' = IF f \in faces THEN sum + drops[f] ELSE sum
  /\ UNCHANGED <<faces, drops, cancelled, pc, prev, entry, noticed>>

\* d_drops: the growth of the sum, never below zero (saturating_sub).
NewDrops == IF sum > prev THEN sum - prev ELSE 0

Record ==
  /\ pc = "sample"
  /\ left = {}
  /\ prev' = sum
  /\ entry' = IF NewDrops = 0 THEN [entry EXCEPT !.ok = @ + 1]
                              ELSE [entry EXCEPT !.fail = @ + 1]
  /\ noticed' = [noticed EXCEPT !.missed = @ \/ (noticed.due # {} /\ NewDrops = 0),
                                !.due = {}]
  /\ pc' = "wait"
  /\ UNCHANGED <<faces, drops, cancelled, left, sum>>

Cancel ==
  /\ ~cancelled
  /\ cancelled' = TRUE
  /\ UNCHANGED <<faces, drops, pc, left, sum, prev, entry, noticed>>

\* Mutant of Stop: the loop breaks without registry.stop.
StopSilently ==
  /\ pc = "wait"
  /\ cancelled
  /\ pc' = "ended"
  /\ UNCHANGED <<faces, drops, cancelled, left, sum, prev, entry, noticed>>

\* cancel.cancelled(): the loop breaks and the entry says so.
Stop ==
  /\ pc = "wait"
  /\ cancelled
  /\ pc' = "ended"
  /\ entry' = [entry EXCEPT !.status = "stopped"]
  /\ UNCHANGED <<faces, drops, cancelled, left, sum, prev, noticed>>

Next ==
  \/ \E f \in Faces : FaceAdded(f) \/ FaceEnds(f) \/ Drop(f) \/ Visit(f)
  \/ Tick \/ Record \/ Cancel \/ Stop

Spec == Init /\ [][Next]_vars

\* A probe runs to its end.  After a tick the ticker is not ready for a whole
\* interval, so a cancelled token is taken by the select before long.
Fairness ==
  /\ \A f \in Faces : WF_vars(Visit(f))
  /\ WF_vars(Record)
  /\ SF_vars(Stop)

FairSpec == Spec /\ Fairness

-----------------------------------------------------------------------------
(* A failing tick is never a false alarm: each one answers a drop of its    *)
(* own, though faces come and go while the probe walks the table            *)
(* (forwarding_probe).                                                      *)
AlarmIsReal == entry.fail <= noticed.all

(* As long as no face that dropped has ended, a live face's drop before a   *)
(* probe makes that probe's tick fail (forwarding_probe).                   *)
DropsAreNoticed == noticed.missed => noticed.gone

(* What an operator may take from the probe's ticks (forwarding_probe).     *)
TicksMeanDrops == TypeOK /\ AlarmIsReal /\ DropsAreNoticed

(* A cancelled forwarder's watcher says "stopped" in the end                *)
(* (spawn_polling: "so a late ext/list read ... reports honest state").     *)
CancelStops == cancelled ~> (entry.status = "stopped")

(* monitors.rs:170: the probe "fails a tick when egress drops appear".  It  *)
(* does not when another face ended since: the sum went down by that face's *)
(* drops, and saturating_sub hides the new ones of a face that is still up. *)
DropFailsTick == ~noticed.missed

=============================================================================

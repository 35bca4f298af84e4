----------------------------- MODULE RadioFace -----------------------------
(***************************************************************************)
(* The radio faces of a forwarder (binaries/ndn-fwd/src/radio_face.rs and  *)
(* the radio arm of face_setup.rs): their radios are brought up one after  *)
(* the other, each on a thread of its own with a time limit; a face mounts *)
(* if any came up, the process exits if none did.  A mounted face runs its *)
(* cognition loop over the FIB, the gate for legacy neighbours, its report *)
(* task and one link watcher per radio.                                    *)
(*                                                                         *)
(* The drivers (ndn-phy-wifi) are external: a dongle is claimed by one     *)
(* thread at a time, its claim goes with the last handle to it, and tasks  *)
(* attached to a transport are aborted when the transport is dropped.      *)
(***************************************************************************)
EXTENDS Naturals, FiniteSets, Sequences, SequencesExt

CONSTANTS
    Radios,     \* face -> sequence of [usb, address]: its configured radios
    Dongles,    \* USB dongles of the host, a set of naturals: the bus order
    NamePrefixes,\* names, as sequences of components: routed and asked for
    NextHops,   \* the sets of next hops a route may be given
    Routes0,    \* the FIB the configuration has installed
    Legacy0,    \* the faces whose medium has a legacy-only neighbour at the start
    MaxChanges  \* bound: changes of routes and of neighbours

Faces == DOMAIN Radios
Ids == {<<f, i>> : f \in Faces, i \in 1 .. 4}
All == {r \in Ids : r[2] <= Len(Radios[r[1]])}
Unset == 0
Hops == Faces \cup {0}      \* 0 stands for the faces that are not radio faces

ASSUME RadioFaceAssumption ==
    /\ Dongles \subseteq Nat \ {Unset} /\ Dongles # {}
    /\ Radios \in Seq(Seq([usb : BOOLEAN, address : Dongles \cup {Unset}])) /\ Radios # <<>>
    /\ \A f \in Faces : Len(Radios[f]) \in 1 .. 4
    /\ \A p \in NamePrefixes : p \in Seq(ToSet(p))
    /\ NextHops \subseteq SUBSET Hops /\ Routes0 \in [NamePrefixes -> SUBSET Hops]
    /\ Legacy0 \subseteq Faces

VARIABLES
    phase,      \* "starting", "up" or "exited"
    cur,        \* the radio being brought up, <<face, index>>
    thread,     \* radio -> "none", "opening", "claimed", "up", "failed"
    late,       \* radios whose thread was given up
    claim,      \* dongle -> the radio whose thread or bearer holds it, or {}
    face,       \* face -> "none", "mounted", "ended"
    tasks,      \* face -> the tasks that run for it
    cancelled,  \* the forwarder's token
    fib,        \* prefix -> its next hops; none if it is not routed
    ctxs,       \* face -> keys of the active contexts of its control
    demand,     \* face -> the key last demanded
    known,      \* history: face -> what it was routed when its contexts were derived,
    asked,      \* and when the key was
    legacy,     \* faces whose medium has a legacy-only neighbour
    gate,       \* faces that send at the legacy rate
    registry,   \* watcher id -> status
    watchers,   \* radios whose link watcher runs
    changes

radioVars == <<phase, cur, thread, late, claim, face, tasks, cancelled, fib, ctxs,
               demand, known, asked, legacy, gate, registry, watchers, changes>>
boot == <<phase, cur, thread, late, claim>>
routing == <<fib, ctxs, demand, known, asked>>
cognition == <<routing, legacy, gate, changes>>
watch == <<registry, watchers>>

LinkIds == {r[2] : r \in All}
Attached == {"log", "loss", "gate", "control"}
Root == <<"/">>     \* the key of the context the loop falls back to
Key(p) == <<"key", p>>

Boot(at) ==
    /\ phase = at
    /\ cur = <<1, 1>>
    /\ thread = [r \in All |-> "none"]
    /\ late = {}
    /\ claim = [d \in Dongles |-> {}]
    /\ face = [f \in Faces |-> "none"]
    /\ tasks = [f \in Faces |-> {}]
    /\ cancelled = FALSE
    /\ fib = Routes0
    /\ ctxs = [f \in Faces |-> {}]
    /\ demand = [f \in Faces |-> {}]
    /\ known = [f \in Faces |-> {}]
    /\ asked = [f \in Faces |-> {}]
    /\ legacy = Legacy0
    /\ gate = {}
    /\ registry = [i \in LinkIds |-> "absent"]
    /\ watchers = {}
    /\ changes = 0

RadioInit == Boot("starting")

\* A forwarder whose radio faces are never brought up.
NoRadios == Boot("exited")

-----------------------------------------------------------------------------
(* The thread of one radio: build_bearer. *)

DeviceOf(r) == Radios[r[1]][r[2]]

\* device_select: the pinned dongle, or the first of the bus, free or not.
Wanted(r) == IF DeviceOf(r).address # Unset THEN DeviceOf(r).address
             ELSE CHOOSE d \in Dongles : \A e \in Dongles : d <= e

Opening(r) == thread[r] = "opening"

\* open_radio claims its dongle, and may then take long; an af-packet socket
\* claims nothing.
Claim(r) ==
    /\ Opening(r) /\ DeviceOf(r).usb /\ claim[Wanted(r)] = {}
    /\ claim' = [claim EXCEPT ![Wanted(r)] = {r}]
    /\ thread' = [thread EXCEPT ![r] = "claimed"]
    /\ UNCHANGED <<phase, cur, late, face, tasks, cancelled, cognition, watch>>

Release(r) == claim' = [d \in Dongles |-> claim[d] \ {r}]

\* A dongle in use, a missing channel or interface, a failed rung, a driver this
\* build does not have.
OpenFails(r) ==
    /\ thread[r] \in {"opening", "claimed"}
    /\ thread' = [thread EXCEPT ![r] = "failed"]
    /\ Release(r)
    /\ UNCHANGED <<phase, cur, late, face, tasks, cancelled, cognition, watch>>

\* Mutant of Opens: a late bearer is kept.
OpensLate(r) ==
    /\ thread[r] = "claimed" \/ (Opening(r) /\ ~DeviceOf(r).usb)
    /\ thread' = [thread EXCEPT ![r] = IF r \in late THEN "failed" ELSE "up"]
    /\ UNCHANGED <<phase, cur, late, claim, face, tasks, cancelled, cognition, watch>>

\* The bearer is up; when nobody waits for it any more it is dropped.
Opens(r) ==
    /\ thread[r] = "claimed" \/ (Opening(r) /\ ~DeviceOf(r).usb)
    /\ IF r \in late
       THEN thread' = [thread EXCEPT ![r] = "failed"] /\ Release(r)
       ELSE thread' = [thread EXCEPT ![r] = "up"] /\ UNCHANGED claim
    /\ UNCHANGED <<phase, cur, late, face, tasks, cancelled, cognition, watch>>

-----------------------------------------------------------------------------
(* mount_radio_face, called by run_face_setup for one face after the other. *)

BringUp ==
    /\ phase = "starting" /\ thread[cur] = "none"
    /\ thread' = [thread EXCEPT ![cur] = "opening"]
    /\ UNCHANGED <<phase, cur, late, claim, face, tasks, cancelled, cognition, watch>>

Built(f) == {r \in All : r[1] = f /\ thread[r] = "up"}
IsLast(r) == r[2] = Len(Radios[r[1]])
After(r) == IF IsLast(r) THEN <<r[1] + 1, 1>> ELSE <<r[1], r[2] + 1>>

\* recv_timeout: an answer, or 25 s without one.
Answered == thread[cur] \in {"up", "failed"}

TimeOut ==
    /\ phase = "starting" /\ thread[cur] \in {"opening", "claimed"} /\ cur \notin late
    /\ late' = late \cup {cur}
    /\ UNCHANGED <<phase, cur, thread, claim, face, tasks, cancelled, cognition, watch>>

NextRadio ==
    /\ phase = "starting" /\ ~IsLast(cur)
    /\ Answered \/ cur \in late
    /\ cur' = After(cur)
    /\ UNCHANGED <<phase, thread, late, claim, face, tasks, cancelled, cognition, watch>>

\* No capability came up: the process exits, and its threads with it.
Exit ==
    /\ phase = "starting" /\ IsLast(cur) /\ (Answered \/ cur \in late)
    /\ Built(cur[1]) = {}
    /\ phase' = "exited"
    /\ UNCHANGED <<cur, thread, late, claim, face, tasks, cancelled, cognition, watch>>

\* The face enters the engine's table with its tasks; face setup registers a
\* watcher link-<index> for each radio, and goes on to the next face.
Mount ==
    /\ phase = "starting" /\ IsLast(cur) /\ (Answered \/ cur \in late)
    /\ LET f == cur[1] IN
        /\ Built(f) # {}
        /\ face' = [face EXCEPT ![f] = "mounted"]
        /\ tasks' = [tasks EXCEPT ![f] = Attached \cup {"report"}]
        /\ watchers' = watchers \cup Built(f)
        /\ registry' = [i \in LinkIds |-> IF <<f, i>> \in Built(f) THEN "running" ELSE registry[i]]
        /\ IF f + 1 \in Faces THEN cur' = After(cur) /\ UNCHANGED phase
           ELSE phase' = "up" /\ UNCHANGED cur
    /\ UNCHANGED <<thread, late, claim, cancelled, cognition>>

-----------------------------------------------------------------------------
(* The cognition of a mounted face. *)

Routed(f) == {p \in NamePrefixes : f \in fib[p]}

\* active_contexts
ActiveContexts(f) == IF Routed(f) = {} THEN {Root} ELSE {Key(p) : p \in Routed(f)}

\* The routes change under the loop, which learns of it at its next refresh.
Route(p, nexthops) ==
    /\ phase = "up" /\ changes < MaxChanges /\ fib[p] # nexthops
    /\ fib' = [fib EXCEPT ![p] = nexthops]
    /\ changes' = changes + 1
    /\ UNCHANGED <<boot, face, tasks, cancelled, ctxs, demand, known, asked, legacy, gate,
                   watch>>

\* spawn_control_loop refreshes the contexts every fourth tick.
Refresh(f) ==
    /\ "control" \in tasks[f]
    /\ ctxs' = [ctxs EXCEPT ![f] = ActiveContexts(f)]
    /\ known' = [known EXCEPT ![f] = Routed(f)]
    /\ UNCHANGED <<boot, face, tasks, cancelled, fib, demand, asked, legacy, gate, changes,
                   watch>>

Matches(name) == {p \in NamePrefixes : fib[p] # {} /\ IsPrefix(p, name)}
Longest(name) == CHOOSE p \in Matches(name) : \A q \in Matches(name) : Len(q) <= Len(p)

\* Mutant of PrefixKey: the whole name is the key.
PrefixKeyWhole(name) == Key(name)

\* set_prefix_key: the depth of the longest match.
PrefixKey(name) == Key(Longest(name))

\* An Interest leaves by the face: demand for the prefix it is routed by, if the
\* face is one of that prefix's next hops.
Egress(f, name) ==
    /\ face[f] = "mounted"
    /\ Matches(name) # {} /\ f \in fib[Longest(name)]
    /\ demand' = [demand EXCEPT ![f] = {PrefixKey(name)}]
    /\ asked' = [asked EXCEPT ![f] = Routed(f)]
    /\ UNCHANGED <<boot, face, tasks, cancelled, fib, ctxs, known, legacy, gate, changes, watch>>

\* A legacy-only neighbour is heard, or its report grows old.
Neighbour(f) ==
    /\ face[f] = "mounted" /\ changes < MaxChanges
    /\ legacy' = IF f \in legacy THEN legacy \ {f} ELSE legacy \cup {f}
    /\ changes' = changes + 1
    /\ UNCHANGED <<boot, face, tasks, cancelled, routing, gate, watch>>

\* Mutant of Gate: the gate is never released.
GateSticks(f) ==
    /\ "gate" \in tasks[f]
    /\ gate' = IF f \in legacy THEN gate \cup {f} ELSE gate
    /\ UNCHANGED <<boot, face, tasks, cancelled, routing, legacy, changes, watch>>

Gate(f) ==
    /\ "gate" \in tasks[f]
    /\ gate' = IF f \in legacy THEN gate \cup {f} ELSE gate \ {f}
    /\ UNCHANGED <<boot, face, tasks, cancelled, routing, legacy, changes, watch>>

-----------------------------------------------------------------------------
(* The end of a face, of a task, of the forwarder. *)

\* The transport is dropped, and the attached tasks with it, by its last holder:
\* the engine's table or the report task.
Left(f, inTable, running) == IF inTable \/ "report" \in running THEN running ELSE {}

\* faces/destroy, or the forwarder's token.
FaceEnds(f) ==
    /\ face[f] = "mounted"
    /\ face' = [face EXCEPT ![f] = "ended"]
    /\ tasks' = [tasks EXCEPT ![f] = Left(f, FALSE, @)]
    /\ UNCHANGED <<boot, cancelled, cognition, watch>>

\* Mutant of ReportEnds: the task does not watch the token.
ReportEndsOnError(f) ==
    /\ "report" \in tasks[f] /\ face[f] = "ended" /\ ~cancelled
    /\ tasks' = [tasks EXCEPT ![f] = Left(f, face[f] = "mounted", @ \ {"report"})]
    /\ UNCHANGED <<boot, face, cancelled, cognition, watch>>

\* The report task: cancelled with the forwarder, not with the face.
ReportEnds(f) ==
    /\ "report" \in tasks[f] /\ cancelled
    /\ tasks' = [tasks EXCEPT ![f] = Left(f, face[f] = "mounted", @ \ {"report"})]
    /\ UNCHANGED <<boot, face, cancelled, cognition, watch>>

\* A send fails because the bearers are closed; a node without an id or with the
\* interval 0 broadcasts nothing from the start.
ReportFails(f) ==
    /\ "report" \in tasks[f]
    /\ tasks' = [tasks EXCEPT ![f] = Left(f, face[f] = "mounted", @ \ {"report"})]
    /\ UNCHANGED <<boot, face, cancelled, cognition, watch>>

Cancel ==
    /\ phase = "up" /\ ~cancelled
    /\ cancelled' = TRUE
    /\ UNCHANGED <<boot, face, tasks, cognition, watch>>

\* The watcher of a radio: it too ends with the forwarder, not with the face.
WatcherEnds(r) ==
    /\ r \in watchers /\ cancelled
    /\ watchers' = watchers \ {r}
    /\ registry' = [registry EXCEPT ![r[2]] = "stopped"]
    /\ UNCHANGED <<boot, face, tasks, cancelled, cognition>>

\* The steps of the main thread; and what the token ends, once each.
SetUp == BringUp \/ TimeOut \/ NextRadio \/ Exit \/ Mount
Winds ==
    \/ \E f \in Faces : (cancelled /\ FaceEnds(f)) \/ ReportEnds(f)
    \/ \E r \in All : WatcherEnds(r)

RadioNext ==
    \/ SetUp \/ Cancel
    \/ \E r \in All : phase # "exited" /\ (Claim(r) \/ OpenFails(r) \/ Opens(r))
    \/ \E r \in All : WatcherEnds(r)
    \/ \E p \in NamePrefixes, nh \in NextHops : Route(p, nh)
    \/ \E f \in Faces : Refresh(f) \/ Neighbour(f) \/ Gate(f) \/ FaceEnds(f) \/ ReportEnds(f) \/ ReportFails(f)
    \/ \E f \in Faces, n \in NamePrefixes : Egress(f, n)

\* The main thread of the startup goes on after an answer or the time limit; a
\* running task is scheduled; a cancelled token ends what selects on it and the
\* engine's face.  A bring-up thread may hang for ever.
RadioFairness ==
    /\ WF_radioVars(SetUp) /\ WF_radioVars(Winds)
    /\ \A f \in Faces : WF_radioVars(Refresh(f)) /\ WF_radioVars(Gate(f))

RadioSpec == RadioInit /\ [][RadioNext]_radioVars /\ RadioFairness

-----------------------------------------------------------------------------
(* Properties *)

\* A radio that came up holds its dongle, and no dongle is held without a bearer
\* or a thread at work, however late threads that were given up finish; a
\* forwarder that runs has a radio in every radio face ("not running radio-less",
\* face_setup.rs:503).
RadiosAreHeld ==
    /\ \A r \in All : thread[r] = "up" /\ DeviceOf(r).usb => claim[Wanted(r)] = {r}
    /\ \A d \in Dongles : \A r \in claim[d] : thread[r] \in {"claimed", "up"}
    /\ phase = "up" => \A f \in Faces : Built(f) # {}

\* radio_face.rs:336-338: "so demand contexts and decide contexts align": what an
\* Interest demands is one of the contexts the loop decides for, unless what is
\* routed through the face changed between the Interest and the refresh, whichever
\* came first: keys follow the FIB at once, contexts up to a refresh later.
DemandIsDecided ==
    \A f \in Faces : ctxs[f] # {} /\ asked[f] = known[f] => demand[f] \subseteq ctxs[f]

\* Contexts that lag are only late: what is demanded and routed is decided for by
\* one of the next refreshes, unless the route is withdrawn or the loop ends first.
Lags(f) ==
    "control" \in tasks[f] /\ \E p \in Routed(f) : Key(p) \in demand[f] \ ctxs[f]
DemandIsPickedUp == \A f \in Faces : Lags(f) ~> ~Lags(f)

\* The gate follows the neighbours, up and down.
GateFollows ==
    \A f \in Faces :
        ("gate" \in tasks[f] /\ (f \in legacy) # (f \in gate))
            ~> ("gate" \in tasks[f] => (f \in legacy) = (f \in gate))

\* The two tasks that poll under a running face: the cognition loop follows the
\* routes, the rate gate the neighbours.
CognitionFollows == DemandIsPickedUp /\ GateFollows

\* Startup ends, with a radio or with exit 1, though bring-up threads hang; and a
\* cancelled forwarder ends every radio task, the transports with them, and every
\* link watcher says "stopped".
RadiosStartAndEnd ==
    /\ <>(phase # "starting")
    /\ cancelled ~> /\ \A f \in Faces : tasks[f] = {}
                    /\ watchers = {} /\ \A i \in LinkIds : registry[i] # "running"

\* radio_face.rs:234-235: the control loop hangs "on the transport so it dies with
\* the face".
LoopDiesWithFace == \A f \in Faces : (face[f] = "ended") ~> (tasks[f] = {})

\* monitors.rs:151: a link watcher that is stopped does not tick.
StoppedIsHonest == \A r \in watchers : registry[r[2]] = "running"
===============================================================================

------------------------------ MODULE BleControl ------------------------------
(***************************************************************************)
(* The owner of the BLE peripheral listener, BleControl and                *)
(* run_ble_listener in binaries/ndn-fwd/src/transport_listeners.rs:        *)
(* management (or the configuration, at startup) starts and stops a        *)
(* listener task that binds the GATT server and makes a face of every      *)
(* central that connects.  Start and stop only spawn and cancel: the       *)
(* tasks notice later.                                                     *)
(***************************************************************************)
EXTENDS FiniteSets, Naturals

CONSTANTS
    MaxTasks,   \* bound of the model: listener tasks ever spawned
    Centrals    \* centrals that may connect

BleAssumption == MaxTasks \in Nat

Tasks == 1 .. MaxTasks
Idle == 0   \* running is None

VARIABLES
    running,    \* the token BleControl holds, named by its task
    cancelled,  \* the tokens stop() cancelled
    shutdown,   \* the parent token is cancelled, and with it every child
    task,       \* task -> "none", "binding", "serving", "accepted", "ended"
    faces       \* central -> the tasks whose faces it is connected by

vars == <<running, cancelled, shutdown, task, faces>>

Init ==
    /\ running = Idle
    /\ cancelled = {}
    /\ shutdown = FALSE
    /\ task = [t \in Tasks |-> "none"]
    /\ faces = [c \in Centrals |-> {}]

IsCancelled(t) == shutdown \/ t \in cancelled
Serving(t) == task[t] \in {"serving", "accepted"}
Alive(t) == task[t] = "binding" \/ Serving(t)
Unused(t) == task[t] = "none" /\ \A u \in Tasks : task[u] = "none" => t <= u

(***************************************************************************)
(* Management.                                                             *)
(***************************************************************************)
\* is_some_and(|c| !c.is_cancelled()): what start() tests and status() prints.
Advertising == running # Idle /\ ~IsCancelled(running)

\* Mutant of Start: a second listener.
StartAgain(t) ==
    /\ Unused(t)
    /\ task' = [task EXCEPT ![t] = "binding"]
    /\ running' = t
    /\ UNCHANGED <<cancelled, shutdown, faces>>

\* do_start, under the lock; a start while Advertising changes nothing.
Start(t) ==
    /\ ~Advertising
    /\ Unused(t)
    /\ task' = [task EXCEPT ![t] = "binding"]
    /\ running' = t
    /\ UNCHANGED <<cancelled, shutdown, faces>>

\* Mutant of Stop: the token is dropped without being cancelled.
StopDropping ==
    /\ running # Idle
    /\ running' = Idle
    /\ UNCHANGED <<cancelled, shutdown, task, faces>>

Stop ==
    /\ running # Idle
    /\ cancelled' = cancelled \cup {running}
    /\ running' = Idle
    /\ UNCHANGED <<shutdown, task, faces>>

\* main cancels the token all tasks share.
Shutdown ==
    /\ ~shutdown
    /\ shutdown' = TRUE
    /\ UNCHANGED <<running, cancelled, task, faces>>

(***************************************************************************)
(* run_ble_listener.                                                       *)
(***************************************************************************)
BindOk(t) ==
    /\ task[t] = "binding"
    /\ task' = [task EXCEPT ![t] = "serving"]
    /\ UNCHANGED <<running, cancelled, shutdown, faces>>

\* bind fails, and the task returns.
BindFails(t) ==
    /\ task[t] = "binding"
    /\ task' = [task EXCEPT ![t] = "ended"]
    /\ UNCHANGED <<running, cancelled, shutdown, faces>>

\* The biased select looks at the token first; it may be cancelled between
\* here and add_face.
AcceptOk(t) ==
    /\ task[t] = "serving" /\ ~IsCancelled(t)
    /\ task' = [task EXCEPT ![t] = "accepted"]
    /\ UNCHANGED <<running, cancelled, shutdown, faces>>

\* The face gets a child of the listener's token.
AddFace(t, c) ==
    /\ task[t] = "accepted"
    /\ task' = [task EXCEPT ![t] = "serving"]
    /\ faces' = [faces EXCEPT ![c] = @ \cup {t}]
    /\ UNCHANGED <<running, cancelled, shutdown>>

AcceptFails(t) ==
    /\ task[t] = "serving" /\ ~IsCancelled(t)
    /\ task' = [task EXCEPT ![t] = "ended"]
    /\ UNCHANGED <<running, cancelled, shutdown, faces>>

\* Mutant of Ends: only stop() is noticed, not the end of the process.
EndsOnStop(t) ==
    /\ task[t] = "serving" /\ t \in cancelled
    /\ task' = [task EXCEPT ![t] = "ended"]
    /\ UNCHANGED <<running, cancelled, shutdown, faces>>

Ends(t) ==
    /\ task[t] = "serving" /\ IsCancelled(t)
    /\ task' = [task EXCEPT ![t] = "ended"]
    /\ UNCHANGED <<running, cancelled, shutdown, faces>>

\* The engine removes a face when its central disconnects or when its child
\* token is cancelled.
FaceEnds(c, t) ==
    /\ t \in faces[c]
    /\ faces' = [faces EXCEPT ![c] = @ \ {t}]
    /\ UNCHANGED <<running, cancelled, shutdown, task>>

TaskStep(t) ==
    \/ BindOk(t) \/ BindFails(t) \/ Ends(t)
    \/ \E c \in Centrals : AddFace(t, c)

Next ==
    \/ Stop \/ Shutdown
    \/ \E t \in Tasks :
        \/ Start(t) \/ BindOk(t) \/ BindFails(t)
        \/ AcceptOk(t) \/ AcceptFails(t) \/ Ends(t)
        \/ \E c \in Centrals : AddFace(t, c) \/ FaceEnds(c, t)

Spec == Init /\ [][Next]_vars

\* tokio runs every spawned task, and a bind comes to an end; the engine sees
\* to the faces whose token is cancelled.
Fairness ==
    \A t \in Tasks :
        /\ WF_vars(TaskStep(t))
        /\ \A c \in Centrals : WF_vars(IsCancelled(t) /\ FaceEnds(c, t))

(***************************************************************************)
(* Properties.                                                             *)
(***************************************************************************)
TypeOK ==
    /\ running \in Tasks \cup {Idle}
    /\ cancelled \subseteq Tasks
    /\ shutdown \in BOOLEAN
    /\ task \in [Tasks -> {"none", "binding", "serving", "accepted", "ended"}]
    /\ faces \in [Centrals -> SUBSET Tasks]

\* However starts and stops interleave, at most one listener task was not told
\* to end, and that one is the task stop() will reach: no listener is orphaned.
OneOwned ==
    \A t \in Tasks : Alive(t) /\ ~IsCancelled(t) => t = running

\* No central is connected by a listener that is not the owned one, except
\* while that listener is being told to end.
FacesOwned ==
    \A c \in Centrals : \A t \in faces[c] : t = running \/ IsCancelled(t)

\* After a stop, or the shutdown of the process, the listener ends and its
\* faces go: nothing keeps serving unless somebody starts it again.
StopIsEffective ==
    \A t \in Tasks :
        IsCancelled(t) /\ task[t] # "none"
            ~> task[t] = "ended" /\ \A c \in Centrals : t \notin faces[c]

\* do_start returns with "already advertising" and status() says so: there is
\* a listener task then.
AdvertisingIsTrue == Advertising => Alive(running)

\* The backends allow only one GATT server per process, which is why there is
\* a sole owner of the listener's lifecycle.
OneServer == ~shutdown => Cardinality({t \in Tasks : Serving(t)}) <= 1
===============================================================================

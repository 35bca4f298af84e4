---------------------------- MODULE FaceProvision ----------------------------
(***************************************************************************)
(* The extension transports of faces/create,                               *)
(* binaries/ndn-fwd/src/face_provision.rs: for shm:// the provisioner      *)
(* makes the two ends of a shared-memory face for the client that asked,   *)
(* hands the far end over a control socket whose path only that client     *)
(* can derive, and ties both to the client's own face; for quic://,        *)
(* wts:// and ble:// it dials a peer.  Management calls it on behalf of    *)
(* many clients at once, and clients disappear at any time.                *)
(*                                                                         *)
(* The engine is outside this repository: a face lives until its token is  *)
(* cancelled, faces/destroy removes it or its transport fails, which       *)
(* cancels its token in turn; and a client's face, with its token, leaves  *)
(* the face table when the client does.                                    *)
(***************************************************************************)
CONSTANTS
    Clients,    \* applications connected to the forwarder
    Requests,   \* faces/create commands
    Owner,      \* Owner[r]: the client whose face the command came by
    Scheme,     \* Scheme[r]: "shm" (with a token), "named" (without), "dial"
    Paths,      \* control_socket_path of the tokens
    Path,       \* Path[r]: that of r's token.  Tokens are meant to be used once
    Stale       \* the paths at which an earlier process left a file

\* Assumed by the module that instantiates this one.
ProvisionAssumption ==
    /\ Owner \in [Requests -> Clients]
    /\ Scheme \in [Requests -> {"shm", "named", "dial"}]
    /\ Path \in [Requests -> Paths]
    /\ Stale \subseteq Paths

VARIABLES
    pc,         \* where the request is: see Stages
    scope,      \* request -> "client" (a child of its token) or "own"
    connected,  \* clients whose face is in the table
    faces,      \* requests whose face is in the table
    ended,      \* requests whose face was destroyed or has failed
    file,       \* path -> the socket file there: see Files
    handoff     \* request -> its task: "none", "serving", "ended" (not yet cleaned up), "gone"

vars == <<pc, scope, connected, faces, ended, file, handoff>>

Stages == {"unasked", "asked", "scoped", "made", "cleared", "bound", "served", "connecting",
           "done", "refused"}

\* A path has no file, one that an earlier process bound, or one that a request did.
None == [by |-> "nobody"]
Left == [by |-> "earlier"]
Bound(r) == [by |-> "request", of |-> r]
Files == {None, Left} \cup {Bound(r) : r \in Requests}

\* The requests in who are on their way.
Asked(who) ==
    /\ pc = [r \in Requests |-> IF r \in who THEN "asked" ELSE "unasked"]
    /\ scope = [r \in Requests |-> "own"]
    /\ connected = Clients
    /\ faces = {} /\ ended = {}
    /\ file = [p \in Paths |-> IF p \in Stale THEN Left ELSE None]
    /\ handoff = [r \in Requests |-> "none"]

Init == Asked(Requests)

At(r, l) == pc[r] = l
Goto(r, l) == pc' = [pc EXCEPT ![r] = l]
Shm(r) == Scheme[r] \in {"shm", "named"}

Cancelled(r) ==
    \/ r \in ended
    \/ scope[r] = "client" /\ Owner[r] \notin connected

(***************************************************************************)
(* ShmProvisioner::provision.  It awaits nothing, but other requests,      *)
(* tasks and clients run beside it on other threads.                       *)
(***************************************************************************)
\* The face's token is a child of the client's, if the client's face is still
\* there, and one of its own otherwise.
Scope(r) ==
    /\ At(r, "asked") /\ Shm(r)
    /\ scope' = [scope EXCEPT ![r] = IF Owner[r] \in connected THEN "client" ELSE "own"]
    /\ Goto(r, "scoped")
    /\ UNCHANGED <<connected, faces, ended, file, handoff>>

\* The region is made, unless the token has the wrong length or there is no memory.
Make(r) ==
    /\ At(r, "scoped")
    /\ Goto(r, "made") \/ Goto(r, "refused")
    /\ UNCHANGED <<scope, connected, faces, ended, file, handoff>>

\* Whatever lies at the token's path is removed.
ClearPath(r) ==
    /\ At(r, "made") /\ Scheme[r] = "shm"
    /\ file' = [file EXCEPT ![Path[r]] = None]
    /\ Goto(r, "cleared")
    /\ UNCHANGED <<scope, connected, faces, ended, handoff>>

\* The control socket is bound, which fails if there is a file again.
Bind(r) ==
    /\ At(r, "cleared")
    /\ \/ /\ file[Path[r]] = None
          /\ file' = [file EXCEPT ![Path[r]] = Bound(r)]
          /\ Goto(r, "bound")
       \/ Goto(r, "refused") /\ UNCHANGED file
    /\ UNCHANGED <<scope, connected, faces, ended, handoff>>

Spawn(r) ==
    /\ At(r, "bound")
    /\ handoff' = [handoff EXCEPT ![r] = "serving"]
    /\ Goto(r, "served")
    /\ UNCHANGED <<scope, connected, faces, ended, file>>

AddFace(r) ==
    /\ At(r, "served") \/ (At(r, "made") /\ Scheme[r] = "named")
    /\ faces' = faces \cup {r}
    /\ Goto(r, "done")
    /\ UNCHANGED <<scope, connected, ended, file, handoff>>

\* Mutant of ServeEnds: nobody tells the task that its face is gone.
ServeEndsByHandoff(r) ==
    /\ handoff[r] = "serving" /\ Owner[r] \in connected
    /\ handoff' = [handoff EXCEPT ![r] = "ended"]
    /\ UNCHANGED <<pc, scope, connected, faces, ended, file>>

\* The handoff is done or has failed, or the face is cancelled.
ServeEnds(r) ==
    /\ handoff[r] = "serving"
    /\ Owner[r] \in connected \/ Cancelled(r)
    /\ handoff' = [handoff EXCEPT ![r] = "ended"]
    /\ UNCHANGED <<pc, scope, connected, faces, ended, file>>

\* Mutant of RemoveFile: only the stale file is ever removed.
RemoveFileNot(r) ==
    /\ handoff[r] = "ended"
    /\ handoff' = [handoff EXCEPT ![r] = "gone"]
    /\ UNCHANGED <<pc, scope, connected, faces, ended, file>>

\* The task's last act: whatever lies at its path then is removed.
RemoveFile(r) ==
    /\ handoff[r] = "ended"
    /\ handoff' = [handoff EXCEPT ![r] = "gone"]
    /\ file' = [file EXCEPT ![Path[r]] = None]
    /\ UNCHANGED <<pc, scope, connected, faces, ended>>

(***************************************************************************)
(* The dialling provisioners: BLE, QUIC, WebTransport.                     *)
(***************************************************************************)
\* Without usable parameters nothing is dialled.
Dial(r) ==
    /\ At(r, "asked") /\ Scheme[r] = "dial"
    /\ Goto(r, "connecting") \/ Goto(r, "refused")
    /\ UNCHANGED <<scope, connected, faces, ended, file, handoff>>

\* A face that could be dialled is persistent and its own.
Dialled(r) ==
    /\ At(r, "connecting")
    /\ \/ Goto(r, "done") /\ faces' = faces \cup {r}
       \/ Goto(r, "refused") /\ UNCHANGED faces
    /\ UNCHANGED <<scope, connected, ended, file, handoff>>

(***************************************************************************)
(* The engine and the clients.                                             *)
(***************************************************************************)
FaceEnds(r) ==
    /\ r \in faces /\ Cancelled(r)
    /\ faces' = faces \ {r}
    /\ UNCHANGED <<pc, scope, connected, ended, file, handoff>>

\* faces/destroy, or an error of the face's transport.
Destroy(r) ==
    /\ r \in faces
    /\ faces' = faces \ {r} /\ ended' = ended \cup {r}
    /\ UNCHANGED <<pc, scope, connected, file, handoff>>

Disconnect(c) ==
    /\ c \in connected
    /\ connected' = connected \ {c}
    /\ UNCHANGED <<pc, scope, faces, ended, file, handoff>>

Provision(r) ==
    \/ Scope(r) \/ Make(r) \/ ClearPath(r) \/ Bind(r) \/ Spawn(r) \/ AddFace(r)
    \/ Dial(r) \/ Dialled(r)

Next ==
    \/ \E r \in Requests :
          Provision(r) \/ ServeEnds(r) \/ RemoveFile(r) \/ FaceEnds(r) \/ Destroy(r)
    \/ \E c \in Clients : Disconnect(c)

Spec == Init /\ [][Next]_vars

\* Calls end, and so do tasks whose token is cancelled or whose handoff is over.
Fairness ==
    \A r \in Requests :
        /\ WF_vars(Provision(r)) /\ WF_vars(FaceEnds(r))
        /\ WF_vars(RemoveFile(r) \/ (Cancelled(r) /\ ServeEnds(r)))

(***************************************************************************)
(* Properties.                                                             *)
(***************************************************************************)
\* A control socket has a task that will remove it, or is about to get one,
\* whichever of client, face and handoff ended first.
SocketsEnd ==
    \A r \in Requests : file[Path[r]] = Bound(r) =>
        At(r, "bound") \/ handoff[r] \in {"serving", "ended"}

\* r has removed what lay at its path.
PastClearing(r) ==
    Scheme[r] = "shm" /\ pc[r] \in {"cleared", "bound", "served", "done", "refused"}

\* A handoff that is served can be reached at its path, unless the same token was
\* used again: then either request may take the other's socket away.
ServedIsReachable ==
    \A r \in Requests : handoff[r] = "serving" /\ file[Path[r]] # Bound(r) =>
        \E q \in Requests \ {r} : Path[q] = Path[r] /\ PastClearing(q)

SocketIsServed == SocketsEnd /\ ServedIsReachable

\* "tied to the face's cancel so it can't leak the listener/socket": once a face was
\* destroyed, or a client to which it was tied has gone, face, handoff and socket
\* go, even if the client left while the face was being made.
NothingLeaks ==
    \A r \in Requests :
        Cancelled(r) ~> /\ r \notin faces /\ handoff[r] \in {"none", "gone"}
                        /\ file[Path[r]] # Bound(r)

\* "Scope the SHM face's lifetime to the requesting (client) face when known, so it
\* tears down with the client": no face of a client that has gone outlives it as
\* a face of its own.
TiedToClient ==
    \A r \in faces : Shm(r) /\ Owner[r] \notin connected => scope[r] = "client"
===============================================================================

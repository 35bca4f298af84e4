--------------------------- MODULE ForwarderStartup ---------------------------
(***************************************************************************)
(* How ndn-fwd comes up and goes down: main in binaries/ndn-fwd/src/main.rs *)
(* and run_face_setup in face_setup.rs.  Face ids are handed out first,    *)
(* because neighbour discovery and the route table refer to faces that are *)
(* only created later, by tasks of their own; the routing protocols make   *)
(* their faces before the engine is built and queue their FIB entries for  *)
(* when it is (installs/nlsr.rs, installs/dv.rs); then the configured      *)
(* routes enter the RIB, the demo CA the FIB, the faces are created, and   *)
(* from then on applications connect and register prefixes until the token *)
(* all tasks share is cancelled.                                           *)
(*                                                                         *)
(* The engine's tables are outside this repository: the FIB entry of a     *)
(* prefix the RIB recomputes is replaced by what the RIB knows, as the     *)
(* comments at main.rs:748-776 say.                                        *)
(***************************************************************************)
EXTENDS FiniteSets, Integers, Sequences, SequencesExt

CONSTANTS
    Configs,    \* configurations: see ConfigAssumption
    UdpIfaces,  \* interfaces auto_multicast enumerates for UDP
    EtherIfaces,
    Names,      \* names, as sequences of components
    CaPrefix,   \* where the demo CA serves
    Produced,   \* NLSR's producers -> the prefix of each
    PfsPrefix,  \* the group of DV's prefix sync
    Apps        \* local applications

Kinds == {"peer", "listener", "multicast", "etherMulticast", "device", "dial",
          "unix", "radio"}

\* transport   of discovery: "off", "udp", "ether", "both"
\* entries     the kinds of the [[face]] entries, in order
\* routes      the [[route]]s
\* neighbours  of each enabled protocol: whether a [[neighbor]]'s address parses
ASSUME ConfigAssumption ==
    /\ Names \subseteq Seq(Nat)
    /\ \A c \in Configs :
          /\ c.transport \in {"off", "udp", "ether", "both"}
          /\ c.entries \in Seq(Kinds)
          /\ c.routes \in Seq([prefix : Names, face : Nat])
          /\ DOMAIN c.neighbours \subseteq {"nlsr", "dv"}
          /\ \A x \in DOMAIN c.neighbours : c.neighbours[x] \in Seq(BOOLEAN)
    /\ CaPrefix \in Names /\ PfsPrefix \in Names
    /\ Produced \in [{"hello", "sync", "lsa"} -> Names]
    /\ IsFiniteSet(UdpIfaces) /\ IsFiniteSet(EtherIfaces)

VARIABLES
    config,     \* the one of Configs
    step,       \* where main is
    at,         \* the loop it is in has handled this many routes or entries
    next_id,
    prealloc,   \* owner -> id handed to discovery before the build
    ids,        \* face_ids_by_index: owner -> id
    rib,        \* routes: [prefix, face, inherit]
    fib,        \* prefix -> face ids
    recomputed, \* history: prefixes whose FIB entry the RIB has replaced
    queue,      \* the post-build queue: FIB entries [prefix, face]
    local_fields,\* ids from which a pinned next hop is honoured
    serving,    \* NLSR's producer tasks
    pending,    \* faces some task is about to create
    faces,      \* faces of the engine: [id, by, tied]
    tried       \* owner -> how often a face was created for it, or attempted

tables == <<rib, fib, recomputed>>
installs == <<queue, local_fields, serving>>
allocation == <<config, prealloc, ids, installs>>
vars == <<step, at, next_id, allocation, tables, pending, faces, tried>>

Entries == config.entries
Routes == config.routes
Neighbours == config.neighbours
transport == config.transport

\* What a face is created for.  (Entries are numbered from 1 here.)
EntryFaces == {<<"entry", i>> : i \in DOMAIN Entries}
UdpFaces == {<<"udp", x>> : x \in UdpIfaces}
EtherFaces == {<<"ether", x>> : x \in EtherIfaces}
AppFaces == {<<"app", a>> : a \in Apps}
Ca == <<"demo", "ca">>
CaFaceId == -1  \* DEMO_CA_FACE_ID, which is not handed out
EntryFace(i) == <<"entry", i>>
KindOf(o) == Entries[o[2]]

Owners == EntryFaces \cup UdpFaces \cup EtherFaces \cup AppFaces

(***************************************************************************)
(* The engine's tables.                                                    *)
(***************************************************************************)
Inherited(r, p) == r.inherit /\ IsStrictPrefix(r.prefix, p)
HasEntry(routes, p) == \E r \in routes : r.prefix = p
NextHops(routes, p) ==
    IF HasEntry(routes, p)
    THEN {r.face : r \in {x \in routes : x.prefix = p \/ Inherited(x, p)}}
    ELSE {}

\* Rib::apply_to_fib: the entry of p, and of the prefixes below it that have
\* routes of their own, is replaced.
Applied(routes, entries, p) ==
    [q \in Names |->
        IF q = p \/ (IsPrefix(p, q) /\ HasEntry(routes, q))
        THEN NextHops(routes, q) ELSE entries[q]]

AppliedToFib(p) ==
    /\ fib' = Applied(rib', fib, p)
    /\ recomputed' = recomputed \cup {p}

(***************************************************************************)
(* Handing out face ids.                                                   *)
(***************************************************************************)
Init ==
    /\ config \in Configs
    /\ step = "alloc" /\ at = 0
    /\ next_id = 1
    /\ prealloc = <<>> /\ ids = <<>>
    /\ rib = {} /\ fib = [p \in Names |-> {}] /\ recomputed = {}
    /\ queue = {} /\ local_fields = {} /\ serving = {}
    /\ pending = {} /\ faces = {}
    /\ tried = [o \in Owners |-> 0]

UseUdp == transport \in {"udp", "both"}
UseEther == transport \in {"ether", "both"}
OfKind(k) == {EntryFace(i) : i \in {j \in DOMAIN Entries : Entries[j] = k}}

\* alloc_face_id for every member of S, in one order or another.
Fresh(S, from) ==
    CHOOSE f \in [S -> from .. from + Cardinality(S) - 1] :
        \A a, b \in S : f[a] = f[b] => a = b

\* With discovery on, the faces it will use get their ids before the build.
PreAllocate ==
    /\ step = "alloc"
    /\ LET known == (IF UseUdp THEN OfKind("multicast") \cup UdpFaces ELSE {})
              \cup (IF UseEther THEN OfKind("etherMulticast") \cup EtherFaces
                                ELSE {})
       IN  /\ prealloc' = Fresh(known, next_id)
           /\ next_id' = next_id + Cardinality(known)
    /\ step' = "index"
    /\ UNCHANGED <<config, at, ids, installs, tables, pending, faces, tried>>

\* Every [[face]] entry without one gets its id.
ByIndex ==
    /\ step = "index"
    /\ LET unknown == EntryFaces \ DOMAIN prealloc
           fresh == Fresh(unknown, next_id)
       IN  /\ ids' = [o \in EntryFaces |->
                        IF o \in unknown THEN fresh[o] ELSE prealloc[o]]
           /\ next_id' = next_id + Cardinality(unknown)
    /\ step' = "nlsr"
    /\ UNCHANGED <<config, prealloc, at, installs, tables, pending, faces, tried>>

(***************************************************************************)
(* The routing protocols: prepare and install, before the engine is built. *)
(***************************************************************************)
Wired(id, o) == [id |-> id, by |-> o, tied |-> FALSE]

\* The neighbours whose addresses parse; the sockets of some can be bound.
Peers(x) == {<<x, k>> : k \in {n \in DOMAIN Neighbours[x] : Neighbours[x][n]}}

\* Mutant of Kept: a neighbour is kept though its socket is not bound.
KeptAll(x, bound) == Peers(x)

\* The neighbours the protocol is given; the ids of the others are lost.
Kept(x, bound) == Peers(x) \cap bound

Queued(p, id) == [prefix |-> p, face |-> id]
Enabled(x) == x \in DOMAIN Neighbours
Disabled == UNCHANGED <<next_id, faces, queue, local_fields>>

\* A consumer that says hello to each neighbour, one for sync and LSAs; and the
\* three producers, whose prefixes are queued.
Producers == {<<"producer", d>> : d \in DOMAIN Produced}
Consumers(kept) == {<<"hello", o>> : o \in kept} \cup {<<"consumer", "sync, lsa">>}

InstallNlsr ==
    /\ step = "nlsr" /\ step' = "dv"
    /\ IF ~Enabled("nlsr") THEN Disabled
       ELSE \E bound \in SUBSET Peers("nlsr") :
            LET consumers == Consumers(Kept("nlsr", bound))
                owners == Peers("nlsr") \cup consumers \cup Producers
                id == Fresh(owners, next_id)
            IN  /\ next_id' = next_id + Cardinality(owners)
                /\ faces' = {Wired(id[o], o) : o \in bound \cup consumers \cup Producers}
                /\ local_fields' = {id[o] : o \in consumers}
                /\ queue' = {Queued(Produced[o[2]], id[o]) : o \in Producers}
    /\ UNCHANGED <<config, at, prealloc, ids, serving, tables, pending, tried>>

\* DV's two faces of its own; a next hop to every neighbour for its sync group.
InstallDv ==
    /\ step = "dv" /\ step' = "apply"
    /\ IF ~Enabled("dv") THEN Disabled
       ELSE \E bound \in SUBSET Peers("dv") :
            LET own == {<<"fetch", "dv">>, <<"produce", "dv">>}
                id == Fresh(own \cup Peers("dv"), next_id)
            IN  /\ next_id' = next_id + Cardinality(own \cup Peers("dv"))
                /\ faces' = faces \cup {Wired(id[o], o) : o \in own \cup bound}
                /\ queue' = queue \cup {Queued(PfsPrefix, id[o]) : o \in Kept("dv", bound)}
                /\ UNCHANGED local_fields
    /\ UNCHANGED <<config, at, prealloc, ids, serving, tables, pending, tried>>

\* The engine is built: the queued entries go straight to the FIB, and NLSR's
\* producers start.
ApplyPostBuild ==
    /\ step = "apply" /\ step' = "routes"
    /\ fib' = [p \in Names |-> fib[p] \cup {q.face : q \in {x \in queue : x.prefix = p}}]
    /\ queue' = {}
    /\ serving' = {f.by[2] : f \in {g \in faces : g.by[1] = "producer"}}
    /\ UNCHANGED <<config, at, next_id, prealloc, ids, local_fields, rib, recomputed, pending, faces, tried>>

\* The task of a producer: the token first, else its face's end.
ProducerEnds(d) ==
    /\ d \in serving /\ step \in {"cancelled", "down"}
    /\ serving' = serving \ {d}
    /\ UNCHANGED <<config, prealloc, ids, queue, local_fields, step, at, next_id, tables, pending, faces, tried>>

(***************************************************************************)
(* Routes and the demo CA.                                                 *)
(***************************************************************************)
\* Mutants of RouteAdded: not for the children; only in the FIB.
RouteAddedAlone(p, id) ==
    /\ rib' = rib \cup {[prefix |-> p, face |-> id, inherit |-> FALSE]}
    /\ AppliedToFib(p)
RouteAddedBare(p, id) ==
    /\ fib' = [fib EXCEPT ![p] = @ \cup {id}]
    /\ UNCHANGED <<rib, recomputed>>

\* A RIB route of origin STATIC with CHILD_INHERIT, applied to the FIB.
RouteAdded(p, id) ==
    /\ rib' = rib \cup {[prefix |-> p, face |-> id, inherit |-> TRUE]}
    /\ AppliedToFib(p)

\* The loop over [[route]]; an index out of range is skipped.
AddRoute ==
    /\ step = "routes" /\ at < Len(Routes)
    /\ at' = at + 1
    /\ LET route == Routes[at']
       IN  IF EntryFace(route.face) \in DOMAIN ids
           THEN RouteAdded(route.prefix, ids[EntryFace(route.face)])
           ELSE UNCHANGED tables
    /\ UNCHANGED <<step, next_id, allocation, pending, faces, tried>>

\* The FIB entry of the demo CA, and its task, if it is configured.
StartDemoCa ==
    /\ step = "routes" /\ at = Len(Routes)
    /\ step' = "faces" /\ at' = 0
    /\ \/ /\ fib' = [fib EXCEPT ![CaPrefix] = @ \cup {CaFaceId}]
          /\ faces' = faces \cup {[id |-> CaFaceId, by |-> Ca, tied |-> FALSE]}
       \/ UNCHANGED <<fib, faces>>
    /\ UNCHANGED <<rib, recomputed, next_id, allocation, pending, tried>>

(***************************************************************************)
(* Creating the faces.                                                     *)
(***************************************************************************)
Face(id, o, tied) == [id |-> id, by |-> o, tied |-> tied]
Tried(os) == [o \in Owners |-> IF o \in os THEN tried[o] + 1 ELSE tried[o]]

\* The token of the face is a child of the shared one.
Tied(o) == o \notin EntryFaces \/ KindOf(o) # "peer"

\* A serial port or an Ethernet interface is opened here and now, or fails to be.
OpensDevice(face) ==
    /\ KindOf(face.by) \in {"device", "etherMulticast"}
    /\ tried' = Tried({face.by})
    /\ faces' \in {faces, faces \cup {face}}
    /\ UNCHANGED pending

\* The others are made by a task: peers, groups, dialled connections.
SpawnsCreation(face) ==
    /\ KindOf(face.by) \in {"peer", "multicast", "dial"}
    /\ tried' = Tried({face.by})
    /\ pending' = pending \cup {face}
    /\ UNCHANGED faces

\* One [[face]] entry: an address that does not parse skips it, a listener makes its
\* faces later, and a unix entry is ignored.
SetUpEntry ==
    LET o == EntryFace(at')
        face == Face(ids[o], o, Tied(o))
    IN  /\ step = "faces" /\ at < Len(Entries)
        /\ at' = at + 1
        /\ KindOf(o) # "radio"
        /\ UNCHANGED <<faces, pending, tried>> \/ OpensDevice(face) \/ SpawnsCreation(face)
        /\ UNCHANGED <<step, next_id, allocation, tables>>

\* A radio entry none of whose radios comes up ends the process.
SetUpRadio ==
    LET o == EntryFace(at')
    IN  /\ step = "faces" /\ at < Len(Entries)
        /\ at' = at + 1
        /\ KindOf(o) = "radio"
        /\ tried' = Tried({o})
        /\ \/ faces' = faces \cup {Face(ids[o], o, TRUE)} /\ UNCHANGED step
           \/ step' = "exited" /\ UNCHANGED faces
        /\ UNCHANGED <<next_id, allocation, tables, pending>>

Known == DOMAIN prealloc \ EntryFaces
Enumerated == UdpFaces \cup EtherFaces

\* Mutant of Provisioned: the provisioner enumerates in any case.
ProvisionedAlways == Enumerated

\* What the provisioner creates faces for: if discovery knows no interface,
\* for all of them.
Provisioned == IF Known = {} THEN Enumerated ELSE {}

(***************************************************************************)
(* The faces of the interfaces: those discovery knows under their ids, the *)
(* Ethernet ones here and now, and those of the provisioner.               *)
(***************************************************************************)
AutoFaces ==
    LET fresh == Fresh(Provisioned, next_id)
    IN  /\ step = "faces" /\ at = Len(Entries)
        /\ step' = "running"
        /\ \E opened \in SUBSET (Known \cap EtherFaces) :
                faces' = faces \cup {Face(prealloc[o], o, TRUE) : o \in opened}
        /\ pending' = pending
                \cup {Face(prealloc[o], o, TRUE) : o \in Known \cap UdpFaces}
                \cup {Face(fresh[o], o, TRUE) : o \in Provisioned}
        /\ tried' = [o \in Owners |->
                        tried[o] + (IF o \in Known THEN 1 ELSE 0)
                                 + (IF o \in Provisioned THEN 1 ELSE 0)]
        /\ next_id' = next_id + Cardinality(Provisioned)
        /\ UNCHANGED <<at, allocation, tables>>

\* The task that creates a face succeeds or fails, at any time from now on.
Create(f) ==
    /\ step \notin {"down", "exited"} /\ f \in pending
    /\ pending' = pending \ {f}
    /\ faces' \in {faces, faces \cup {f}}
    /\ UNCHANGED <<step, at, next_id, allocation, tables, tried>>

\* A peer connects to a listener, whose face gets an id of its own.
Accepts(o) ==
    /\ step \in {"faces", "running"}
    /\ KindOf(o) = "listener" /\ (step = "faces" => o[2] <= at)
    /\ tried[o] = 0
    /\ tried' = Tried({o})
    /\ faces' = faces \cup {Face(next_id, o, TRUE)}
    /\ next_id' = next_id + 1
    /\ UNCHANGED <<step, at, allocation, tables, pending>>

(***************************************************************************)
(* Applications.                                                           *)
(***************************************************************************)
FacesBy(o) == {f \in faces : f.by = o}

Connects(o) ==
    /\ step = "running" /\ tried[o] = 0
    /\ tried' = Tried({o})
    /\ faces' = faces \cup {Face(next_id, o, TRUE)}
    /\ next_id' = next_id + 1
    /\ UNCHANGED <<step, at, allocation, tables, pending>>

\* rib/register and rib/unregister of a prefix.
Registers(o, p) ==
    /\ step = "running"
    /\ \E f \in FacesBy(o) :
          rib' = rib \cup {[prefix |-> p, face |-> f.id, inherit |-> TRUE]}
    /\ AppliedToFib(p)
    /\ UNCHANGED <<step, at, next_id, allocation, pending, faces, tried>>

Unregisters(o, p) ==
    /\ step = "running"
    /\ \E f \in FacesBy(o) :
          /\ \E r \in rib : r.prefix = p /\ r.face = f.id
          /\ rib' = {r \in rib : ~(r.prefix = p /\ r.face = f.id)}
    /\ AppliedToFib(p)
    /\ UNCHANGED <<step, at, next_id, allocation, pending, faces, tried>>

(***************************************************************************)
(* Shutdown: the shared token is cancelled, management ends, and only then *)
(* the engine.                                                             *)
(***************************************************************************)
Cancel ==
    /\ step = "running"
    /\ step' = "cancelled"
    /\ UNCHANGED <<at, next_id, allocation, tables, pending, faces, tried>>

\* A face whose token is cancelled ends.
FaceEnds(f) ==
    /\ step = "cancelled" /\ f \in faces /\ f.tied
    /\ faces' = faces \ {f}
    /\ UNCHANGED <<step, at, next_id, allocation, tables, pending, tried>>

EngineShutdown ==
    /\ step = "cancelled"
    /\ step' = "down"
    /\ faces' = {}
    /\ UNCHANGED <<at, next_id, allocation, tables, pending, tried>>

Next ==
    \/ PreAllocate \/ ByIndex \/ InstallNlsr \/ InstallDv \/ ApplyPostBuild \/ AddRoute \/ StartDemoCa
    \/ SetUpEntry \/ SetUpRadio \/ AutoFaces
    \/ \E f \in pending : Create(f)
    \/ \E o \in EntryFaces : Accepts(o)
    \/ \E o \in AppFaces : \/ Connects(o)
                           \/ \E p \in Names : Registers(o, p) \/ Unregisters(o, p)
    \/ Cancel \/ EngineShutdown
    \/ \E f \in faces : FaceEnds(f)
    \/ \E d \in serving : ProducerEnds(d)

Spec == Init /\ [][Next]_vars

(***************************************************************************)
(* Properties.                                                             *)
(***************************************************************************)
Ids == {CaFaceId} \cup 1 .. next_id - 1
Installed == {Routes[n] : n \in 1 .. (IF step = "routes" THEN at ELSE Len(Routes))}
InRange(r) == EntryFace(r.face) \in EntryFaces
UpAndRunning == step \in {"running", "cancelled"}

RoutingOwners ==
    (UNION {Peers(x) \cup {<<"hello", o>> : o \in Peers(x)} : x \in DOMAIN Neighbours})
        \cup Producers \cup {<<"consumer", "sync, lsa">>, <<"fetch", "dv">>, <<"produce", "dv">>}

TypeOK ==
    /\ config \in Configs
    /\ step \in {"alloc", "index", "nlsr", "dv", "apply", "routes", "faces", "running", "cancelled", "down",
                "exited"}
    /\ at \in Nat /\ next_id \in Nat \ {0}
    /\ prealloc \in [DOMAIN prealloc -> Ids]
    /\ DOMAIN prealloc \subseteq Owners
    /\ ids \in [DOMAIN ids -> Ids] /\ DOMAIN ids \in {{}, EntryFaces}
    /\ rib \subseteq [prefix : Names, face : Ids, inherit : BOOLEAN]
    /\ fib \in [Names -> SUBSET Ids]
    /\ faces \cup pending
            \subseteq [id : Ids, by : Owners \cup RoutingOwners \cup {Ca}, tied : BOOLEAN]
    /\ recomputed \subseteq Names /\ queue \subseteq [prefix : Names, face : Ids]
    /\ local_fields \subseteq Ids /\ serving \subseteq {"hello", "sync", "lsa"}
    /\ tried \in [Owners -> Nat]

\* Whatever order the creating tasks finish in, no two faces, created or about
\* to be, have the same id.
FaceIdsUnique ==
    \A f, g \in faces \cup pending : f.id = g.id => f = g

\* A configured face, unless a listener accepted it, has the id under which the
\* route table and neighbour discovery know its entry.
FaceIsWhatItsIdSays ==
    \A f \in faces \cup pending :
        /\ f.by \in EntryFaces /\ KindOf(f.by) # "listener" => f.id = ids[f.by]
        /\ f.by \in DOMAIN prealloc => f.id = prealloc[f.by]

\* No interface gets two multicast faces, whether discovery or the provisioner
\* sees to it.
InterfacesOnce == \A o \in UdpFaces \cup EtherFaces : tried[o] <= 1

\* The forwarder's ids as route table, discovery and face table see them.
FaceIds == TypeOK /\ FaceIdsUnique /\ FaceIsWhatItsIdSays /\ InterfacesOnce

\* Configured routes survive what applications register and unregister: every
\* one whose index is in range is in the FIB entry of its prefix.
ConfigRoutesSurvive ==
    UpAndRunning =>
        \A r \in Installed : InRange(r) => ids[EntryFace(r.face)] \in fib[r.prefix]

\* An application that registers a prefix below a configured route does not
\* hide the route from Interests for that prefix.
ChildrenInherit ==
    UpAndRunning =>
        \A r \in Installed : \A p \in Names :
            InRange(r) /\ IsPrefix(r.prefix, p) /\ HasEntry(rib, p)
                => ids[EntryFace(r.face)] \in fib[p]

\* What the routing protocols are given holds: a next hop that is not a configured
\* face's is a face, hello consumers belong to neighbours that have one, and pinned
\* next hops are honoured from NLSR's consumers alone, though sockets fail to bind
\* and the ids of those are lost; and until the RIB replaces the entry of a prefix, each
\* producer, running, and each DV neighbour is among its next hops
\* (installs/nlsr.rs: "Producer FIB entries installed and producers running").
RoutingIsWired ==
    step \in {"routes", "faces", "running"} =>
        /\ \A p \in Names : \A id \in fib[p] :
              id \in {ids[o] : o \in EntryFaces} \/ \E f \in faces : f.id = id
        /\ \A f \in faces :
              /\ f.by[1] = "hello" => \E g \in faces : g.by = f.by[2]
              /\ f.id \in local_fields => f.by[1] \in {"hello", "consumer"}
              /\ f.by[1] = "producer" =>
                    /\ f.by[2] \in serving
                    /\ Produced[f.by[2]] \notin recomputed => f.id \in fib[Produced[f.by[2]]]
              /\ Enabled("dv") /\ f.by \in Peers("dv") /\ PfsPrefix \notin recomputed => f.id \in fib[PfsPrefix]

\* face_setup.rs:557: the sockets of the enumerated interfaces are bound either
\* way, with discovery or without.
InterfacesBound ==
    UpAndRunning => \A o \in UdpFaces \cup EtherFaces : tried[o] >= 1

\* main.rs:653: a route's face index always points at the face that entry
\* creates.
RoutePointsAtFace ==
    \A f \in faces : f.by \in EntryFaces => f.id = ids[f.by]

\* main.rs:699: one cancel token is shared by every task, so that cancelling it
\* ends every configured face.
FacesEndWithToken ==
    step = "cancelled" => \A f \in faces : f.by \in EntryFaces => f.tied

\* demo_ca.rs: the CA's namespace has a FIB entry on the CA's face, so that
\* Interests for issued certificates reach it.
CaReachable ==
    step = "running" /\ (\E f \in faces : f.by = Ca) => CaFaceId \in fib[CaPrefix]
===============================================================================

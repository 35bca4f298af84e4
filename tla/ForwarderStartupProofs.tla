----------------------- MODULE ForwarderStartupProofs -----------------------
(***************************************************************************)
(* Proofs about ForwarderStartup, for any configurations, interfaces,      *)
(* names and applications.                                                 *)
(***************************************************************************)
EXTENDS ForwarderStartup, FiniteSetTheorems, TLAPS

(* Who has an id from the allocation before the engine is built, and which.*)
Holders == DOMAIN prealloc \cup DOMAIN ids
IdOf(o) == IF o \in DOMAIN prealloc THEN prealloc[o] ELSE ids[o]
HeldIds == {IdOf(o) : o \in Holders}
Preallocatable == OfKind("multicast") \cup OfKind("etherMulticast") \cup Enumerated
Allocation ==
  /\ DOMAIN prealloc \subseteq Preallocatable
  /\ \A o \in DOMAIN ids : ids[o] = IdOf(o)
  /\ \A o \in Holders : IdOf(o) \in 1 .. next_id - 1
  /\ \A a, b \in Holders : IdOf(a) = IdOf(b) => a = b

(* What has not happened yet in a phase of main.                           *)
Building == {"alloc", "index", "nlsr", "dv", "apply"}
Starting == Building \cup {"routes"}
Phases ==
  /\ step = "alloc" => prealloc = <<>>
  /\ IF step \in {"alloc", "index"} THEN ids = <<>> ELSE DOMAIN ids = EntryFaces
  /\ step \in {"alloc", "index", "nlsr"} => faces = {} /\ queue = {} /\ local_fields = {}
  /\ step \in Building =>
        /\ rib = {} /\ fib = [p \in Names |-> {}] /\ recomputed = {} /\ at = 0 /\ serving = {}
  /\ step \in Starting =>
        /\ pending = {} /\ tried = [o \in Owners |-> 0] /\ \A f \in faces : f.by # Ca
  /\ step = "routes" => at <= Len(Routes)
  /\ step = "faces" =>
        /\ at <= Len(Entries)
        /\ \A i \in at + 1 .. Len(Entries) : Entries[i] # "listener" => tried[EntryFace(i)] = 0
        /\ \A o \in Enumerated : tried[o] = 0

(* A face has its owner's id, or one nobody was given before the build.    *)
Reserved(o) == o \in DOMAIN prealloc \/ (o \in EntryFaces /\ KindOf(o) # "listener")
FacesOK ==
  /\ \A f \in faces \cup pending :
        /\ IF Reserved(f.by) THEN f.id = IdOf(f.by) ELSE f.id \notin HeldIds
        /\ f.by \in Owners => tried[f.by] >= 1
        /\ f.id = CaFaceId => f.by = Ca
  /\ \A f \in pending : f.by \in Owners
  /\ FaceIdsUnique
  /\ InterfacesOnce

(* The RIB keeps the configured routes, and the FIB what the RIB has.      *)
ConfigRoute(r) == [prefix |-> r.prefix, face |-> ids[EntryFace(r.face)], inherit |-> TRUE]
RoutesOK ==
  /\ step \notin Building => \A r \in Installed : InRange(r) => ConfigRoute(r) \in rib
  /\ \A p \in Names : HasEntry(rib, p) => NextHops(rib, p) \subseteq fib[p] /\ p \in recomputed

(* Next hops and queued next hops lead to faces, or to configured ones.    *)
Leads(id) == id \in {ids[o] : o \in EntryFaces} \/ \E f \in faces : f.id = id
Wiring ==
  step \in {"dv", "apply", "routes", "faces", "running"} =>
    /\ \A r \in rib : Leads(r.face)
    /\ \A p \in Names : \A id \in fib[p] : Leads(id)
    /\ \A q \in queue : \E f \in faces : f.id = q.face
    /\ \A id \in local_fields : \E f \in faces : f.id = id /\ f.by[1] \in {"hello", "consumer"}
    /\ \A f \in faces :
          /\ f.by[1] = "hello" => \E g \in faces : g.by = f.by[2]
          /\ f.by[1] = "producer" =>
                /\ f.by[2] \in DOMAIN Produced
                /\ step \in {"dv", "apply"} => Queued(Produced[f.by[2]], f.id) \in queue
                /\ step \notin {"dv", "apply"} =>
                      /\ f.by[2] \in serving
                      /\ Produced[f.by[2]] \notin recomputed => f.id \in fib[Produced[f.by[2]]]
          /\ Enabled("dv") /\ f.by \in Peers("dv") =>
                /\ step = "apply" => Queued(PfsPrefix, f.id) \in queue
                /\ step \notin {"dv", "apply"} /\ PfsPrefix \notin recomputed => f.id \in fib[PfsPrefix]
                /\ step # "dv"

Inv == TypeOK /\ Allocation /\ Phases /\ FacesOK /\ RoutesOK /\ Wiring

-----------------------------------------------------------------------------
(* Configurations, and numbering the owners of ids.                        *)

LEMMA ConfigIs ==
  ASSUME config \in Configs
  PROVE  /\ Entries \in Seq(Kinds) /\ Len(Entries) \in Nat /\ DOMAIN Entries = 1 .. Len(Entries)
         /\ Routes \in Seq([prefix : Names, face : Nat]) /\ Len(Routes) \in Nat
         /\ \A n \in 1 .. Len(Routes) : Routes[n] \in [prefix : Names, face : Nat]
         /\ DOMAIN Neighbours \subseteq {"nlsr", "dv"}
         /\ \A x \in DOMAIN Neighbours : Neighbours[x] \in Seq(BOOLEAN)
<1> DEFINE R == [prefix : Names, face : Nat]
<1>1. /\ Entries \in Seq(Kinds) /\ Routes \in Seq(R) /\ DOMAIN Neighbours \subseteq {"nlsr", "dv"}
      /\ \A x \in DOMAIN Neighbours : Neighbours[x] \in Seq(BOOLEAN)
  BY ConfigAssumption DEF ConfigAssumption, Entries, Routes, Neighbours
<1> HIDE DEF R
<1>2. Len(Entries) \in Nat /\ DOMAIN Entries = 1 .. Len(Entries)
  BY <1>1
<1>3. Len(Routes) \in Nat /\ \A n \in 1 .. Len(Routes) : Routes[n] \in R
  BY <1>1
<1> QED
  BY <1>1, <1>2, <1>3 DEF R

(* Everything said of a configuration stays as long as it does.            *)
LEMMA Static ==
  ASSUME UNCHANGED config
  PROVE  /\ UNCHANGED <<Entries, Routes, Neighbours, EntryFaces, Owners, Preallocatable, RoutingOwners>>
         /\ \A o : UNCHANGED KindOf(o)
         /\ \A x : UNCHANGED <<Peers(x), Enabled(x)>>
         /\ \A r : InRange(r)' = InRange(r)
<1>1. UNCHANGED <<Entries, Routes, Neighbours>>
  BY DEF Entries, Routes, Neighbours
<1>2. UNCHANGED EntryFaces
  BY <1>1 DEF EntryFaces
<1>3. UNCHANGED Owners
  BY <1>2 DEF Owners
<1>4. UNCHANGED Preallocatable
  BY <1>1 DEF Preallocatable, OfKind
<1>5. \A o : UNCHANGED KindOf(o)
  BY <1>1 DEF KindOf
<1>6. \A x : UNCHANGED <<Peers(x), Enabled(x)>>
  BY <1>1 DEF Peers, Enabled
<1>7. UNCHANGED RoutingOwners
  BY <1>1, <1>6 DEF RoutingOwners
<1>8. \A r : InRange(r)' = InRange(r)
  BY <1>2 DEF InRange
<1> QED
  BY <1>1, <1>2, <1>3, <1>4, <1>5, <1>6, <1>7, <1>8

(* alloc_face_id gives each of a finite set an id of its own, from the     *)
(* next one on.                                                            *)
LEMMA FreshIs ==
  ASSUME NEW S, IsFiniteSet(S), NEW from \in Int
  PROVE  /\ Cardinality(S) \in Nat
         /\ Fresh(S, from) \in [S -> from .. from + Cardinality(S) - 1]
         /\ \A a, b \in S : Fresh(S, from)[a] = Fresh(S, from)[b] => a = b
<1> DEFINE n == Cardinality(S)
<1>1. n \in Nat /\ ExistsBijection(1 .. n, S)
  BY FS_CardinalityType
<1> HIDE DEF n
<1>2. PICK e \in [1 .. n -> S] : \A s \in S : \E k \in 1 .. n : e[k] = s
  BY <1>1 DEF ExistsBijection, Bijection, Surjection
<1> DEFINE f == [s \in S |-> from - 1 + CHOOSE k \in 1 .. n : e[k] = s]
<1>3. \A s \in S : (CHOOSE k \in 1 .. n : e[k] = s) \in 1 .. n /\ e[CHOOSE k \in 1 .. n : e[k] = s] = s
  BY <1>2
<1>4. f \in [S -> from .. from + n - 1]
  BY <1>1, <1>3
<1>5. \A a, b \in S : f[a] = f[b] => a = b
  BY <1>1, <1>3
<1> HIDE DEF f
<1> QED
  BY <1>1, <1>4, <1>5 DEF Fresh, n

(* A finite set of indices, and what is one to one with it.                *)
LEMMA TaggedFinite ==
  ASSUME NEW S, IsFiniteSet(S), NEW tag
  PROVE  IsFiniteSet({<<tag, x>> : x \in S})
<1> DEFINE f == [x \in S |-> <<tag, x>>]
<1>1. f \in Surjection(S, {<<tag, x>> : x \in S})
  BY DEF Surjection
<1> QED
  BY <1>1, FS_Surjection DEF ExistsSurjection

LEMMA OwnersFinite ==
  ASSUME config \in Configs
  PROVE  /\ IsFiniteSet(EntryFaces) /\ IsFiniteSet(Enumerated) /\ IsFiniteSet(Preallocatable)
         /\ \A x \in DOMAIN Neighbours : IsFiniteSet(Peers(x))
<1>1. IsFiniteSet(DOMAIN Entries) /\ \A x \in DOMAIN Neighbours : IsFiniteSet(DOMAIN Neighbours[x])
  BY ConfigIs, FS_Interval
<1>2. IsFiniteSet(EntryFaces)
  BY <1>1, TaggedFinite DEF EntryFaces
<1>3. IsFiniteSet(Enumerated)
  <2>1. IsFiniteSet(UdpIfaces) /\ IsFiniteSet(EtherIfaces)
    BY ConfigAssumption DEF ConfigAssumption
  <2>2. IsFiniteSet(UdpFaces)
    BY <2>1, TaggedFinite DEF UdpFaces
  <2>3. IsFiniteSet(EtherFaces)
    BY <2>1, TaggedFinite DEF EtherFaces
  <2> QED
    BY <2>2, <2>3, FS_Union, Zenon DEF Enumerated
<1>4. Preallocatable \subseteq EntryFaces \cup Enumerated
  BY DEF Preallocatable, OfKind, EntryFaces, EntryFace
<1>5. IsFiniteSet(Preallocatable)
  BY <1>2, <1>3, <1>4, FS_Union, FS_Subset
<1>6. ASSUME NEW x \in DOMAIN Neighbours
      PROVE  IsFiniteSet(Peers(x))
  <2>1. IsFiniteSet({n \in DOMAIN Neighbours[x] : Neighbours[x][n]})
    BY <1>1, FS_Subset
  <2> QED
    BY <2>1, TaggedFinite DEF Peers
<1> QED
  BY <1>2, <1>3, <1>5, <1>6

-----------------------------------------------------------------------------
(* The parts of the type invariant, and what keeps each.                   *)

RouteType == [prefix : Names, face : Ids, inherit : BOOLEAN]
FaceType == [id : Ids, by : Owners \cup RoutingOwners \cup {Ca}, tied : BOOLEAN]
ControlTyped ==
  /\ config \in Configs /\ at \in Nat /\ tried \in [Owners -> Nat]
  /\ step \in Starting \cup {"faces", "running", "cancelled", "down", "exited"}
IdsTyped ==
  /\ next_id \in Nat \ {0}
  /\ prealloc \in [DOMAIN prealloc -> Ids] /\ DOMAIN prealloc \subseteq Owners
  /\ ids \in [DOMAIN ids -> Ids] /\ DOMAIN ids \in {{}, EntryFaces}
TablesTyped ==
  /\ rib \subseteq [prefix : Names, face : Ids, inherit : BOOLEAN]
  /\ fib \in [Names -> SUBSET Ids] /\ recomputed \subseteq Names
InstallsTyped ==
  /\ queue \subseteq [prefix : Names, face : Ids] /\ local_fields \subseteq Ids
  /\ serving \subseteq {"hello", "sync", "lsa"}
FacesTyped == faces \cup pending \subseteq FaceType

LEMMA Typed ==
  TypeOK <=> ControlTyped /\ IdsTyped /\ TablesTyped /\ InstallsTyped /\ FacesTyped
BY DEF TypeOK, ControlTyped, IdsTyped, TablesTyped, InstallsTyped, FacesTyped, FaceType, Starting, Building

LEMMA TypedNext ==
  (TypeOK <=> ControlTyped /\ IdsTyped /\ TablesTyped /\ InstallsTyped /\ FacesTyped)'
BY Typed, PTL

LEMMA TypesGrow ==
  ASSUME TypeOK, UNCHANGED config, NEW more \in Nat, next_id' = next_id + more
  PROVE  /\ Ids \subseteq Ids' /\ FaceType \subseteq FaceType'
         /\ UNCHANGED <<prealloc, ids>> => IdsTyped'
         /\ UNCHANGED <<rib, fib, recomputed>> => TablesTyped'
         /\ UNCHANGED <<queue, local_fields, serving>> => InstallsTyped'
         /\ faces' \cup pending' \subseteq faces \cup pending \cup FaceType' => FacesTyped'
<1>1. next_id \in Nat \ {0}
  BY DEF TypeOK
<1>2. Ids \subseteq Ids'
  <2>1. 1 .. next_id - 1 \subseteq 1 .. next_id' - 1
    BY <1>1
  <2> QED
    BY <2>1 DEF Ids, CaFaceId
<1>3. FaceType \subseteq FaceType'
  BY <1>2, Static DEF FaceType
<1>4. UNCHANGED <<prealloc, ids>> => IdsTyped'
  BY <1>1, <1>2, Static, Typed DEF IdsTyped
<1>5. UNCHANGED <<rib, fib, recomputed>> => TablesTyped'
  BY <1>2, Typed DEF TablesTyped
<1>6. UNCHANGED <<queue, local_fields, serving>> => InstallsTyped'
  BY <1>2, Typed DEF InstallsTyped
<1>7. faces' \cup pending' \subseteq faces \cup pending \cup FaceType' => FacesTyped'
  BY <1>3, Typed DEF FacesTyped
<1> QED
  BY <1>2, <1>3, <1>4, <1>5, <1>6, <1>7

-----------------------------------------------------------------------------
(* Ids and faces.                                                          *)

LEMMA AllocationKept ==
  ASSUME Inv, UNCHANGED <<config, prealloc, ids>>, NEW more \in Nat, next_id' = next_id + more
  PROVE  /\ Allocation' /\ UNCHANGED <<Holders, HeldIds>>
         /\ \A o : UNCHANGED IdOf(o) /\ Reserved(o)' = Reserved(o)
<1>1. UNCHANGED Holders /\ \A o : UNCHANGED IdOf(o)
  BY DEF Holders, IdOf
<1>2. UNCHANGED HeldIds
  BY <1>1 DEF HeldIds
<1>3. \A o : Reserved(o)' = Reserved(o)
  BY Static DEF Reserved
<1>4. next_id \in Nat
  BY DEF Inv, TypeOK
<1>5. Allocation'
  BY <1>1, <1>4, Static DEF Inv, Allocation
<1> QED
  BY <1>1, <1>2, <1>3, <1>5

(* Nobody has an id that an owner just got, or has, for whom no face was   *)
(* made yet.                                                               *)
LEMMA IdUnused ==
  ASSUME Inv, NEW o, NEW id,
         \/ Reserved(o) /\ o \in Owners /\ tried[o] = 0 /\ id = IdOf(o)
            /\ step \notin {"alloc", "index"}
         \/ id \in Int /\ id >= next_id
         \/ id = CaFaceId /\ \A f \in faces \cup pending : f.by # Ca
  PROVE  \A g \in faces \cup pending : g.id # id
<1> SUFFICES ASSUME NEW g \in faces \cup pending, g.id = id
             PROVE  FALSE
  OBVIOUS
<1>1. /\ g.id \in Ids /\ next_id \in Nat
      /\ IF Reserved(g.by) THEN g.id = IdOf(g.by) ELSE g.id \notin HeldIds
      /\ g.by \in Owners => tried[g.by] >= 1
      /\ g.id = CaFaceId => g.by = Ca
  BY Typed DEF Inv, TypeOK, FacesTyped, FaceType, FacesOK
<1>2. CASE Reserved(o) /\ o \in Owners /\ tried[o] = 0 /\ id = IdOf(o) /\ step \notin {"alloc", "index"}
  <2>1. \A x : Reserved(x) => x \in Holders
    BY <1>2 DEF Inv, Phases, Reserved, Holders
  <2>2. id \in HeldIds
    BY <1>2, <2>1 DEF HeldIds
  <2>3. Reserved(g.by) /\ IdOf(g.by) = IdOf(o)
    BY <1>1, <1>2, <2>2
  <2>4. g.by = o
    BY <1>2, <2>1, <2>3 DEF Inv, Allocation
  <2> QED
    BY <1>1, <1>2, <2>4
<1>3. CASE id \in Int /\ id >= next_id
  BY <1>1, <1>3 DEF Ids, CaFaceId
<1>4. CASE id = CaFaceId /\ \A f \in faces \cup pending : f.by # Ca
  BY <1>1, <1>4
<1> QED
  BY <1>2, <1>3, <1>4

LEMMA FacesKept ==
  ASSUME Inv, UNCHANGED <<config, prealloc, ids, tried>>, NEW more \in Nat, next_id' = next_id + more,
         faces' \cup pending' \subseteq faces \cup pending, pending' \subseteq pending
  PROVE  FacesOK'
BY AllocationKept, Static DEF Inv, FacesOK, FaceIdsUnique, InterfacesOnce

(* New faces: each has an id nobody has, its owner's if that was given one.*)
LEMMA FacesAdded ==
  ASSUME Inv, UNCHANGED <<config, prealloc, ids>>, NEW more \in Nat, next_id' = next_id + more,
         NEW F, faces' \cup pending' \subseteq faces \cup pending \cup F,
         \A f \in pending' : f \in pending \/ f.by \in Owners,
         \A f \in F : /\ IF Reserved(f.by) THEN f.id = IdOf(f.by) ELSE f.id \notin HeldIds
                      /\ f.by \in Owners => tried'[f.by] >= 1
                      /\ f.id = CaFaceId => f.by = Ca
                      /\ \A g \in faces \cup pending : g.id # f.id
                      /\ \A g \in F : g.id = f.id => g = f,
         tried \in [Owners -> Nat], tried' \in [Owners -> Nat],
         \A o \in Owners : tried'[o] >= tried[o],
         \A o \in Enumerated : tried'[o] <= 1
  PROVE  FacesOK'
<1>1. ASSUME NEW f \in faces' \cup pending'
      PROVE  /\ (IF Reserved(f.by) THEN f.id = IdOf(f.by) ELSE f.id \notin HeldIds)'
             /\ f.by \in Owners => tried'[f.by] >= 1
             /\ f.id = CaFaceId => f.by = Ca
  BY AllocationKept DEF Inv, FacesOK
<1>2. FaceIdsUnique'
  BY DEF Inv, FacesOK, FaceIdsUnique
<1>3. (\A f \in pending : f.by \in Owners)'
  BY Static DEF Inv, FacesOK
<1>4. InterfacesOnce'
  BY DEF InterfacesOnce, Enumerated
<1> QED
  BY <1>1, <1>2, <1>3, <1>4, Static DEF FacesOK

-----------------------------------------------------------------------------
(* The tables.                                                             *)

LEMMA InstalledKept ==
  ASSUME UNCHANGED config,
         UNCHANGED <<step, at>> \/ (step # "routes" /\ step' # "routes")
  PROVE  UNCHANGED Installed
BY Static DEF Installed

(* Rib::apply_to_fib after a change of routes of one prefix.               *)
LEMMA AppliedIs ==
  ASSUME Inv, NEW p \in Names, AppliedToFib(p),
         \A x \in rib' : x \in rib \/ x.prefix = p
  PROVE  /\ fib' \in [Names -> SUBSET (Ids \cup {x.face : x \in rib'})]
         /\ \A q \in Names : HasEntry(rib', q) => NextHops(rib', q) \subseteq fib'[q] /\ q \in recomputed'
         /\ \A q \in Names : q \notin recomputed' => fib'[q] = fib[q]
         /\ \A q \in Names : \A id \in fib'[q] : id \in fib[q] \/ \E x \in rib' : x.face = id
<1>1. /\ recomputed' = recomputed \cup {p}
      /\ fib \in [Names -> SUBSET Ids]
      /\ \A q \in Names : HasEntry(rib, q) => NextHops(rib, q) \subseteq fib[q] /\ q \in recomputed
  BY Typed DEF Inv, AppliedToFib, RoutesOK, TablesTyped
<1>2. /\ DOMAIN fib' = Names /\ fib' = [q \in Names |-> fib'[q]]
      /\ \A q \in Names : fib'[q] =
            IF q = p \/ (IsPrefix(p, q) /\ HasEntry(rib', q)) THEN NextHops(rib', q) ELSE fib[q]
  BY DEF AppliedToFib, Applied
<1>3. ASSUME NEW q \in Names, q # p, HasEntry(rib', q)
      PROVE  HasEntry(rib, q)
  BY <1>3 DEF HasEntry
<1>4. ASSUME NEW q \in Names, HasEntry(rib', q)
      PROVE  NextHops(rib', q) \subseteq fib'[q] /\ q \in recomputed'
  <2>1. CASE q = p \/ IsPrefix(p, q)
    BY <2>1, <1>1, <1>2, <1>3, <1>4
  <2>2. CASE q # p /\ ~IsPrefix(p, q)
    <3>1. NextHops(rib', q) \subseteq NextHops(rib, q)
      BY <2>2, <1>3, <1>4 DEF NextHops, Inherited, IsStrictPrefix
    <3> QED
      BY <2>2, <3>1, <1>1, <1>2, <1>3, <1>4
  <2> QED
    BY <2>1, <2>2
<1>5. ASSUME NEW q \in Names, q \notin recomputed'
      PROVE  fib'[q] = fib[q]
  BY <1>1, <1>2, <1>3, <1>5
<1>6. \A q \in Names : \A id \in fib'[q] : id \in fib[q] \/ \E x \in rib' : x.face = id
  BY <1>2 DEF NextHops
<1> QED
  BY <1>1, <1>2, <1>4, <1>5, <1>6

(* A route of one prefix is added or removed: AddRoute, Registers,         *)
(* Unregisters.                                                            *)
LEMMA TablesChange ==
  ASSUME Inv, NEW p \in Names, AppliedToFib(p), step \in {"routes", "running"},
         UNCHANGED <<step, config, prealloc, ids, next_id, queue, local_fields, serving,
                     faces, pending, tried>>,
         \A x \in rib' : x \in rib \/ (x.prefix = p /\ x \in RouteType /\ Leads(x.face)),
         \A r \in Installed' : InRange(r) => ConfigRoute(r) \in rib',
         at' \in Nat, step = "routes" => at' <= Len(Routes)
  PROVE  Inv'
<1>1. next_id' = next_id + 0 /\ 0 \in Nat
  BY DEF Inv, TypeOK
<1>2. rib' \subseteq RouteType /\ UNCHANGED Ids
  BY Typed DEF Inv, TablesTyped, RouteType, Ids
<1>3. {x.face : x \in rib'} \subseteq Ids
  BY <1>2 DEF RouteType
<1>4. TypeOK'
  <2>1. TablesTyped'
    BY <1>2, <1>3, AppliedIs, Typed DEF Inv, TablesTyped, AppliedToFib, RouteType
  <2>2. ControlTyped'
    BY Typed, Static DEF Inv, ControlTyped
  <2>3. IdsTyped' /\ InstallsTyped' /\ FacesTyped'
    BY <1>1, TypesGrow DEF Inv
  <2> QED
    BY <2>1, <2>2, <2>3, TypedNext
<1>5. Allocation' /\ FacesOK'
  BY <1>1, AllocationKept, FacesKept
<1>6. Phases'
  BY Static DEF Inv, Phases, Building, Starting, EntryFace, Enumerated
<1>7. RoutesOK'
  <2>1. \A r : InRange(r)' = InRange(r) /\ ConfigRoute(r)' = ConfigRoute(r)
    BY Static DEF ConfigRoute
  <2>2. \A q \in Names : HasEntry(rib', q) => NextHops(rib', q) \subseteq fib'[q] /\ q \in recomputed'
    BY AppliedIs
  <2> QED
    BY <2>1, <2>2 DEF RoutesOK
<1>8. Wiring'
  <2>1. \A id : Leads(id)' = Leads(id)
    BY Static DEF Leads
  <2>2. \A r \in rib' : Leads(r.face)
    BY DEF Inv, Wiring
  <2>3. \A q \in Names : \A id \in fib'[q] : Leads(id)
    BY <2>2, AppliedIs DEF Inv, Wiring
  <2>4. \A q \in Names : q \notin recomputed' => fib'[q] = fib[q] /\ q \notin recomputed
    BY AppliedIs DEF AppliedToFib
  <2>5. \A f \in faces : f.by[1] = "producer" => Produced[f.by[2]] \in Names
    BY ConfigAssumption DEF ConfigAssumption, Inv, Wiring
  <2>6. ASSUME NEW f \in faces', f.by[1] = "producer"
        PROVE  /\ f.by[2] \in DOMAIN Produced /\ f.by[2] \in serving
               /\ Produced[f.by[2]] \notin recomputed' => f.id \in fib'[Produced[f.by[2]]]
    BY <2>4, <2>5, <2>6 DEF Inv, Wiring
  <2>7. ASSUME NEW f \in faces', Enabled("dv"), f.by \in Peers("dv"), PfsPrefix \notin recomputed'
        PROVE  f.id \in fib'[PfsPrefix]
    BY <2>4, <2>7, ConfigAssumption DEF ConfigAssumption, Inv, Wiring
  <2>8. /\ \A q \in queue' : \E f \in faces' : f.id = q.face
        /\ \A id \in local_fields' : \E f \in faces' : f.id = id /\ f.by[1] \in {"hello", "consumer"}
        /\ \A f \in faces' : f.by[1] = "hello" => \E g \in faces' : g.by = f.by[2]
    BY DEF Inv, Wiring
  <2> QED
    BY <2>1, <2>2, <2>3, <2>6, <2>7, <2>8, Static DEF Wiring
<1> QED
  BY <1>4, <1>5, <1>6, <1>7, <1>8 DEF Inv

LEMMA AddRouteStep == Inv /\ AddRoute => Inv'
<1> SUFFICES ASSUME Inv, AddRoute PROVE Inv'
  OBVIOUS
<1> DEFINE r == Routes[at']
           route == ConfigRoute(r)
<1>1. /\ step = "routes" /\ at < Len(Routes) /\ at' = at + 1 /\ at \in Nat
      /\ UNCHANGED <<step, config, prealloc, ids, next_id, queue, local_fields, serving,
                     faces, pending, tried>>
  BY Typed DEF Inv, AddRoute, allocation, installs, ControlTyped
<1>2. at' \in 1 .. Len(Routes) /\ r \in [prefix : Names, face : Nat] /\ at' <= Len(Routes)
  <2>1. /\ Len(Routes) \in Nat
        /\ \A n \in 1 .. Len(Routes) : Routes[n] \in [prefix : Names, face : Nat]
    BY ConfigIs, Typed DEF Inv, ControlTyped
  <2>2. PICK n \in Nat : n = Len(Routes)
    BY <2>1
  <2>3. at' \in 1 .. n /\ at' <= n
    BY <1>1, <2>2
  <2> QED
    BY <2>1, <2>2, <2>3, Zenon
<1>3. DOMAIN ids = EntryFaces /\ UNCHANGED <<Routes, EntryFaces>>
  BY <1>1, Static DEF Inv, Phases
<1>4. Installed' = Installed \cup {r}
  BY <1>1, <1>2, <1>3 DEF Installed
<1>5. \A x \in Installed : InRange(x) => ConfigRoute(x) \in rib
  BY <1>1 DEF Inv, RoutesOK, Building
<1>6. \A x : InRange(x)' = InRange(x) /\ ConfigRoute(x)' = ConfigRoute(x)
  BY <1>1, Static DEF ConfigRoute
<1>7. CASE InRange(r)
  <2>1. rib' = rib \cup {route} /\ AppliedToFib(r.prefix)
    BY <1>1, <1>3, <1>7 DEF AddRoute, InRange, RouteAdded, ConfigRoute
  <2>2. route \in RouteType /\ route.prefix = r.prefix /\ Leads(route.face)
    <3>1. ids[EntryFace(r.face)] \in Ids
      BY <1>3, <1>7, Typed DEF Inv, IdsTyped, InRange
    <3> QED
      BY <1>2, <1>7, <3>1 DEF ConfigRoute, RouteType, Leads, InRange
  <2>3. \A x \in Installed' : InRange(x) => ConfigRoute(x) \in rib'
    BY <1>4, <1>5, <2>1
  <2> HIDE DEF r, route
  <2> QED
    BY <1>1, <1>2, <2>1, <2>2, <2>3, TablesChange
<1>8. CASE ~InRange(r)
  <2>1. UNCHANGED <<rib, fib, recomputed>>
    BY <1>1, <1>3, <1>8 DEF AddRoute, InRange, tables
  <2>2. TypeOK'
    <3>1. next_id' = next_id + 0 /\ 0 \in Nat
      BY <1>1 DEF Inv, TypeOK
    <3>2. ControlTyped'
      BY <1>1, Static, Typed DEF Inv, ControlTyped
    <3>3. IdsTyped' /\ TablesTyped' /\ InstallsTyped'
      BY <1>1, <2>1, <3>1, TypesGrow DEF Inv
    <3>4. FacesTyped'
      BY <1>1, <3>1, TypesGrow DEF Inv
    <3> QED
      BY <3>2, <3>3, <3>4, TypedNext
  <2>3. Allocation' /\ FacesOK'
    <3>1. next_id' = next_id + 0 /\ 0 \in Nat
      BY <1>1 DEF Inv, TypeOK
    <3> QED
      BY <1>1, <3>1, AllocationKept, FacesKept
  <2>4. Phases'
    BY <1>1, <1>2, Static DEF Inv, Phases, Building, Starting, EntryFace, Enumerated
  <2>5. RoutesOK'
    BY <1>4, <1>5, <1>6, <1>8, <2>1 DEF Inv, RoutesOK
  <2>6. Wiring'
    BY <1>1, <2>1, Static DEF Inv, Wiring, Leads
  <2> QED
    BY <2>2, <2>3, <2>4, <2>5, <2>6 DEF Inv
<1> QED
  BY <1>7, <1>8

(* An application registers or unregisters a prefix: its face's id is no   *)
(* configured face's, so no configured route goes with it.                 *)
LEMMA AppSteps ==
  ASSUME Inv, NEW o \in AppFaces, NEW p \in Names, Registers(o, p) \/ Unregisters(o, p)
  PROVE  Inv'
<1>1. /\ step = "running" /\ AppliedToFib(p)
      /\ UNCHANGED <<step, at, config, prealloc, ids, next_id, queue, local_fields, serving,
                     faces, pending, tried>>
  BY DEF Registers, Unregisters, allocation, installs
<1>2. PICK f \in faces : f.by = o /\
         \/ rib' = rib \cup {[prefix |-> p, face |-> f.id, inherit |-> TRUE]}
         \/ rib' = {r \in rib : ~(r.prefix = p /\ r.face = f.id)}
  BY DEF Registers, Unregisters, FacesBy
<1>3. f.id \in Ids /\ Leads(f.id)
  BY Typed DEF Inv, FacesTyped, FaceType, Leads
<1>4. f.id \notin HeldIds
  <2>1. o \notin EntryFaces /\ o \notin Preallocatable
    BY DEF AppFaces, EntryFaces, Preallocatable, OfKind, EntryFace, Enumerated, UdpFaces, EtherFaces
  <2>2. ~Reserved(o)
    BY <2>1 DEF Inv, Allocation, Reserved
  <2> QED
    BY <1>2, <2>2 DEF Inv, FacesOK
<1>5. ASSUME NEW r \in Installed', InRange(r)
      PROVE  ConfigRoute(r) \in rib'
  <2>1. ConfigRoute(r) \in rib
    BY <1>1, <1>5, InstalledKept DEF Inv, RoutesOK, Building
  <2>2. ids[EntryFace(r.face)] \in HeldIds
    BY <1>1, <1>5 DEF Inv, Phases, Allocation, InRange, HeldIds, Holders
  <2> QED
    BY <1>2, <1>4, <2>1, <2>2 DEF ConfigRoute
<1>6. ASSUME NEW x \in rib', x \notin rib
      PROVE  x.prefix = p /\ x \in RouteType /\ Leads(x.face)
  <2>1. x = [prefix |-> p, face |-> f.id, inherit |-> TRUE]
    BY <1>2, <1>6
  <2> QED
    BY <1>3, <2>1 DEF RouteType
<1>7. at' \in Nat
  BY <1>1, Typed DEF Inv, ControlTyped
<1> QED
  BY <1>1, <1>5, <1>6, <1>7, TablesChange

-----------------------------------------------------------------------------
(* The faces come and go.                                                  *)

Serving == {"routes", "faces", "running"}

(* A step once the queue is applied: it makes or ends faces, and adds next *)
(* hops to them.                                                           *)
LEMMA FacesStep ==
  ASSUME Inv, step \notin Building, step' \notin Building, ControlTyped', Phases', FacesOK',
         UNCHANGED <<config, prealloc, ids, queue, local_fields, rib, recomputed>>,
         NEW more \in Nat, next_id' = next_id + more,
         UNCHANGED Installed, TablesTyped', \A p \in Names : fib[p] \subseteq fib'[p],
         faces' \cup pending' \subseteq faces \cup pending \cup FaceType',
         serving' \subseteq serving,
         step' \in Serving =>
            /\ step \in Serving /\ UNCHANGED serving /\ faces \subseteq faces'
            /\ \A f \in faces' : f \in faces \/ f.by \in Owners \cup {Ca}
            /\ \A p \in Names : \A id \in fib'[p] : id \in fib[p] \/ Leads(id)'
  PROVE  Inv'
<1>1. IdsTyped' /\ FacesTyped'
  BY TypesGrow DEF Inv
<1>2. InstallsTyped'
  BY TypesGrow, Typed DEF Inv, InstallsTyped
<1>3. TypeOK'
  BY <1>1, <1>2, TypedNext
<1>4. Allocation'
  BY AllocationKept
<1>5. RoutesOK'
  <2>1. \A r : InRange(r)' = InRange(r) /\ ConfigRoute(r)' = ConfigRoute(r)
    BY Static DEF ConfigRoute
  <2>2. \A p \in Names : HasEntry(rib', p) => NextHops(rib', p) \subseteq fib'[p] /\ p \in recomputed'
    BY DEF Inv, RoutesOK
  <2>3. \A r \in Installed' : InRange(r) => ConfigRoute(r) \in rib'
    BY DEF Inv, RoutesOK
  <2> QED
    BY <2>1, <2>2, <2>3 DEF RoutesOK
<1>6. CASE step' \in Serving
  <2>1. \A id : Leads(id) => Leads(id)'
    BY <1>6, Static DEF Leads
  <2>2. \A f \in faces' : f \notin faces => f.by[1] \notin {"hello", "producer", "dv"}
    BY <1>6 DEF Owners, EntryFaces, UdpFaces, EtherFaces, AppFaces, Ca
  <2>3. /\ \A r \in rib' : Leads(r.face)'
        /\ \A p \in Names : \A id \in fib'[p] : Leads(id)'
    BY <1>6, <2>1 DEF Inv, Wiring, Serving
  <2>4. /\ \A q \in queue' : \E f \in faces' : f.id = q.face
        /\ \A id \in local_fields' : \E f \in faces' : f.id = id /\ f.by[1] \in {"hello", "consumer"}
        /\ \A f \in faces' : f.by[1] = "hello" => \E g \in faces' : g.by = f.by[2]
    BY <1>6, <2>2 DEF Inv, Wiring, Serving
  <2>5. ASSUME NEW f \in faces', f.by[1] = "producer"
        PROVE  /\ f.by[2] \in DOMAIN Produced /\ f.by[2] \in serving'
               /\ Produced[f.by[2]] \notin recomputed' => f.id \in fib'[Produced[f.by[2]]]
    <3>1. f \in faces /\ f.by[2] \in DOMAIN Produced
      BY <1>6, <2>2, <2>5 DEF Inv, Wiring, Serving
    <3>2. Produced[f.by[2]] \in Names
      BY <3>1, ConfigAssumption DEF ConfigAssumption
    <3> QED
      BY <1>6, <2>5, <3>1, <3>2 DEF Inv, Wiring, Serving
  <2>6. ASSUME NEW f \in faces', Enabled("dv"), f.by \in Peers("dv"), PfsPrefix \notin recomputed'
        PROVE  f.id \in fib'[PfsPrefix]
    <3>1. f \in faces
      BY <2>2, <2>6 DEF Peers
    <3> QED
      BY <1>6, <2>6, <3>1, ConfigAssumption DEF ConfigAssumption, Inv, Wiring, Serving
  <2>7. Wiring'
    BY <1>6, <2>3, <2>4, <2>5, <2>6, Static DEF Wiring, Serving
  <2> QED
    BY <1>3, <1>4, <1>5, <2>7 DEF Inv
<1>7. CASE step' \notin Serving
  BY <1>3, <1>4, <1>5, <1>7 DEF Inv, Wiring, Serving, Building
<1> QED
  BY <1>6, <1>7

(* A face is created, or is not; faces, tasks and the forwarder end.       *)
LEMMA EndSteps ==
  ASSUME Inv,
         \/ \E f \in pending : Create(f)
         \/ Cancel \/ EngineShutdown
         \/ \E f \in faces : FaceEnds(f)
         \/ \E d \in serving : ProducerEnds(d)
  PROVE  Inv'
<1>1. /\ UNCHANGED <<at, config, prealloc, ids, queue, local_fields, rib, fib, recomputed, next_id, tried>>
      /\ serving' \subseteq serving
      /\ faces' \cup pending' \subseteq faces \cup pending /\ pending' \subseteq pending
  BY DEF Create, Cancel, EngineShutdown, FaceEnds, ProducerEnds, allocation, installs, tables
<1>2. /\ step \in {"faces", "running", "cancelled", "down"}
      /\ step' = step \/ step' \in {"cancelled", "down"}
      /\ step' \in Serving =>
            step' = step /\ UNCHANGED serving /\ faces \subseteq faces' /\ faces' \subseteq faces \cup pending
  <2>1. CASE \E f \in pending : Create(f)
    BY <2>1, Typed DEF Inv, Phases, ControlTyped, Create, allocation, installs
  <2>2. CASE Cancel \/ EngineShutdown \/ (\E f \in faces : FaceEnds(f)) \/ \E d \in serving : ProducerEnds(d)
    BY <2>2 DEF Cancel, EngineShutdown, FaceEnds, ProducerEnds, Serving
  <2> QED
    BY <2>1, <2>2
<1>3. next_id' = next_id + 0 /\ 0 \in Nat
  BY <1>1, Typed DEF Inv, IdsTyped
<1>4. ControlTyped'
  BY <1>1, <1>2, Static, Typed DEF Inv, ControlTyped, Starting
<1>5. Phases'
  BY <1>1, <1>2, Static DEF Inv, Phases, Building, Starting, EntryFace, Enumerated
<1>6. FacesOK'
  BY <1>1, <1>3, FacesKept
<1>7. TablesTyped'
  BY <1>1, <1>3, TypesGrow DEF Inv
<1>8. UNCHANGED Installed
  BY <1>1, <1>2, InstalledKept
<1>9. step \notin Building /\ step' \notin Building
  BY <1>2 DEF Building
<1>10. ASSUME step' \in Serving
       PROVE  step \in Serving /\ \A f \in faces' : f \in faces \/ f.by \in Owners \cup {Ca}
  BY <1>2, <1>10 DEF Inv, FacesOK, Serving
<1> QED
  BY <1>1, <1>2, <1>3, <1>4, <1>5, <1>6, <1>7, <1>8, <1>9, <1>10, FacesStep

(* One face more, for an owner that has none.                              *)
LEMMA OneFace ==
  ASSUME Inv, step \notin Building, UNCHANGED <<config, prealloc, ids>>,
         NEW more \in Nat, next_id' = next_id + more,
         NEW o \in Owners, tried[o] = 0, tried' = Tried({o}), NEW tied \in BOOLEAN, NEW id,
         (Reserved(o) /\ id = IdOf(o)) \/ (~Reserved(o) /\ id = next_id /\ more = 1),
         faces' \subseteq faces \cup {Face(id, o, tied)}, pending' \subseteq pending \cup {Face(id, o, tied)}
  PROVE  /\ FacesOK' /\ tried' \in [Owners -> Nat] /\ Face(id, o, tied) \in FaceType'
         /\ \A x \in Owners : x # o => tried'[x] = tried[x]
<1> DEFINE f == Face(id, o, tied)
<1>1. f.id = id /\ f.by = o /\ f.tied = tied
  BY DEF Face
<1>2. next_id \in Nat \ {0} /\ tried \in [Owners -> Nat]
  BY Typed DEF Inv, IdsTyped, ControlTyped
<1>3. /\ tried' \in [Owners -> Nat] /\ \A x \in Owners : tried'[x] >= tried[x]
      /\ tried'[o] = 1 /\ \A x \in Owners : x # o => tried'[x] = tried[x]
  BY <1>2 DEF Tried
<1>4. \A g \in faces \cup pending : g.id # id
  <2>1. step \notin {"alloc", "index"}
    BY DEF Building
  <2> QED
    BY <1>2, <2>1, IdUnused
<1>5. id \in 1 .. next_id' - 1 /\ id \in Int
  <2>1. Reserved(o) => IdOf(o) \in 1 .. next_id - 1
    BY DEF Inv, Allocation, Reserved, Holders, Phases, Building
  <2> QED
    BY <1>2, <2>1
<1>6. f \in FaceType' /\ id # CaFaceId
  BY <1>5, Static DEF FaceType, Ids, Face, CaFaceId
<1>7. IF Reserved(o) THEN id = IdOf(o) ELSE id \notin HeldIds
  <2>1. \A x \in HeldIds : x \in 1 .. next_id - 1
    BY DEF Inv, Allocation, HeldIds
  <2> QED
    BY <1>2, <2>1
<1>8. \A x \in Enumerated : tried'[x] <= 1
  <2>1. \A x \in Enumerated : x \in Owners /\ tried[x] <= 1
    BY DEF Inv, FacesOK, InterfacesOnce, Enumerated, Owners
  <2> QED
    BY <1>3, <2>1
<1> HIDE DEF f
<1>9. FacesOK'
  <2> DEFINE F == {f}
  <2>1. \A x \in F : /\ IF Reserved(x.by) THEN x.id = IdOf(x.by) ELSE x.id \notin HeldIds
                     /\ x.by \in Owners => tried'[x.by] >= 1
                     /\ x.id = CaFaceId => x.by = Ca
                     /\ \A g \in faces \cup pending : g.id # x.id
                     /\ \A g \in F : g.id = x.id => g = x
    BY <1>1, <1>3, <1>4, <1>6, <1>7
  <2>2. faces' \cup pending' \subseteq faces \cup pending \cup F /\ \A x \in pending' : x \in pending \/ x.by \in Owners
    BY <1>1 DEF f
  <2> HIDE DEF F
  <2> QED
    BY <1>2, <1>3, <1>8, <2>1, <2>2, FacesAdded
<1> QED
  BY <1>3, <1>6, <1>9 DEF f

(* A listener accepts a peer, an application connects: a fresh id.         *)
LEMMA ConnectSteps ==
  ASSUME Inv, NEW o, (o \in EntryFaces /\ Accepts(o)) \/ (o \in AppFaces /\ Connects(o))
  PROVE  Inv'
<1>1. /\ step \in {"faces", "running"} /\ o \in Owners /\ tried[o] = 0
      /\ tried' = Tried({o}) /\ next_id' = next_id + 1
      /\ faces' = faces \cup {Face(next_id, o, TRUE)}
      /\ UNCHANGED <<step, at, config, prealloc, ids, queue, local_fields, serving, rib, fib, recomputed, pending>>
  BY DEF Accepts, Connects, Owners, allocation, installs, tables
<1>2. ~Reserved(o)
  <2>1. CASE o \in EntryFaces /\ Accepts(o)
    <3>1. KindOf(o) = "listener"
      BY <2>1 DEF Accepts
    <3>2. o \notin Preallocatable
      BY <2>1, <3>1 DEF EntryFaces, Preallocatable, OfKind, EntryFace, Enumerated, UdpFaces, EtherFaces, KindOf
    <3> QED
      BY <3>1, <3>2 DEF Inv, Allocation, Reserved
  <2>2. CASE o \in AppFaces
    <3>1. o \notin EntryFaces /\ o \notin Preallocatable
      BY <2>2 DEF AppFaces, EntryFaces, Preallocatable, OfKind, EntryFace, Enumerated, UdpFaces, EtherFaces
    <3> QED
      BY <3>1 DEF Inv, Allocation, Reserved
  <2> QED
    BY <2>1, <2>2
<1>3. step \notin Building /\ step' \notin Building
  BY <1>1 DEF Building
<1>4. /\ FacesOK' /\ tried' \in [Owners -> Nat] /\ Face(next_id, o, TRUE) \in FaceType'
      /\ \A x \in Owners : x # o => tried'[x] = tried[x]
  BY <1>1, <1>2, <1>3, OneFace
<1>5. ControlTyped'
  BY <1>1, <1>4, Static, Typed DEF Inv, ControlTyped
<1>6. Phases'
  <2>1. \A i \in DOMAIN Entries : Entries[i] # "listener" /\ step = "faces" => EntryFace(i) # o /\ EntryFace(i) \in Owners
    BY DEF Accepts, Connects, KindOf, EntryFace, Owners, EntryFaces
  <2>2. step = "faces" => \A x \in Enumerated : x # o /\ x \in Owners
    BY DEF Accepts, Connects, Owners, EntryFaces, Enumerated, UdpFaces, EtherFaces
  <2>3. at \in Nat /\ \A i \in at + 1 .. Len(Entries) : i \in DOMAIN Entries
    BY ConfigIs, Typed DEF Inv, ControlTyped
  <2> QED
    <3>1. step = "faces" =>
             /\ at <= Len(Entries)
             /\ \A i \in at + 1 .. Len(Entries) : Entries[i] # "listener" => tried'[EntryFace(i)] = 0
             /\ \A x \in Enumerated : tried'[x] = 0
      BY <1>4, <2>1, <2>2, <2>3 DEF Inv, Phases
    <3>2. DOMAIN ids = EntryFaces
      BY <1>1 DEF Inv, Phases
    <3> QED
      BY <1>1, <3>1, <3>2, Static DEF Phases, Building, Starting, EntryFace, Enumerated
<1>7. TablesTyped'
  BY <1>1, TypesGrow DEF Inv
<1>8. UNCHANGED Installed
  BY <1>1, InstalledKept
<1>9. \A f \in faces' : f \in faces \/ f.by \in Owners \cup {Ca}
  BY <1>1 DEF Face
<1> QED
  BY <1>1, <1>3, <1>4, <1>5, <1>6, <1>7, <1>8, <1>9, FacesStep DEF Serving

(* The next [[face]] entry is set up, with the id it was given.            *)
LEMMA EntrySteps ==
  ASSUME Inv, SetUpEntry \/ SetUpRadio
  PROVE  Inv'
<1> DEFINE o == EntryFace(at')
           f == Face(ids[o], o, Tied(o))
<1>1. /\ step = "faces" /\ at < Len(Entries) /\ at' = at + 1 /\ step' \in {"faces", "exited"}
      /\ UNCHANGED <<config, next_id, prealloc, ids, queue, local_fields, serving, rib, fib, recomputed>>
  BY DEF SetUpEntry, SetUpRadio, allocation, installs, tables
<1>2. /\ at' \in DOMAIN Entries /\ at' <= Len(Entries) /\ at' \in at + 1 .. Len(Entries)
      /\ at \in Nat /\ at' \in Nat /\ Len(Entries) \in Nat
  <2>1. Len(Entries) \in Nat /\ DOMAIN Entries = 1 .. Len(Entries) /\ at \in Nat
    BY ConfigIs, Typed DEF Inv, ControlTyped
  <2>2. PICK n \in Nat : n = Len(Entries)
    BY <2>1
  <2>3. at' \in 1 .. n /\ at' <= n /\ at' \in at + 1 .. n /\ at' \in Nat
    BY <1>1, <2>1, <2>2
  <2> QED
    BY <2>1, <2>2, <2>3, Zenon
<1>3. /\ o \in EntryFaces /\ o \in Owners /\ KindOf(o) = Entries[at']
      /\ DOMAIN ids = EntryFaces /\ ids[o] = IdOf(o)
  BY <1>1, <1>2 DEF EntryFaces, EntryFace, Owners, KindOf, Inv, Phases, Allocation
<1>4. \/ UNCHANGED <<faces, pending, tried>>
      \/ /\ KindOf(o) # "listener" /\ tried' = Tried({o})
         /\ faces \subseteq faces' /\ faces' \subseteq faces \cup {f}
         /\ pending' \subseteq pending \cup {f}
  <2>1. CASE SetUpEntry
    <3>1. UNCHANGED <<faces, pending, tried>> \/ OpensDevice(f) \/ SpawnsCreation(f)
      BY <2>1, Zenon DEF SetUpEntry
    <3>2. f.by = o
      BY DEF Face
    <3> HIDE DEF f
    <3>3. OpensDevice(f) \/ SpawnsCreation(f) => KindOf(o) # "listener"
      BY <3>2 DEF OpensDevice, SpawnsCreation
    <3>4. OpensDevice(f) \/ SpawnsCreation(f) => tried' = Tried({o})
      BY <3>2, Zenon DEF OpensDevice, SpawnsCreation
    <3>5. OpensDevice(f) \/ SpawnsCreation(f) =>
             /\ faces \subseteq faces' /\ faces' \subseteq faces \cup {f}
             /\ pending' \subseteq pending \cup {f}
      BY DEF OpensDevice, SpawnsCreation
    <3> QED
      BY <3>1, <3>3, <3>4, <3>5
  <2>2. CASE SetUpRadio
    BY <2>2, <1>1, <1>3 DEF SetUpRadio, Tied
  <2> QED
    BY <2>1, <2>2
<1>5. next_id' = next_id + 0 /\ 0 \in Nat /\ step \notin Building /\ step' \notin Building
  BY <1>1, Typed DEF Inv, IdsTyped, Building
<1>6. /\ FacesOK' /\ tried' \in [Owners -> Nat]
      /\ faces' \cup pending' \subseteq faces \cup pending \cup FaceType'
      /\ \A x \in Owners : x # o => tried'[x] = tried[x]
  <2>1. CASE UNCHANGED <<faces, pending, tried>>
    <3>1. FacesOK'
      BY <1>1, <1>5, <2>1, FacesKept
    <3> QED
      BY <2>1, <3>1, Typed DEF Inv, ControlTyped
  <2>2. CASE /\ KindOf(o) # "listener" /\ tried' = Tried({o})
             /\ faces \subseteq faces' /\ faces' \subseteq faces \cup {f}
             /\ pending' \subseteq pending \cup {f}
    <3>1. tried[o] = 0
      BY <1>1, <1>2, <1>3, <2>2 DEF Inv, Phases
    <3>2. Reserved(o) /\ Tied(o) \in BOOLEAN
      BY <1>3, <2>2 DEF Reserved, Tied
    <3>3. f = Face(IdOf(o), o, Tied(o))
      BY <1>3
    <3> HIDE DEF o, f
    <3>4. faces' \subseteq faces \cup {Face(IdOf(o), o, Tied(o))} /\ pending' \subseteq pending \cup {Face(IdOf(o), o, Tied(o))}
      BY <2>2, <3>3
    <3>5. FacesOK' /\ tried' \in [Owners -> Nat] /\ f \in FaceType' /\ \A x \in Owners : x # o => tried'[x] = tried[x]
      BY <1>1, <1>3, <1>5, <2>2, <3>1, <3>2, <3>3, <3>4, OneFace
    <3> QED
      BY <2>2, <3>5
  <2> QED
    BY <1>4, <2>1, <2>2
<1>7. ControlTyped'
  BY <1>1, <1>2, <1>6, Static, Typed DEF Inv, ControlTyped
<1>8. Phases'
  <2>1. step = "faces" =>
             /\ \A i \in at' + 1 .. Len(Entries) : Entries[i] # "listener" => tried'[EntryFace(i)] = 0
             /\ \A x \in Enumerated : tried'[x] = 0
    <3>1. ASSUME NEW i \in at' + 1 .. Len(Entries)
          PROVE  i \in at + 1 .. Len(Entries) /\ i \in DOMAIN Entries /\ EntryFace(i) # o
      BY <1>1, <1>2, ConfigIs, Typed DEF Inv, ControlTyped, EntryFace
    <3>2. \A i \in DOMAIN Entries : EntryFace(i) \in Owners
      BY DEF EntryFace, Owners, EntryFaces
    <3>3. \A x \in Enumerated : x # o /\ x \in Owners
      BY <1>3 DEF Owners, EntryFaces, Enumerated, UdpFaces, EtherFaces
    <3> HIDE DEF o
    <3> QED
      BY <1>1, <1>6, <3>1, <3>2, <3>3 DEF Inv, Phases
  <2> QED
    BY <1>1, <1>2, <1>3, <2>1, Static DEF Phases, Building, Starting, EntryFace, Enumerated
<1>9. TablesTyped'
  BY <1>1, <1>5, TypesGrow DEF Inv
<1>10. UNCHANGED Installed
  BY <1>1, InstalledKept
<1>11. faces \subseteq faces' /\ \A g \in faces' : g \in faces \/ g.by \in Owners \cup {Ca}
  BY <1>3, <1>4 DEF Face
<1> HIDE DEF o, f
<1> QED
  BY <1>1, <1>5, <1>6, <1>7, <1>8, <1>9, <1>10, <1>11, FacesStep DEF Serving

(* The demo CA's face has an id of its own, which is never handed out.     *)
LEMMA StartDemoCaStep ==
  ASSUME Inv, StartDemoCa
  PROVE  Inv'
<1> DEFINE f == [id |-> CaFaceId, by |-> Ca, tied |-> FALSE]
<1>1. /\ step = "routes" /\ at = Len(Routes) /\ step' = "faces" /\ at' = 0
      /\ UNCHANGED <<config, next_id, prealloc, ids, queue, local_fields, serving, rib, recomputed, pending, tried>>
      /\ \/ fib' = [fib EXCEPT ![CaPrefix] = @ \cup {CaFaceId}] /\ faces' = faces \cup {f}
         \/ UNCHANGED <<fib, faces>>
  BY DEF StartDemoCa, allocation, installs
<1>2. next_id' = next_id + 0 /\ 0 \in Nat /\ step \notin Building /\ step' \notin Building
  BY <1>1, Typed DEF Inv, IdsTyped, Building
<1>3. /\ tried \in [Owners -> Nat] /\ \A o \in Owners : tried[o] = 0
      /\ pending = {} /\ \A g \in faces : g.by # Ca
  BY <1>1, Typed DEF Inv, Phases, Starting, ControlTyped
<1>4. ~Reserved(Ca) /\ Ca \notin Owners /\ CaFaceId \notin HeldIds
  <2>1. Ca \notin Owners /\ Ca \notin EntryFaces
    BY DEF Ca, Owners, EntryFaces, UdpFaces, EtherFaces, AppFaces
  <2>2. ~Reserved(Ca)
    BY <2>1, Typed DEF Inv, IdsTyped, Reserved
  <2>3. \A x \in HeldIds : x \in 1 .. next_id - 1
    BY DEF Inv, Allocation, HeldIds
  <2> QED
    BY <2>1, <2>2, <2>3 DEF CaFaceId
<1>5. f \in FaceType'
  BY <1>2, TypesGrow DEF Inv, FaceType, Ids
<1>6. FacesOK'
  <2>1. CASE UNCHANGED <<fib, faces>>
    BY <1>1, <1>2, <2>1, FacesKept
  <2>2. CASE faces' = faces \cup {f}
    <3>1. \A g \in faces \cup pending : g.id # CaFaceId
      BY <1>3, IdUnused
    <3>2. \A x \in {f} : /\ IF Reserved(x.by) THEN x.id = IdOf(x.by) ELSE x.id \notin HeldIds
                         /\ x.by \in Owners => tried'[x.by] >= 1
                         /\ x.id = CaFaceId => x.by = Ca
                         /\ \A g \in faces \cup pending : g.id # x.id
                         /\ \A g \in {f} : g.id = x.id => g = x
      BY <1>4, <3>1
    <3>3. \A o \in Enumerated : tried'[o] <= 1
      BY <1>1, <1>3 DEF Owners, Enumerated
    <3> HIDE DEF f
    <3>4. faces' \cup pending' \subseteq faces \cup pending \cup {f} /\ \A x \in pending' : x \in pending
      BY <1>1, <2>2
    <3>5. tried' \in [Owners -> Nat] /\ \A o \in Owners : tried'[o] >= tried[o]
      BY <1>1, <1>3
    <3> QED
      BY <1>1, <1>2, <1>3, <3>2, <3>3, <3>4, <3>5, FacesAdded
  <2> QED
    BY <1>1, <2>1, <2>2
<1>7. ControlTyped'
  BY <1>1, Static, Typed DEF Inv, ControlTyped
<1>8. Phases'
  <2>1. 0 <= Len(Entries) /\ \A i \in 0 + 1 .. Len(Entries) : EntryFace(i) \in Owners
    BY ConfigIs, Typed DEF Inv, ControlTyped, EntryFace, Owners, EntryFaces
  <2>2. \A o \in Enumerated : o \in Owners
    BY DEF Enumerated, Owners
  <2>3. DOMAIN ids = EntryFaces
    BY <1>1 DEF Inv, Phases
  <2> QED
    BY <1>1, <1>3, <2>1, <2>2, <2>3, Static DEF Phases, Building, Starting, EntryFace, Enumerated
<1>9. /\ TablesTyped' /\ \A p \in Names : fib[p] \subseteq fib'[p]
      /\ \A p \in Names : \A id \in fib'[p] : id \in fib[p] \/ Leads(id)'
  <2>1. fib \in [Names -> SUBSET Ids] /\ UNCHANGED Ids /\ CaFaceId \in Ids
    BY <1>1, Typed DEF Inv, TablesTyped, Ids
  <2>2. fib' \in [Names -> SUBSET Ids]
    BY <1>1, <2>1
  <2>3. TablesTyped'
    BY <1>1, <2>1, <2>2, Typed DEF Inv, TablesTyped
  <2>4. \A p \in Names : fib[p] \subseteq fib'[p] /\ \A id \in fib'[p] : id \in fib[p] \/ (id = CaFaceId /\ f \in faces')
    BY <1>1, <2>1
  <2> QED
    BY <2>3, <2>4 DEF Leads
<1>10. UNCHANGED Installed
  BY <1>1, Static DEF Installed
<1>11. faces \subseteq faces' /\ (\A g \in faces' : g \in faces \/ g.by \in Owners \cup {Ca})
       /\ faces' \cup pending' \subseteq faces \cup pending \cup FaceType'
  <2>1. f.by = Ca /\ faces \subseteq faces' /\ faces' \subseteq faces \cup {f} /\ pending' = pending
    BY <1>1
  <2> HIDE DEF f
  <2> QED
    BY <1>5, <2>1
<1> HIDE DEF f
<1> QED
  BY <1>1, <1>2, <1>6, <1>7, <1>8, <1>9, <1>10, <1>11, FacesStep DEF Serving

(* The faces of the interfaces: discovery's under the ids it knows, or,    *)
(* when it knows none, the provisioner's under fresh ones.                 *)
LEMMA AutoFacesStep ==
  ASSUME Inv, AutoFaces
  PROVE  Inv'
<1> DEFINE fresh == Fresh(Provisioned, next_id)
           more == Cardinality(Provisioned)
           K == {Face(prealloc[o], o, TRUE) : o \in Known}
           P == {Face(fresh[o], o, TRUE) : o \in Provisioned}
           F == K \cup P
<1>1. /\ step = "faces" /\ at = Len(Entries) /\ step' = "running" /\ next_id' = next_id + more
      /\ faces \subseteq faces' /\ faces' \subseteq faces \cup K
      /\ pending' \subseteq pending \cup F
      /\ tried' = [o \in Owners |-> tried[o] + (IF o \in Known THEN 1 ELSE 0) + (IF o \in Provisioned THEN 1 ELSE 0)]
      /\ UNCHANGED <<at, config, prealloc, ids, queue, local_fields, serving, rib, fib, recomputed>>
  BY DEF AutoFaces, allocation, installs, tables
<1>2. /\ next_id \in Nat \ {0} /\ tried \in [Owners -> Nat]
      /\ \A o \in Enumerated : tried[o] = 0 /\ o \in Owners /\ o \notin EntryFaces
      /\ DOMAIN ids = EntryFaces
  BY <1>1, Typed DEF Inv, Phases, IdsTyped, ControlTyped, Owners, Enumerated, EntryFaces, UdpFaces, EtherFaces
<1>3. /\ Known \subseteq Enumerated /\ Known \subseteq DOMAIN prealloc
      /\ Provisioned \subseteq Enumerated /\ (Known = {} \/ Provisioned = {})
      /\ \A o \in Provisioned : o \notin DOMAIN prealloc
  BY <1>2 DEF Inv, Allocation, Known, Provisioned, Preallocatable, OfKind, EntryFaces, EntryFace
<1>4. /\ more \in Nat /\ fresh \in [Provisioned -> next_id .. next_id + more - 1]
      /\ \A a, b \in Provisioned : fresh[a] = fresh[b] => a = b
  <2>1. IsFiniteSet(Provisioned)
    BY <1>3, OwnersFinite, FS_Subset, Typed DEF Inv, ControlTyped
  <2> QED
    BY <1>2, <2>1, FreshIs
<1>5. ASSUME NEW o \in Known
      PROVE  /\ Reserved(o) /\ prealloc[o] = IdOf(o) /\ prealloc[o] \in 1 .. next_id - 1
             /\ \A g \in faces \cup pending : g.id # prealloc[o]
  <2>1. Reserved(o) /\ prealloc[o] = IdOf(o) /\ o \in Holders
    BY <1>3 DEF Reserved, IdOf, Holders
  <2>2. tried[o] = 0 /\ o \in Owners
    BY <1>2, <1>3
  <2> QED
    BY <1>1, <2>1, <2>2, IdUnused DEF Inv, Allocation
<1>6. ASSUME NEW o \in Provisioned
      PROVE  /\ ~Reserved(o) /\ fresh[o] \in next_id .. next_id + more - 1 /\ fresh[o] \notin HeldIds
             /\ \A g \in faces \cup pending : g.id # fresh[o]
  <2>1. ~Reserved(o) /\ fresh[o] \in next_id .. next_id + more - 1
    BY <1>2, <1>3, <1>4 DEF Reserved
  <2>2. \A x \in HeldIds : x \in 1 .. next_id - 1
    BY DEF Inv, Allocation, HeldIds
  <2>3. fresh[o] \in Int /\ fresh[o] >= next_id
    BY <1>2, <1>4, <2>1
  <2> HIDE DEF fresh, more
  <2>4. fresh[o] \notin HeldIds
    BY <1>2, <2>2, <2>3
  <2> QED
    BY <2>1, <2>3, <2>4, IdUnused
<1>7. /\ tried' \in [Owners -> Nat] /\ \A o \in Owners : tried'[o] >= tried[o]
      /\ \A o \in Known \cup Provisioned : tried'[o] >= 1
      /\ \A o \in Enumerated : tried'[o] <= 1
  <2>1. \A o \in Owners : tried[o] \in Nat /\ tried'[o] = tried[o] + (IF o \in Known THEN 1 ELSE 0) + (IF o \in Provisioned THEN 1 ELSE 0)
    BY <1>1, <1>2
  <2>2. ASSUME NEW o \in Owners, NEW n \in Nat, n = tried[o]
        PROVE  /\ tried'[o] \in Nat /\ tried'[o] >= tried[o]
               /\ o \in Known \cup Provisioned => tried'[o] >= 1
               /\ n = 0 => tried'[o] <= 1
    BY <1>3, <2>1, <2>2
  <2>3. \A o \in Owners : /\ tried'[o] \in Nat /\ tried'[o] >= tried[o]
                          /\ o \in Known \cup Provisioned => tried'[o] >= 1
                          /\ tried[o] = 0 => tried'[o] <= 1
    BY <2>1, <2>2
  <2>4. tried' = [o \in Owners |-> tried'[o]]
    BY <1>1
  <2>5. tried' \in [Owners -> Nat]
    BY <2>3, <2>4
  <2> QED
    BY <1>2, <1>3, <2>3, <2>5
<1> HIDE DEF fresh, more
<1>8. ASSUME NEW f \in F
      PROVE  /\ IF Reserved(f.by) THEN f.id = IdOf(f.by) ELSE f.id \notin HeldIds
             /\ f.by \in Owners /\ tried'[f.by] >= 1
             /\ f.id \in 1 .. next_id' - 1 /\ f.id # CaFaceId /\ f.tied = TRUE
             /\ \A g \in faces \cup pending : g.id # f.id
  <2>1. CASE f \in K
    <3>1. PICK o \in Known : f = Face(prealloc[o], o, TRUE)
      BY <2>1
    <3>2. f.by = o /\ f.id = prealloc[o] /\ f.tied = TRUE
      BY <3>1 DEF Face
    <3>3. prealloc[o] \in 1 .. next_id' - 1 /\ prealloc[o] # CaFaceId
      BY <1>1, <1>2, <1>4, <1>5 DEF CaFaceId
    <3>4. o \in Owners /\ tried'[o] >= 1
      BY <1>2, <1>3, <1>7
    <3> QED
      BY <1>5, <3>2, <3>3, <3>4
  <2>2. CASE f \in P
    <3>1. PICK o \in Provisioned : f = Face(fresh[o], o, TRUE)
      BY <2>2
    <3>2. f.by = o /\ f.id = fresh[o] /\ f.tied = TRUE
      BY <3>1 DEF Face
    <3>3. fresh[o] \in 1 .. next_id' - 1 /\ fresh[o] # CaFaceId
      BY <1>1, <1>2, <1>4, <1>6 DEF CaFaceId
    <3>4. o \in Owners /\ tried'[o] >= 1
      BY <1>2, <1>3, <1>7
    <3> QED
      BY <1>6, <3>2, <3>3, <3>4
  <2> QED
    BY <2>1, <2>2
<1>9. \A f, g \in F : f.id = g.id => f = g
  <2>1. \A a, b \in Known : prealloc[a] = prealloc[b] => a = b
    BY <1>3, <1>5 DEF Inv, Allocation, Holders
  <2>2. ASSUME NEW f \in K, NEW g \in K, f.id = g.id
        PROVE  f = g
    <3>1. PICK a \in Known, b \in Known : f = Face(prealloc[a], a, TRUE) /\ g = Face(prealloc[b], b, TRUE)
      BY Zenon
    <3>2. f.id = prealloc[a] /\ g.id = prealloc[b]
      BY <3>1 DEF Face
    <3> QED
      BY <2>1, <2>2, <3>1, <3>2
  <2>3. ASSUME NEW f \in P, NEW g \in P, f.id = g.id
        PROVE  f = g
    <3>1. PICK a \in Provisioned, b \in Provisioned : f = Face(fresh[a], a, TRUE) /\ g = Face(fresh[b], b, TRUE)
      BY Zenon
    <3>2. f.id = fresh[a] /\ g.id = fresh[b]
      BY <3>1 DEF Face
    <3> QED
      BY <1>4, <2>3, <3>1, <3>2
  <2>4. K = {} \/ P = {}
    BY <1>3
  <2> HIDE DEF K, P
  <2> QED
    BY <2>2, <2>3, <2>4
<1>10. F \subseteq FaceType'
  <2>1. \A f \in F : f = [id |-> f.id, by |-> f.by, tied |-> f.tied]
    BY DEF Face
  <2> HIDE DEF F
  <2>2. \A f \in F : f.id \in Ids' /\ f.by \in Owners' /\ f.tied \in BOOLEAN
    BY <1>1, <1>8, Static DEF Ids
  <2> QED
    BY <2>1, <2>2 DEF FaceType
<1> HIDE DEF F, K, P
<1>11. FacesOK'
  <2>1. faces' \cup pending' \subseteq faces \cup pending \cup F /\ \A f \in pending' : f \in pending \/ f.by \in Owners
    BY <1>1, <1>8 DEF F
  <2>2. \A f \in F : f.id # CaFaceId
    BY <1>8
  <2>3. \A f \in F : /\ IF Reserved(f.by) THEN f.id = IdOf(f.by) ELSE f.id \notin HeldIds
                     /\ f.by \in Owners => tried'[f.by] >= 1
                     /\ f.id = CaFaceId => f.by = Ca
                     /\ \A g \in faces \cup pending : g.id # f.id
                     /\ \A g \in F : g.id = f.id => g = f
    BY <1>8, <1>9, <2>2
  <2>4. more \in Nat /\ next_id' = next_id + more /\ tried \in [Owners -> Nat]
    BY <1>1, <1>2, <1>4
  <2>5. UNCHANGED <<config, prealloc, ids>>
    BY <1>1
  <2> QED
    BY <1>7, <2>1, <2>3, <2>4, <2>5, FacesAdded
<1>12. ControlTyped'
  BY <1>1, <1>7, Static, Typed DEF Inv, ControlTyped
<1>13. Phases'
  BY <1>1, <1>2, Static DEF Phases, Building, Starting
<1>14. TablesTyped'
  BY <1>1, <1>4, TypesGrow DEF Inv
<1>15. UNCHANGED Installed
  BY <1>1, InstalledKept
<1>16. /\ faces' \cup pending' \subseteq faces \cup pending \cup FaceType'
       /\ \A f \in faces' : f \in faces \/ f.by \in Owners \cup {Ca}
  BY <1>1, <1>8, <1>10 DEF F
<1>17. step \notin Building /\ step' \notin Building /\ step \in Serving
  BY <1>1 DEF Building, Serving
<1> QED
  BY <1>1, <1>4, <1>11, <1>12, <1>13, <1>14, <1>15, <1>16, <1>17, FacesStep

-----------------------------------------------------------------------------
(* The start, and the ids handed out before there is a face.               *)

LEMMA InitInv == Init => Inv
<1> SUFFICES ASSUME Init PROVE Inv
  OBVIOUS
<1>1. /\ config \in Configs /\ step = "alloc" /\ at = 0 /\ next_id = 1 /\ prealloc = <<>> /\ ids = <<>>
      /\ rib = {} /\ fib = [p \in Names |-> {}] /\ recomputed = {} /\ queue = {} /\ local_fields = {}
      /\ serving = {} /\ pending = {} /\ faces = {} /\ tried = [o \in Owners |-> 0]
  BY DEF Init
<1>2. DOMAIN prealloc = {} /\ DOMAIN ids = {}
  BY <1>1
<1>3. TypeOK
  <2>1. ControlTyped
    BY <1>1 DEF ControlTyped, Starting, Building
  <2>2. IdsTyped
    BY <1>1, <1>2 DEF IdsTyped
  <2>3. TablesTyped /\ InstallsTyped /\ FacesTyped
    BY <1>1 DEF TablesTyped, InstallsTyped, FacesTyped
  <2> QED
    BY <2>1, <2>2, <2>3, Typed
<1>4. Allocation
  BY <1>2 DEF Allocation, Holders
<1>5. Phases
  BY <1>1 DEF Phases, Building, Starting
<1>6. FacesOK
  BY <1>1 DEF FacesOK, FaceIdsUnique, InterfacesOnce, Owners
<1>7. RoutesOK
  BY <1>1 DEF RoutesOK, HasEntry, Building
<1>8. Wiring
  BY <1>1 DEF Wiring
<1> QED
  BY <1>3, <1>4, <1>5, <1>6, <1>7, <1>8 DEF Inv

(* Until there are faces, what is handed out has to be right.              *)
LEMMA Handed ==
  ASSUME Inv, step \in {"alloc", "index"}, step' \in {"index", "nlsr"},
         UNCHANGED <<config, at, queue, local_fields, serving, rib, fib, recomputed, pending, faces, tried>>,
         step' = "index" => UNCHANGED ids, step' = "nlsr" => DOMAIN ids' = EntryFaces,
         NEW more \in Nat, next_id' = next_id + more, IdsTyped', Allocation'
  PROVE  Inv'
<1>1. /\ step \in Building /\ step' \in Building /\ step \in Starting /\ step' \in Starting
      /\ step' # "alloc" /\ step' \notin {"dv", "apply", "routes", "faces", "running"}
  BY DEF Building, Starting
<1>2. /\ faces = {} /\ queue = {} /\ local_fields = {} /\ rib = {} /\ fib = [p \in Names |-> {}]
      /\ recomputed = {} /\ at = 0 /\ serving = {} /\ pending = {} /\ tried = [o \in Owners |-> 0] /\ ids = <<>>
  BY <1>1 DEF Inv, Phases
<1>3. TypeOK'
  <2>1. ControlTyped'
    BY <1>1, Static, Typed DEF Inv, ControlTyped
  <2>2. TablesTyped' /\ InstallsTyped' /\ FacesTyped'
    BY <1>2 DEF TablesTyped, InstallsTyped, FacesTyped
  <2> QED
    BY <2>1, <2>2, TypedNext
<1>4. Phases'
  BY <1>1, <1>2, Static DEF Phases, Starting
<1>5. FacesOK'
  BY <1>2 DEF Inv, FacesOK, FaceIdsUnique, InterfacesOnce
<1>6. RoutesOK'
  BY <1>1, <1>2 DEF RoutesOK, HasEntry
<1>7. Wiring'
  BY <1>1 DEF Wiring
<1> QED
  BY <1>3, <1>4, <1>5, <1>6, <1>7 DEF Inv

LEMMA PreAllocateStep == Inv /\ PreAllocate => Inv'
<1> SUFFICES ASSUME Inv, PreAllocate PROVE Inv'
  OBVIOUS
<1> DEFINE known == (IF UseUdp THEN OfKind("multicast") \cup UdpFaces ELSE {})
                       \cup (IF UseEther THEN OfKind("etherMulticast") \cup EtherFaces ELSE {})
           more == Cardinality(known)
<1>1. /\ step = "alloc" /\ step' = "index" /\ next_id' = next_id + more /\ prealloc' = Fresh(known, next_id)
      /\ UNCHANGED <<config, at, ids, queue, local_fields, serving, rib, fib, recomputed, pending, faces, tried>>
  BY Zenon DEF PreAllocate, installs, tables
<1>2. known \subseteq Preallocatable
  BY DEF Preallocatable, Enumerated
<1>3. IsFiniteSet(known)
  BY <1>2, OwnersFinite, FS_Subset, Typed DEF Inv, ControlTyped
<1> HIDE DEF known
<1>4. next_id \in Nat \ {0} /\ DOMAIN ids = {}
  BY <1>1, Typed DEF Inv, IdsTyped, Phases
<1>5. /\ more \in Nat /\ prealloc' \in [known -> next_id .. next_id + more - 1]
      /\ \A a, b \in known : prealloc'[a] = prealloc'[b] => a = b
  BY <1>1, <1>3, <1>4, FreshIs
<1> HIDE DEF more
<1>6. DOMAIN prealloc' = known /\ \A o \in known : prealloc'[o] \in 1 .. next_id' - 1
  BY <1>1, <1>4, <1>5
<1>7. IdsTyped'
  <2>1. Preallocatable \subseteq Owners
    BY DEF Preallocatable, Owners, OfKind, EntryFaces, EntryFace, Enumerated
  <2>2. next_id' \in Nat \ {0}
    BY <1>1, <1>4, <1>5
  <2>3. prealloc' \in [DOMAIN prealloc' -> Ids']
    BY <1>5, <1>6 DEF Ids
  <2> QED
    BY <1>1, <1>2, <1>4, <1>6, <2>1, <2>2, <2>3, Static DEF IdsTyped
<1>8. Allocation'
  <2>1. Holders' = known /\ DOMAIN ids' = {} /\ \A o \in known : IdOf(o)' = prealloc'[o]
    BY <1>1, <1>4, <1>6 DEF Holders, IdOf
  <2> QED
    BY <1>1, <1>2, <1>5, <1>6, <2>1, Static DEF Allocation
<1> QED
  BY <1>1, <1>5, <1>7, <1>8, Handed

LEMMA ByIndexStep == Inv /\ ByIndex => Inv'
<1> SUFFICES ASSUME Inv, ByIndex PROVE Inv'
  OBVIOUS
<1> DEFINE unknown == EntryFaces \ DOMAIN prealloc
           fresh == Fresh(unknown, next_id)
           more == Cardinality(unknown)
<1>1. /\ step = "index" /\ step' = "nlsr" /\ next_id' = next_id + more
      /\ ids' = [o \in EntryFaces |-> IF o \in unknown THEN fresh[o] ELSE prealloc[o]]
      /\ UNCHANGED <<config, at, prealloc, queue, local_fields, serving, rib, fib, recomputed, pending, faces, tried>>
  BY Zenon DEF ByIndex, installs, tables
<1>2. next_id \in Nat \ {0}
  BY Typed DEF Inv, IdsTyped
<1>3. /\ more \in Nat /\ fresh \in [unknown -> next_id .. next_id + more - 1]
      /\ \A a, b \in unknown : fresh[a] = fresh[b] => a = b
  <2>1. IsFiniteSet(unknown)
    BY OwnersFinite, FS_Subset, Typed DEF Inv, ControlTyped
  <2> HIDE DEF unknown
  <2> QED
    BY <1>2, <2>1, FreshIs
<1> HIDE DEF fresh, more
<1>4. /\ \A o \in DOMAIN prealloc : prealloc[o] \in 1 .. next_id - 1
      /\ \A a, b \in DOMAIN prealloc : prealloc[a] = prealloc[b] => a = b
  BY DEF Inv, Allocation, Holders, IdOf
<1>5. /\ DOMAIN ids' = EntryFaces
      /\ Holders' = unknown \cup DOMAIN prealloc
      /\ \A o \in unknown : ids'[o] = fresh[o] /\ IdOf(o)' = fresh[o]
      /\ \A o \in DOMAIN prealloc : IdOf(o)' = prealloc[o]
      /\ \A o \in DOMAIN ids' : ids'[o] = IdOf(o)'
  BY <1>1 DEF Holders, IdOf
<1>6. \A o \in Holders' : IdOf(o)' \in 1 .. next_id' - 1
  <2>1. \A o \in unknown : fresh[o] \in 1 .. next_id' - 1
    BY <1>1, <1>2, <1>3
  <2>2. \A o \in DOMAIN prealloc : prealloc[o] \in 1 .. next_id' - 1
    BY <1>1, <1>2, <1>3, <1>4
  <2> QED
    BY <1>5, <2>1, <2>2
<1>7. IdsTyped'
  <2>1. next_id' \in Nat \ {0}
    BY <1>1, <1>2, <1>3
  <2>2. Ids \subseteq Ids'
    BY <1>1, <1>3, TypesGrow DEF Inv
  <2>3. \A o \in EntryFaces : ids'[o] \in Ids'
    BY <1>5, <1>6 DEF Ids, Holders
  <2>4. ids' \in [EntryFaces -> Ids']
    BY <1>1, <2>3
  <2> QED
    BY <1>1, <1>5, <2>1, <2>2, <2>4, Static, Typed DEF Inv, IdsTyped
<1>8. Allocation'
  <2>1. ASSUME NEW a \in Holders', NEW b \in Holders', IdOf(a)' = IdOf(b)'
        PROVE  a = b
    <3>1. \A o \in unknown : fresh[o] \in Int /\ fresh[o] >= next_id
      BY <1>2, <1>3
    <3>2. \A o \in DOMAIN prealloc : prealloc[o] \in Int /\ prealloc[o] < next_id
      BY <1>2, <1>4
    <3>3. CASE a \in unknown /\ b \in unknown
      BY <1>3, <1>5, <2>1, <3>3
    <3>4. CASE a \in DOMAIN prealloc /\ b \in DOMAIN prealloc
      BY <1>4, <1>5, <2>1, <3>4
    <3>5. CASE (a \in unknown /\ b \in DOMAIN prealloc) \/ (b \in unknown /\ a \in DOMAIN prealloc)
      BY <1>2, <1>5, <2>1, <3>1, <3>2, <3>5
    <3> QED
      BY <1>5, <3>3, <3>4, <3>5
  <2> QED
    BY <1>1, <1>5, <1>6, <2>1, Static DEF Inv, Allocation
<1> QED
  BY <1>1, <1>3, <1>5, <1>7, <1>8, Handed

-----------------------------------------------------------------------------
(* The routing protocols.                                                  *)

LEMMA RoutingOwnersAre ==
  ASSUME Inv, NEW o \in RoutingOwners
  PROVE  o \notin Owners /\ o # Ca /\ ~Reserved(o)
<1>1. DOMAIN Neighbours \subseteq {"nlsr", "dv"}
  BY ConfigIs, Typed DEF Inv, ControlTyped
<1>2. o[1] \in {"nlsr", "dv", "hello", "producer", "consumer", "fetch", "produce"}
  <2>1. \A x : \A w \in Peers(x) : w[1] = x
    BY DEF Peers
  <2>2. \A w \in Producers : w[1] = "producer"
    BY DEF Producers
  <2> DEFINE Own(x) == Peers(x) \cup {<<"hello", w>> : w \in Peers(x)}
  <2>3. CASE o \in UNION {Own(x) : x \in DOMAIN Neighbours}
    <3>1. PICK x \in DOMAIN Neighbours : o \in Own(x)
      BY <2>3
    <3>2. o \in Peers(x) \/ \E w \in Peers(x) : o = <<"hello", w>>
      BY <3>1
    <3>3. CASE o \in Peers(x)
      BY <1>1, <2>1, <3>3
    <3>4. CASE \E w \in Peers(x) : o = <<"hello", w>>
      BY <3>4
    <3> QED
      BY <3>2, <3>3, <3>4
  <2>4. CASE o \in Producers \cup {<<"consumer", "sync, lsa">>, <<"fetch", "dv">>, <<"produce", "dv">>}
    <3>1. CASE o \in Producers
      BY <2>2, <3>1
    <3>2. CASE o = <<"consumer", "sync, lsa">>
      BY <3>2
    <3>3. CASE o = <<"fetch", "dv">>
      BY <3>3
    <3>4. CASE o = <<"produce", "dv">>
      BY <3>4
    <3> QED
      BY <2>4, <3>1, <3>2, <3>3, <3>4
  <2>5. o \in UNION {Own(x) : x \in DOMAIN Neighbours}
           \/ o \in Producers \cup {<<"consumer", "sync, lsa">>, <<"fetch", "dv">>, <<"produce", "dv">>}
    BY DEF RoutingOwners
  <2> QED
    BY <2>3, <2>4, <2>5
<1>3. o \notin Owners /\ o # Ca
  BY <1>2 DEF Owners, EntryFaces, UdpFaces, EtherFaces, AppFaces, Ca
<1> QED
  BY <1>3, Typed DEF Inv, IdsTyped, Reserved, Owners

(* The owners get fresh ids, all different; some of them get a face.       *)
FreshId(owners) == Fresh(owners, next_id)
WiredFor(owners, used) == {Wired(FreshId(owners)[o], o) : o \in used}

LEMMA WiredFaces ==
  ASSUME Inv, NEW owners, IsFiniteSet(owners), NEW used \in SUBSET owners
  PROVE  /\ Cardinality(owners) \in Nat
         /\ \A o \in owners : FreshId(owners)[o] \in next_id .. next_id + Cardinality(owners) - 1
         /\ \A f \in WiredFor(owners, used) :
               f = Wired(f.id, f.by) /\ f.by \in used /\ f.id = FreshId(owners)[f.by]
         /\ \A o \in used : \E f \in WiredFor(owners, used) : f.by = o /\ f.id = FreshId(owners)[o]
         /\ \A f, g \in WiredFor(owners, used) : f.id = g.id => f = g
<1> DEFINE id == FreshId(owners)
           more == Cardinality(owners)
           F == {Wired(id[o], o) : o \in used}
<1>1. /\ more \in Nat /\ id \in [owners -> next_id .. next_id + more - 1]
      /\ \A a, b \in owners : id[a] = id[b] => a = b
  BY FreshIs, Typed DEF Inv, IdsTyped, FreshId
<1> HIDE DEF id, more
<1>2. \A o \in owners : id[o] \in next_id .. next_id + more - 1
  BY <1>1
<1>3. \A f \in F : f = Wired(f.id, f.by) /\ f.by \in used /\ f.id = id[f.by]
  BY DEF Wired
<1>4. ASSUME NEW o \in used
      PROVE  \E f \in F : f.by = o /\ f.id = id[o]
  <2>1. Wired(id[o], o) \in F /\ Wired(id[o], o).by = o /\ Wired(id[o], o).id = id[o]
    BY DEF Wired
  <2> QED
    BY <2>1
<1>5. ASSUME NEW f \in F, NEW g \in F, f.id = g.id
      PROVE  f = g
  <2>1. f.by = g.by
    BY <1>1, <1>3, <1>5
  <2> QED
    BY <1>3, <1>5, <2>1
<1> QED
  BY <1>1, <1>2, <1>3, <1>4, <1>5 DEF id, more, WiredFor

LEMMA WiredTyped ==
  ASSUME NEW id \in Ids', NEW o \in RoutingOwners'
  PROVE  Wired(id, o) \in FaceType'
BY DEF Wired, FaceType

(* What is left to show of a protocol's installation is the wiring.        *)
LEMMA InstallStep ==
  ASSUME Inv, step \in {"nlsr", "dv"}, step' \in {"dv", "apply"},
         UNCHANGED <<config, at, prealloc, ids, serving, rib, fib, recomputed, pending, tried>>,
         NEW more \in Nat, next_id' = next_id + more,
         NEW F, faces' = faces \cup F,
         \A f \in F : f = Wired(f.id, f.by) /\ f.by \in RoutingOwners
                      /\ f.id \in next_id .. next_id + more - 1,
         \A f, g \in F : f.id = g.id => f = g,
         \A q \in queue' : q \in queue \/ \E p \in Names : \E f \in F : q = Queued(p, f.id),
         \A id \in local_fields' : id \in local_fields \/ \E f \in F : f.id = id,
         Wiring'
  PROVE  Inv'
<1>1. /\ step \in Building /\ step' \in Building /\ step' \notin {"alloc", "index", "nlsr"}
      /\ step \in Starting /\ step' \in Starting /\ step' # "faces" /\ step' # "routes"
  BY DEF Building, Starting
<1>2. /\ rib = {} /\ fib = [p \in Names |-> {}] /\ recomputed = {} /\ at = 0 /\ serving = {} /\ pending = {}
      /\ tried = [o \in Owners |-> 0] /\ DOMAIN ids = EntryFaces /\ \A f \in faces : f.by # Ca
  BY <1>1 DEF Inv, Phases
<1>3. next_id \in Nat \ {0} /\ tried \in [Owners -> Nat]
  BY Typed DEF Inv, IdsTyped, ControlTyped
<1>4. ASSUME NEW f \in F
      PROVE  /\ f.id \in Ids' /\ f.id \in Int /\ f.id >= next_id /\ f.id # CaFaceId
             /\ f.by \notin Owners /\ f.by # Ca /\ ~Reserved(f.by)
  BY <1>3, RoutingOwnersAre DEF Ids, CaFaceId
<1>5. ControlTyped' /\ IdsTyped' /\ TablesTyped'
  <2>1. ControlTyped'
    BY <1>1, Static, Typed DEF Inv, ControlTyped
  <2> QED
    BY <2>1, TypesGrow DEF Inv
<1>6. FacesTyped'
  <2>1. \A f \in F : f.id \in Ids' /\ f.by \in RoutingOwners'
    BY <1>4, Static
  <2>2. \A f \in F : f \in FaceType'
    BY <2>1, WiredTyped
  <2> QED
    BY <2>2, TypesGrow DEF Inv
<1>7. InstallsTyped'
  <2>1. Ids \subseteq Ids'
    BY TypesGrow DEF Inv
  <2>2. \A q \in queue' : q \in [prefix : Names, face : Ids']
    BY <1>4, <2>1, Typed DEF Inv, InstallsTyped, Queued
  <2>3. \A id \in local_fields' : id \in Ids'
    BY <1>4, <2>1, Typed DEF Inv, InstallsTyped
  <2> QED
    BY <2>2, <2>3, Typed DEF Inv, InstallsTyped
<1>8. Allocation'
  BY AllocationKept
<1>9. Phases'
  BY <1>1, <1>2, <1>4, Static DEF Phases
<1>10. FacesOK'
  <2>1. \A x \in HeldIds : x \in 1 .. next_id - 1
    BY DEF Inv, Allocation, HeldIds
  <2>2. ASSUME NEW f \in F
        PROVE  f.id \notin HeldIds /\ \A g \in faces \cup pending : g.id # f.id
    <3>1. f.id \notin HeldIds
      BY <1>3, <1>4, <2>1
    <3> QED
      BY <1>4, <3>1, IdUnused
  <2>3. \A o \in Enumerated : tried'[o] <= 1
    BY <1>2 DEF Enumerated, Owners
  <2>4. tried' \in [Owners -> Nat] /\ \A o \in Owners : tried'[o] >= tried[o]
    BY <1>3
  <2>5. faces' \cup pending' \subseteq faces \cup pending \cup F /\ \A f \in pending' : f \in pending
    OBVIOUS
  <2>6. \A f \in F : /\ IF Reserved(f.by) THEN f.id = IdOf(f.by) ELSE f.id \notin HeldIds
                     /\ f.by \in Owners => tried'[f.by] >= 1
                     /\ f.id = CaFaceId => f.by = Ca
                     /\ \A g \in faces \cup pending : g.id # f.id
                     /\ \A g \in F : g.id = f.id => g = f
    BY <1>4, <2>2
  <2> QED
    BY <1>3, <2>3, <2>4, <2>5, <2>6, FacesAdded
<1>11. RoutesOK'
  BY <1>1, <1>2 DEF RoutesOK, HasEntry
<1> QED
  BY <1>5, <1>6, <1>7, <1>8, <1>9, <1>10, <1>11, TypedNext DEF Inv

(* NLSR: a hello consumer's neighbour has a face, and a producer's prefix  *)
(* is queued.                                                              *)
LEMMA InstallNlsrStep == Inv /\ InstallNlsr => Inv'
<1> SUFFICES ASSUME Inv, InstallNlsr PROVE Inv'
  OBVIOUS
<1>1. /\ step = "nlsr" /\ step' = "dv"
      /\ UNCHANGED <<config, at, prealloc, ids, serving, rib, fib, recomputed, pending, tried>>
  BY DEF InstallNlsr, tables
<1>2. /\ faces = {} /\ queue = {} /\ local_fields = {} /\ rib' = {} /\ \A p \in Names : fib'[p] = {}
  BY <1>1 DEF Inv, Phases, Building
<1>3. CASE ~Enabled("nlsr")
  <2>1. UNCHANGED <<next_id, faces, queue, local_fields>>
    BY <1>3 DEF InstallNlsr, Disabled
  <2>2. Wiring'
    BY <1>1, <1>2, <2>1 DEF Wiring
  <2>3. next_id' = next_id + 0 /\ 0 \in Nat
    BY <2>1, Typed DEF Inv, IdsTyped
  <2> DEFINE F == {}
  <2>4. /\ faces' = faces \cup F /\ queue' = queue /\ local_fields' = local_fields
        /\ \A f \in F : f = Wired(f.id, f.by) /\ f.by \in RoutingOwners /\ f.id \in next_id .. next_id + 0 - 1
        /\ \A f, g \in F : f.id = g.id => f = g
    BY <2>1
  <2> HIDE DEF F
  <2> QED
    BY <1>1, <2>2, <2>3, <2>4, InstallStep
<1>4. CASE Enabled("nlsr")
  <2>1. PICK bound \in SUBSET Peers("nlsr") :
            LET consumers == Consumers(Kept("nlsr", bound))
                owners == Peers("nlsr") \cup consumers \cup Producers
                id == Fresh(owners, next_id)
            IN  /\ next_id' = next_id + Cardinality(owners)
                /\ faces' = {Wired(id[o], o) : o \in bound \cup consumers \cup Producers}
                /\ local_fields' = {id[o] : o \in consumers}
                /\ queue' = {Queued(Produced[o[2]], id[o]) : o \in Producers}
    BY <1>4, Zenon DEF InstallNlsr
  <2> DEFINE consumers == Consumers(Kept("nlsr", bound))
             owners == Peers("nlsr") \cup consumers \cup Producers
             used == bound \cup consumers \cup Producers
             id == FreshId(owners)
             more == Cardinality(owners)
             F == WiredFor(owners, used)
  <2>2. /\ next_id' = next_id + more /\ faces' = F /\ local_fields' = {id[o] : o \in consumers}
        /\ queue' = {Queued(Produced[o[2]], id[o]) : o \in Producers}
    BY <2>1, Zenon DEF WiredFor, FreshId
  <2>3. /\ \A o \in Peers("nlsr") : o[1] = "nlsr"
        /\ \A o \in consumers : o[1] \in {"hello", "consumer"} /\ (o[1] = "hello" => o[2] \in bound)
        /\ \A o \in Producers : o[1] = "producer" /\ o[2] \in DOMAIN Produced /\ Produced[o[2]] \in Names
    <3>1. \A o \in Peers("nlsr") : o[1] = "nlsr"
      BY DEF Peers
    <3>2. \A o \in consumers : o[1] \in {"hello", "consumer"} /\ (o[1] = "hello" => o[2] \in bound)
      <4>1. \A o \in consumers : o = <<"consumer", "sync, lsa">> \/ \E w \in bound : o = <<"hello", w>>
        BY DEF Consumers, Kept
      <4> HIDE DEF consumers
      <4>2. \A w : <<"hello", w>>[1] = "hello" /\ <<"hello", w>>[2] = w
        OBVIOUS
      <4>3. <<"consumer", "sync, lsa">>[1] = "consumer"
        OBVIOUS
      <4> QED
        BY <4>1, <4>2, <4>3
    <3>3. \A o \in Producers : o[1] = "producer" /\ o[2] \in DOMAIN Produced
      BY DEF Producers
    <3>4. \A d \in DOMAIN Produced : Produced[d] \in Names
      BY ConfigAssumption DEF ConfigAssumption
    <3> QED
      BY <3>1, <3>2, <3>3, <3>4
  <2>4. used \subseteq owners /\ owners \subseteq RoutingOwners
    <3>1. Peers("nlsr") \subseteq RoutingOwners /\ {<<"hello", o>> : o \in Peers("nlsr")} \subseteq RoutingOwners
      <4> DEFINE Own(x) == Peers(x) \cup {<<"hello", o>> : o \in Peers(x)}
      <4>1. Own("nlsr") \subseteq UNION {Own(x) : x \in DOMAIN Neighbours}
        BY <1>4, Zenon DEF Enabled
      <4>2. UNION {Own(x) : x \in DOMAIN Neighbours} \subseteq RoutingOwners
        BY DEF RoutingOwners
      <4> QED
        BY <4>1, <4>2
    <3>2. consumers \subseteq {<<"hello", o>> : o \in Peers("nlsr")} \cup {<<"consumer", "sync, lsa">>}
      BY DEF Consumers, Kept
    <3>3. Producers \subseteq RoutingOwners /\ <<"consumer", "sync, lsa">> \in RoutingOwners
      BY DEF RoutingOwners
    <3> QED
      BY <3>1, <3>2, <3>3
  <2>5. IsFiniteSet(owners)
    <3>1. IsFiniteSet(Peers("nlsr")) /\ IsFiniteSet(Kept("nlsr", bound))
      BY <1>4, OwnersFinite, FS_Subset, Typed DEF Inv, ControlTyped, Enabled, Kept
    <3>2. IsFiniteSet({<<"hello", o>> : o \in Kept("nlsr", bound)})
      BY <3>1, TaggedFinite
    <3>3. IsFiniteSet({<<"consumer", "sync, lsa">>})
      BY FS_Singleton
    <3>4. IsFiniteSet(consumers)
      BY <3>2, <3>3, FS_Union DEF Consumers
    <3>5. IsFiniteSet(DOMAIN Produced)
      <4>1. DOMAIN Produced = ({"hello"} \cup {"sync"}) \cup {"lsa"}
        BY ConfigAssumption DEF ConfigAssumption
      <4>2. IsFiniteSet({"hello"}) /\ IsFiniteSet({"sync"}) /\ IsFiniteSet({"lsa"})
        BY FS_Singleton
      <4>3. IsFiniteSet({"hello"} \cup {"sync"})
        BY <4>2, FS_Union, Zenon
      <4>4. IsFiniteSet(({"hello"} \cup {"sync"}) \cup {"lsa"})
        BY <4>2, <4>3, FS_Union, Zenon
      <4> QED
        BY <4>1, <4>4
    <3>6. IsFiniteSet(Producers)
      BY <3>5, TaggedFinite DEF Producers
    <3> HIDE DEF consumers
    <3> QED
      BY <3>1, <3>4, <3>6, FS_Union
  <2> HIDE DEF consumers
  <2>6. /\ \A o \in bound : o \in used /\ o \in Peers("nlsr")
        /\ \A o \in consumers \cup Producers : o \in used
        /\ \A o \in used : o \in Peers("nlsr") \/ o \in consumers \/ o \in Producers
    OBVIOUS
  <2> HIDE DEF owners, used
  <2>7. /\ more \in Nat
        /\ \A o \in owners : id[o] \in next_id .. next_id + more - 1
        /\ \A f \in F : f = Wired(f.id, f.by) /\ f.by \in used /\ f.id = id[f.by]
        /\ \A o \in used : \E f \in F : f.by = o /\ f.id = id[o]
        /\ \A f, g \in F : f.id = g.id => f = g
    BY <2>4, <2>5, WiredFaces
  <2> HIDE DEF id, more, F
  <2>8. /\ \A q \in queue' : \E f \in F : f.id = q.face /\ \E p \in Names : q = Queued(p, f.id)
        /\ \A x \in local_fields' : \E f \in F : f.id = x /\ f.by[1] \in {"hello", "consumer"}
    <3>1. ASSUME NEW q \in queue'
          PROVE  \E f \in F : f.id = q.face /\ \E p \in Names : q = Queued(p, f.id)
      <4>1. PICK o \in Producers : q = Queued(Produced[o[2]], id[o])
        BY <2>2
      <4>2. PICK f \in F : f.by = o /\ f.id = id[o]
        BY <2>6, <2>7
      <4>3. q.face = f.id
        BY <4>1, <4>2 DEF Queued
      <4> QED
        BY <2>3, <4>1, <4>2, <4>3
    <3>2. ASSUME NEW x \in local_fields'
          PROVE  \E f \in F : f.id = x /\ f.by[1] \in {"hello", "consumer"}
      <4>1. PICK o \in consumers : x = id[o]
        BY <2>2
      <4> QED
        BY <2>3, <2>6, <2>7, <4>1
    <3> QED
      BY <3>1, <3>2
  <2>9. ASSUME NEW f \in F
        PROVE  /\ f.by[1] = "hello" => \E g \in F : g.by = f.by[2]
               /\ f.by[1] = "producer" => f.by[2] \in DOMAIN Produced /\ Queued(Produced[f.by[2]], f.id) \in queue'
               /\ f.by[1] # "dv"
    <3>1. CASE f.by \in Peers("nlsr")
      BY <2>3, <3>1
    <3>2. CASE f.by \in consumers
      BY <2>3, <2>6, <2>7, <3>2
    <3>3. CASE f.by \in Producers
      BY <2>2, <2>3, <2>7, <3>3
    <3> QED
      BY <2>6, <2>7, <3>1, <3>2, <3>3
  <2>10. Wiring'
    <3>1. \A f \in faces' : f.by \notin Peers("dv")'
      BY <2>2, <2>9 DEF Peers
    <3> QED
      BY <1>1, <1>2, <2>2, <2>8, <2>9, <3>1 DEF Wiring
  <2>11. faces' = faces \cup F
    BY <1>2, <2>2
  <2>12. \A q \in queue' : q \in queue \/ \E p \in Names : \E f \in F : q = Queued(p, f.id)
    BY <2>8
  <2>14. \A x \in local_fields' : x \in local_fields \/ \E f \in F : f.id = x
    BY <2>8
  <2>15. more \in Nat /\ next_id' = next_id + more /\ \A f, g \in F : f.id = g.id => f = g
    BY <2>2, <2>7
  <2>13. \A f \in F : f = Wired(f.id, f.by) /\ f.by \in RoutingOwners /\ f.id \in next_id .. next_id + more - 1
    BY <2>4, <2>7
  <2> QED
    BY <1>1, <2>10, <2>11, <2>12, <2>13, <2>14, <2>15, InstallStep
<1> QED
  BY <1>3, <1>4

(* DV: the neighbours that have a socket are queued as next hops of the    *)
(* sync group.                                                             *)
LEMMA InstallDvStep == Inv /\ InstallDv => Inv'
<1> SUFFICES ASSUME Inv, InstallDv PROVE Inv'
  OBVIOUS
<1>1. /\ step = "dv" /\ step' = "apply"
      /\ UNCHANGED <<config, at, prealloc, ids, serving, rib, fib, recomputed, pending, tried>>
  BY DEF InstallDv, tables
<1>2. /\ rib' = {} /\ \A p \in Names : fib'[p] = {}
      /\ \A q \in queue : \E f \in faces : f.id = q.face
      /\ \A x \in local_fields : \E f \in faces : f.id = x /\ f.by[1] \in {"hello", "consumer"}
      /\ \A f \in faces :
            /\ f.by[1] = "hello" => \E g \in faces : g.by = f.by[2]
            /\ f.by[1] = "producer" => f.by[2] \in DOMAIN Produced /\ Queued(Produced[f.by[2]], f.id) \in queue
            /\ Enabled("dv") => f.by \notin Peers("dv")
  BY <1>1 DEF Inv, Phases, Building, Wiring
<1>3. CASE ~Enabled("dv")
  <2>1. UNCHANGED <<next_id, faces, queue, local_fields>>
    BY <1>3 DEF InstallDv, Disabled
  <2>2. ~Enabled("dv")'
    BY <1>1, <1>3, Static
  <2>3. Wiring'
    BY <1>1, <1>2, <2>1, <2>2 DEF Wiring
  <2>4. next_id' = next_id + 0 /\ 0 \in Nat
    BY <2>1, Typed DEF Inv, IdsTyped
  <2> DEFINE F == {}
  <2>5. /\ faces' = faces \cup F /\ queue' = queue /\ local_fields' = local_fields
        /\ \A f \in F : f = Wired(f.id, f.by) /\ f.by \in RoutingOwners /\ f.id \in next_id .. next_id + 0 - 1
        /\ \A f, g \in F : f.id = g.id => f = g
    BY <2>1
  <2> HIDE DEF F
  <2> QED
    BY <1>1, <2>3, <2>4, <2>5, InstallStep
<1>4. CASE Enabled("dv")
  <2>1. PICK bound \in SUBSET Peers("dv") :
            LET own == {<<"fetch", "dv">>, <<"produce", "dv">>}
                id == Fresh(own \cup Peers("dv"), next_id)
            IN  /\ next_id' = next_id + Cardinality(own \cup Peers("dv"))
                /\ faces' = faces \cup {Wired(id[o], o) : o \in own \cup bound}
                /\ queue' = queue \cup {Queued(PfsPrefix, id[o]) : o \in Kept("dv", bound)}
                /\ UNCHANGED local_fields
    BY <1>4, Zenon DEF InstallDv
  <2> DEFINE own == {<<"fetch", "dv">>, <<"produce", "dv">>}
             owners == own \cup Peers("dv")
             used == own \cup bound
             id == FreshId(owners)
             more == Cardinality(owners)
             F == WiredFor(owners, used)
  <2>2. /\ next_id' = next_id + more /\ faces' = faces \cup F /\ local_fields' = local_fields
        /\ queue' = queue \cup {Queued(PfsPrefix, id[o]) : o \in Kept("dv", bound)}
    BY <2>1, Zenon DEF WiredFor, FreshId
  <2>3. used \subseteq owners /\ owners \subseteq RoutingOwners
    <3>1. Peers("dv") \subseteq RoutingOwners
      <4> DEFINE Own(x) == Peers(x) \cup {<<"hello", o>> : o \in Peers(x)}
      <4>1. Own("dv") \subseteq UNION {Own(x) : x \in DOMAIN Neighbours}
        BY <1>4, Zenon DEF Enabled
      <4>2. UNION {Own(x) : x \in DOMAIN Neighbours} \subseteq RoutingOwners
        BY DEF RoutingOwners
      <4> QED
        BY <4>1, <4>2
    <3>2. own \subseteq RoutingOwners
      BY DEF RoutingOwners
    <3> QED
      BY <3>1, <3>2
  <2>4. IsFiniteSet(owners)
    <3>1. IsFiniteSet(Peers("dv"))
      BY <1>4, OwnersFinite, Typed DEF Inv, ControlTyped, Enabled
    <3>2. IsFiniteSet({<<"fetch", "dv">>}) /\ IsFiniteSet({<<"produce", "dv">>})
      BY FS_Singleton
    <3>3. IsFiniteSet({<<"fetch", "dv">>} \cup {<<"produce", "dv">>})
      BY <3>2, FS_Union, Zenon
    <3>4. own = {<<"fetch", "dv">>} \cup {<<"produce", "dv">>}
      OBVIOUS
    <3>5. IsFiniteSet(own)
      BY <3>3, <3>4, Zenon
    <3> HIDE DEF own
    <3> QED
      BY <3>1, <3>5, FS_Union, Zenon
  <2>5. /\ \A o \in own : o[1] \in {"fetch", "produce"}
        /\ \A o \in Peers("dv") : o[1] = "dv"
        /\ \A o \in used : o \in own \/ (o \in Peers("dv") /\ o \in Kept("dv", bound))
        /\ \A o \in Kept("dv", bound) : o \in used
    <3>1. \A o \in own : o[1] \in {"fetch", "produce"}
      OBVIOUS
    <3>2. \A o \in Peers("dv") : o[1] = "dv"
      BY DEF Peers
    <3>3. /\ \A o \in used : o \in own \/ (o \in Peers("dv") /\ o \in Kept("dv", bound))
          /\ \A o \in Kept("dv", bound) : o \in used
      BY DEF Kept
    <3> QED
      BY <3>1, <3>2, <3>3
  <2> HIDE DEF own, owners, used
  <2>6. /\ more \in Nat
        /\ \A o \in owners : id[o] \in next_id .. next_id + more - 1
        /\ \A f \in F : f = Wired(f.id, f.by) /\ f.by \in used /\ f.id = id[f.by]
        /\ \A o \in used : \E f \in F : f.by = o /\ f.id = id[o]
        /\ \A f, g \in F : f.id = g.id => f = g
    BY <2>3, <2>4, WiredFaces
  <2> HIDE DEF id, more, F
  <2>7. ASSUME NEW q \in queue', q \notin queue
        PROVE  \E f \in F : f.id = q.face /\ q = Queued(PfsPrefix, f.id)
    <3>1. PICK o \in Kept("dv", bound) : q = Queued(PfsPrefix, id[o])
      BY <2>2, <2>7
    <3>2. PICK f \in F : f.by = o /\ f.id = id[o]
      BY <2>5, <2>6
    <3>3. q.face = f.id
      BY <3>1, <3>2 DEF Queued
    <3> QED
      BY <3>1, <3>2, <3>3
  <2>8. ASSUME NEW f \in F
        PROVE  /\ f.by[1] \notin {"hello", "producer"}
               /\ f.by \in Peers("dv") => Queued(PfsPrefix, f.id) \in queue'
    <3>1. CASE f.by \in own
      BY <2>5, <3>1
    <3>2. CASE f.by \in Peers("dv") /\ f.by \in Kept("dv", bound)
      BY <2>2, <2>5, <2>6, <3>2
    <3> QED
      BY <2>5, <2>6, <3>1, <3>2
  <2>9. Wiring'
    <3>1. Enabled("dv")' = Enabled("dv") /\ Peers("dv")' = Peers("dv")
      BY <1>1, Static
    <3>2. \A q \in queue' : \E f \in faces' : f.id = q.face
      BY <1>2, <2>2, <2>7
    <3>3. \A x \in local_fields' : \E f \in faces' : f.id = x /\ f.by[1] \in {"hello", "consumer"}
      BY <1>2, <2>2
    <3>4. ASSUME NEW f \in faces'
          PROVE  /\ f.by[1] = "hello" => \E g \in faces' : g.by = f.by[2]
                 /\ f.by[1] = "producer" => f.by[2] \in DOMAIN Produced /\ Queued(Produced[f.by[2]], f.id) \in queue'
                 /\ f.by \in Peers("dv") => Queued(PfsPrefix, f.id) \in queue'
      <4>1. CASE f \in faces
        BY <1>2, <1>4, <2>2, <4>1
      <4>2. CASE f \in F
        BY <2>8, <4>2
      <4> QED
        BY <2>2, <4>1, <4>2
    <3> QED
      BY <1>1, <1>2, <3>1, <3>2, <3>3, <3>4 DEF Wiring
  <2>10. \A q \in queue' : q \in queue \/ \E p \in Names : \E f \in F : q = Queued(p, f.id)
    BY <2>7, ConfigAssumption DEF ConfigAssumption
  <2>11. /\ more \in Nat /\ next_id' = next_id + more /\ \A f, g \in F : f.id = g.id => f = g
         /\ faces' = faces \cup F /\ local_fields' = local_fields
    BY <2>2, <2>6
  <2>12. \A f \in F : f = Wired(f.id, f.by) /\ f.by \in RoutingOwners /\ f.id \in next_id .. next_id + more - 1
    BY <2>3, <2>6
  <2> QED
    BY <1>1, <2>9, <2>10, <2>11, <2>12, InstallStep
<1> QED
  BY <1>3, <1>4

(* The queue enters the FIB, and the producers start.                      *)
LEMMA ApplyPostBuildStep == Inv /\ ApplyPostBuild => Inv'
<1> SUFFICES ASSUME Inv, ApplyPostBuild PROVE Inv'
  OBVIOUS
<1>1. /\ step = "apply" /\ step' = "routes" /\ queue' = {}
      /\ fib' = [p \in Names |-> fib[p] \cup {q.face : q \in {x \in queue : x.prefix = p}}]
      /\ serving' = {f.by[2] : f \in {g \in faces : g.by[1] = "producer"}}
      /\ UNCHANGED <<config, at, next_id, prealloc, ids, local_fields, rib, recomputed, pending, faces, tried>>
  BY DEF ApplyPostBuild
<1>2. /\ rib = {} /\ fib = [p \in Names |-> {}] /\ at = 0 /\ pending = {} /\ tried = [o \in Owners |-> 0]
      /\ DOMAIN ids = EntryFaces /\ \A f \in faces : f.by # Ca
  BY <1>1 DEF Inv, Phases, Building, Starting
<1>3. next_id' = next_id + 0 /\ 0 \in Nat
  BY <1>1, Typed DEF Inv, IdsTyped
<1>4. /\ \A q \in queue : (\E f \in faces : f.id = q.face) /\ q.face \in Ids
      /\ \A f \in faces : f.by[1] = "producer" =>
            f.by[2] \in DOMAIN Produced /\ Queued(Produced[f.by[2]], f.id) \in queue
  BY <1>1, Typed DEF Inv, Wiring, InstallsTyped
<1>5. \A q \in queue : q.prefix \in Names => q.face \in fib'[q.prefix]
  BY <1>1
<1>6. TypeOK'
  <2>1. ControlTyped'
    BY <1>1, Static, Typed DEF Inv, ControlTyped, Starting
  <2>2. TablesTyped'
    <3>1. \A p \in Names : fib'[p] \subseteq Ids
      BY <1>1, <1>2, <1>4
    <3>2. fib' = [p \in Names |-> fib'[p]] /\ UNCHANGED Ids
      BY <1>1 DEF Ids
    <3>3. fib' \in [Names -> SUBSET Ids]
      BY <3>1, <3>2
    <3> QED
      BY <1>1, <3>2, <3>3, Typed DEF Inv, TablesTyped
  <2>3. InstallsTyped'
    <3>1. serving' \subseteq {"hello", "sync", "lsa"}
      BY <1>1, <1>4, ConfigAssumption DEF ConfigAssumption
    <3> QED
      BY <1>1, <3>1, Typed DEF Inv, InstallsTyped, Ids
  <2>4. IdsTyped' /\ FacesTyped'
    BY <1>1, <1>3, TypesGrow DEF Inv
  <2> QED
    BY <2>1, <2>2, <2>3, <2>4, TypedNext
<1>7. Allocation' /\ FacesOK'
  BY <1>1, <1>3, AllocationKept, FacesKept
<1>8. Phases'
  <2>1. 0 <= Len(Routes)
    BY ConfigIs, Typed DEF Inv, ControlTyped
  <2> QED
    BY <1>1, <1>2, <2>1, Static DEF Phases, Building, Starting
<1>9. RoutesOK'
  <2>1. Installed' = {}
    BY <1>1, <1>2 DEF Installed
  <2> QED
    BY <1>1, <1>2, <2>1 DEF RoutesOK, HasEntry
<1>10. Wiring'
  <2>1. \A p \in Names : \A id \in fib'[p] : Leads(id)'
    <3>1. \A p \in Names : \A id \in fib'[p] : \E q \in queue : id = q.face
      BY <1>1, <1>2
    <3> QED
      BY <1>1, <1>4, <3>1 DEF Leads
  <2>2. ASSUME NEW f \in faces', f.by[1] = "producer"
        PROVE  f.by[2] \in DOMAIN Produced /\ f.by[2] \in serving' /\ f.id \in fib'[Produced[f.by[2]]]
    <3>1. f.by[2] \in DOMAIN Produced /\ Queued(Produced[f.by[2]], f.id) \in queue
      BY <1>1, <1>4, <2>2
    <3>2. Produced[f.by[2]] \in Names
      BY <3>1, ConfigAssumption DEF ConfigAssumption
    <3>3. f.by[2] \in serving'
      BY <1>1, <2>2
    <3> QED
      BY <1>5, <3>1, <3>2, <3>3 DEF Queued
  <2>3. ASSUME NEW f \in faces', Enabled("dv"), f.by \in Peers("dv")
        PROVE  f.id \in fib'[PfsPrefix]
    <3>1. Queued(PfsPrefix, f.id) \in queue
      BY <1>1, <2>3 DEF Inv, Wiring
    <3> QED
      BY <1>5, <3>1, ConfigAssumption DEF ConfigAssumption, Queued
  <2>4. /\ \A x \in local_fields' : \E f \in faces' : f.id = x /\ f.by[1] \in {"hello", "consumer"}
        /\ \A f \in faces' : f.by[1] = "hello" => \E g \in faces' : g.by = f.by[2]
    BY <1>1 DEF Inv, Wiring
  <2>5. Enabled("dv")' = Enabled("dv") /\ Peers("dv")' = Peers("dv")
    BY <1>1, Static
  <2>6. step' = "routes" /\ rib' = {} /\ queue' = {}
    BY <1>1, <1>2
  <2> QED
    BY <2>1, <2>2, <2>3, <2>4, <2>5, <2>6 DEF Wiring
<1> QED
  BY <1>6, <1>7, <1>8, <1>9, <1>10 DEF Inv

-----------------------------------------------------------------------------
(* Every step keeps the invariant.                                         *)

LEMMA NextInv == Inv /\ [Next]_vars => Inv'
<1> SUFFICES ASSUME Inv, [Next]_vars PROVE Inv'
  OBVIOUS
<1>1. CASE PreAllocate
  BY <1>1, PreAllocateStep
<1>2. CASE ByIndex
  BY <1>2, ByIndexStep
<1>3. CASE InstallNlsr
  BY <1>3, InstallNlsrStep
<1>4. CASE InstallDv
  BY <1>4, InstallDvStep
<1>5. CASE ApplyPostBuild
  BY <1>5, ApplyPostBuildStep
<1>6. CASE AddRoute
  BY <1>6, AddRouteStep
<1>7. CASE StartDemoCa
  BY <1>7, StartDemoCaStep
<1>8. CASE SetUpEntry \/ SetUpRadio
  BY <1>8, EntrySteps
<1>9. CASE AutoFaces
  BY <1>9, AutoFacesStep
<1>10. CASE \/ \E f \in pending : Create(f)
            \/ Cancel \/ EngineShutdown
            \/ \E f \in faces : FaceEnds(f)
            \/ \E d \in serving : ProducerEnds(d)
  BY <1>10, EndSteps
<1>11. CASE (\E o \in EntryFaces : Accepts(o)) \/ (\E o \in AppFaces : Connects(o))
  BY <1>11, ConnectSteps
<1>12. CASE \E o \in AppFaces : \E p \in Names : Registers(o, p) \/ Unregisters(o, p)
  BY <1>12, AppSteps
<1>13. CASE UNCHANGED vars
  <2>1. /\ UNCHANGED <<step, at, next_id, config, prealloc, ids, queue, local_fields, serving,
                       rib, fib, recomputed, pending, faces, tried>>
    BY <1>13 DEF vars, allocation, installs, tables
  <2>2. next_id' = next_id + 0 /\ 0 \in Nat
    BY <2>1, Typed DEF Inv, IdsTyped
  <2>3. TypeOK'
    BY <2>1, <2>2, Static, TypesGrow, Typed, TypedNext DEF Inv, ControlTyped
  <2>4. Allocation' /\ FacesOK'
    BY <2>1, <2>2, AllocationKept, FacesKept
  <2>5. Phases'
    BY <2>1, Static DEF Inv, Phases, Building, Starting, EntryFace, Enumerated
  <2>6. RoutesOK'
    <3>1. UNCHANGED Installed /\ \A r : InRange(r)' = InRange(r) /\ ConfigRoute(r)' = ConfigRoute(r)
      BY <2>1, InstalledKept, Static DEF ConfigRoute
    <3> QED
      BY <2>1, <3>1 DEF Inv, RoutesOK
  <2>7. Wiring'
    BY <2>1, Static DEF Inv, Wiring, Leads
  <2> QED
    BY <2>3, <2>4, <2>5, <2>6, <2>7 DEF Inv
<1> QED
  BY <1>1, <1>2, <1>3, <1>4, <1>5, <1>6, <1>7, <1>8, <1>9, <1>10, <1>11, <1>12, <1>13 DEF Next

LEMMA Invariance == Spec => []Inv
BY InitInv, NextInv, PTL DEF Spec

LEMMA ConfigRouteIs ==
  ASSUME Inv, step \notin Starting, NEW r \in Installed, InRange(r)
  PROVE  ConfigRoute(r) \in rib /\ r.prefix \in Names
<1>1. ConfigRoute(r) \in rib
  BY DEF Inv, RoutesOK, Starting
<1>2. \A n \in 1 .. Len(Routes) : Routes[n] \in [prefix : Names, face : Nat]
  BY ConfigIs, Typed DEF Inv, ControlTyped
<1>3. PICK n \in 1 .. Len(Routes) : r = Routes[n]
  BY DEF Installed, Starting
<1> QED
  BY <1>1, <1>2, <1>3

-----------------------------------------------------------------------------
(* The forwarder's ids as route table, discovery and face table see them:  *)
(* no two faces share one, whatever order their tasks finish in, a         *)
(* configured face has its entry's, and no interface gets two faces.       *)
THEOREM FaceIdsHold == Spec => []FaceIds
<1>1. Inv => FaceIds
  <2> SUFFICES ASSUME Inv PROVE FaceIds
    OBVIOUS
  <2>1. ASSUME NEW f \in faces \cup pending
        PROVE  /\ f.by \in EntryFaces /\ KindOf(f.by) # "listener" => f.id = ids[f.by]
               /\ f.by \in DOMAIN prealloc => f.id = prealloc[f.by]
    <3>1. IF Reserved(f.by) THEN f.id = IdOf(f.by) ELSE f.id \notin HeldIds
      BY DEF Inv, FacesOK
    <3>2. f.by \in EntryFaces => ids[f.by] = IdOf(f.by)
      <4>1. step \in {"alloc", "index"} => faces \cup pending = {}
        BY DEF Inv, Phases, Starting, Building
      <4> QED
        BY <4>1 DEF Inv, Phases, Allocation
    <3> QED
      BY <3>1, <3>2 DEF Reserved, IdOf
  <2> QED
    BY <2>1 DEF FaceIds, FaceIsWhatItsIdSays, Inv, FacesOK
<1> QED
  BY <1>1, Invariance, PTL

(* A configured route stays in the FIB entry of its prefix, whatever       *)
(* applications register and unregister there.                             *)
THEOREM ConfigRoutesSurviveHolds == Spec => []ConfigRoutesSurvive
<1>1. Inv => ConfigRoutesSurvive
  <2> SUFFICES ASSUME Inv, UpAndRunning, NEW r \in Installed, InRange(r)
               PROVE  ids[EntryFace(r.face)] \in fib[r.prefix]
    BY DEF ConfigRoutesSurvive
  <2>1. ConfigRoute(r) \in rib /\ r.prefix \in Names
    BY ConfigRouteIs DEF UpAndRunning, Starting, Building
  <2>2. HasEntry(rib, r.prefix) /\ ids[EntryFace(r.face)] \in NextHops(rib, r.prefix)
    BY <2>1 DEF HasEntry, NextHops, ConfigRoute
  <2> QED
    BY <2>1, <2>2 DEF Inv, RoutesOK
<1> QED
  BY <1>1, Invariance, PTL

(* A prefix below a configured route's has the route's face among its next *)
(* hops, if it has routes at all: registering it does not hide the route.  *)
THEOREM ChildrenInheritHolds == Spec => []ChildrenInherit
<1>1. Inv => ChildrenInherit
  <2> SUFFICES ASSUME Inv, UpAndRunning, NEW r \in Installed, NEW p \in Names,
                      InRange(r), IsPrefix(r.prefix, p), HasEntry(rib, p)
               PROVE  ids[EntryFace(r.face)] \in fib[p]
    BY DEF ChildrenInherit
  <2>1. ConfigRoute(r) \in rib
    BY ConfigRouteIs DEF UpAndRunning, Starting, Building
  <2>2. ConfigRoute(r).prefix = p \/ Inherited(ConfigRoute(r), p)
    BY DEF ConfigRoute, Inherited, IsStrictPrefix
  <2>3. ids[EntryFace(r.face)] \in NextHops(rib, p)
    BY <2>1, <2>2 DEF NextHops, ConfigRoute
  <2> QED
    BY <2>3 DEF Inv, RoutesOK
<1> QED
  BY <1>1, Invariance, PTL

(* What the routing protocols were given holds while the forwarder runs:   *)
(* no next hop leads nowhere, and producers and neighbours are reached.    *)
THEOREM RoutingIsWiredHolds == Spec => []RoutingIsWired
<1>1. Inv => RoutingIsWired
  <2> SUFFICES ASSUME Inv, step \in {"routes", "faces", "running"}
               PROVE  RoutingIsWired
    BY DEF RoutingIsWired
  <2>1. \A f \in faces : f.id \in local_fields => f.by[1] \in {"hello", "consumer"}
    BY DEF Inv, Wiring, FacesOK, FaceIdsUnique
  <2>2. \A p \in Names : \A id \in fib[p] : id \in {ids[o] : o \in EntryFaces} \/ \E f \in faces : f.id = id
    BY DEF Inv, Wiring, Leads
  <2>3. ASSUME NEW f \in faces
        PROVE  /\ f.by[1] = "hello" => \E g \in faces : g.by = f.by[2]
               /\ f.by[1] = "producer" =>
                     /\ f.by[2] \in serving
                     /\ Produced[f.by[2]] \notin recomputed => f.id \in fib[Produced[f.by[2]]]
               /\ Enabled("dv") /\ f.by \in Peers("dv") /\ PfsPrefix \notin recomputed => f.id \in fib[PfsPrefix]
    BY DEF Inv, Wiring
  <2> QED
    BY <2>1, <2>2, <2>3 DEF RoutingIsWired
<1> QED
  BY <1>1, Invariance, PTL
=============================================================================

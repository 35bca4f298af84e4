---------------------------- MODULE AcmeCertProofs ----------------------------
(***************************************************************************)
(* Proofs about AcmeCert, for any listeners and renewal loops and whatever *)
(* of them run together, any lifetime and threshold, and any number of     *)
(* polls, days, orders and faults.                                         *)
(***************************************************************************)
EXTENDS AcmeCert, FiniteSetTheorems, TLAPS

TaskType ==
  [pc : Labels, seen : {None, Torn} \cup Orders, order : {None} \cup Orders,
   polls : 0 .. MaxPolls, found : {None} \cup Orders, placed : BOOLEAN, since : 0 .. MaxDay]
ServedType == [cert : {None} \cup Orders, key : {None, Torn} \cup Orders]
RecordType == [id : Orders, value : Orders]
States == {"pending", "ready", "invalid"}
SeqsOK ==
  /\ records \in Seq(RecordType)
  /\ status \in Seq(States) /\ issued \in Seq(0 .. MaxDay) /\ Len(issued) = Len(status)

(* Where an actor has an order, and where that order is finished.          *)
Ordering == {"find", "upsert", "ready", "poll"}
Finished == {"cleanup", "delete", "store", "writeCert", "storeKey", "writeKey", "stored"}

(* A certificate in the cache, or read from it, is that of an order that   *)
(* was ready; no day passes between its issue and the end of the call.     *)
Certified(c) == c \in Orders => status[c] = "ready"
TaskOK(r) ==
  /\ r.pc \in Ordering \cup Finished => r.order \in Orders
  /\ Certified(r.seen)
  /\ r.pc \in Finished => status[r.order] = "ready" /\ issued[r.order] = day
CertsOK == Certified(certFile) /\ \A n \in Orders : issued[n] <= day
TasksOK == \A a \in Actors : TaskOK(task[a])
Fresh(c, since) ==
  c \in Orders /\ status[c] = "ready" /\ issued[c] + Lifetime - since > Threshold
ServedOK == \A a \in Resolvers : task[a].pc = "serving" => Fresh(served[a].cert, task[a].since)

(* An actor about to POST found no record, or misread the answer: there is  *)
(* room for its own.                                                       *)
Posting == {a \in Actors : task[a].pc = "upsert" /\ task[a].found = None}
Room == Len(records) + Cardinality(Posting) <= Cardinality(Running) + misread

(* An actor that runs alone has published what its pending order asks for. *)
Awaits(r) == r.pc \in {"ready", "poll"} /\ status[r.order] = "pending"
Published(n) == \E i \in DOMAIN records : records[i].value = n
Alone ==
  \A a \in Running : Running = {a} =>
     /\ \A n \in Orders : status[n] # "invalid"
     /\ Awaits(task[a]) => Published(task[a].order)

Inv == TypeOK /\ SeqsOK /\ CertsOK /\ TasksOK /\ ServedOK /\ Room /\ Alone

LEMMA Constants ==
  /\ MaxDay \in Nat /\ MaxFaults \in Nat /\ MaxOrders \in Nat /\ MaxPolls \in Nat
  /\ Lifetime \in Nat /\ Threshold \in Nat /\ Threshold < Lifetime
  /\ IsFiniteSet(Actors) /\ Resolvers \subseteq Actors /\ Resolvers \cap Renewers = {}
BY AcmeAssumption DEF AcmeAssumption, Actors

LEMMA SeqIs ==
  ASSUME NEW S, NEW s \in Seq(S)
  PROVE  s \in [1 .. Len(s) -> S]
OBVIOUS

LEMMA OrdersAre ==
  ASSUME SeqsOK
  PROVE  /\ Len(status) \in Nat /\ Orders = 1 .. Len(status) /\ Orders \subseteq Nat
         /\ None \notin Orders /\ Torn \notin Orders
         /\ Len(records) \in Nat /\ DOMAIN records = 1 .. Len(records)
         /\ DOMAIN issued = Orders
BY DEF SeqsOK, Orders, None, Torn

LEMMA OrdersNext ==
  ASSUME SeqsOK'
  PROVE  /\ Len(status') \in Nat /\ Orders' = 1 .. Len(status') /\ Orders' \subseteq Nat
         /\ None \notin Orders' /\ Torn \notin Orders'
         /\ Len(records') \in Nat /\ DOMAIN records' = 1 .. Len(records')
         /\ DOMAIN issued' = Orders'
BY DEF SeqsOK, Orders, None, Torn

(* The sizes of sets of actors.                                            *)
LEMMA ActorSets ==
  ASSUME NEW S \in SUBSET Actors
  PROVE  IsFiniteSet(S) /\ Cardinality(S) \in Nat
BY Constants, FS_Subset, FS_CardinalityType

LEMMA InitInv == Init => Inv
<1> SUFFICES ASSUME Init PROVE Inv
  OBVIOUS
<1>1. PICK running \in Deployments :
        task = [a \in Actors |-> IF a \in running THEN Start(a) ELSE At("off")]
  BY DEF Init
<1>2. /\ day = 0 /\ faults = 0 /\ misread = 0 /\ certFile = None /\ keyFile = None
      /\ served = [a \in Resolvers |-> Nothing]
      /\ records = <<>> /\ status = <<>> /\ issued = <<>>
  BY DEF Init
<1>3. SeqsOK
  BY <1>2 DEF SeqsOK
<1>4. Orders = {}
  BY <1>2 DEF Orders
<1>5. \A l \in Labels : At(l) \in TaskType
  BY <1>2, Constants DEF At, TaskType, None
<1>6. \A a \in Actors :
        /\ task[a] = At(task[a].pc) /\ task[a].pc \in {"sleep", "load", "off"}
  BY <1>1 DEF Start, At
<1>7. task \in [Actors -> TaskType]
  BY <1>1, <1>5, <1>6 DEF Labels
<1>8. TypeOK
  <2>1. served \in [Resolvers -> ServedType]
    BY <1>2 DEF ServedType, Nothing, None
  <2>2. day \in 0 .. MaxDay /\ faults \in 0 .. MaxFaults /\ Len(status) <= MaxOrders
    BY <1>2, Constants
  <2>3. status \in [Orders -> States] /\ issued \in [Orders -> 0 .. MaxDay]
    BY <1>2, <1>4
  <2> QED
    BY <1>2, <1>7, <2>1, <2>2, <2>3 DEF TypeOK, TaskType, ServedType, States
<1>9. TasksOK /\ ServedOK /\ CertsOK
  BY <1>2, <1>4, <1>6, Constants
  DEF TasksOK, TaskOK, ServedOK, CertsOK, Certified, Ordering, Finished, At
<1>10. Room
  <2>1. Posting = {}
    BY <1>6 DEF Posting
  <2>2. Running \in SUBSET Actors
    BY DEF Running
  <2>3. Cardinality(Posting) = 0 /\ Cardinality(Running) \in Nat /\ Len(records) = 0
    BY <1>2, <2>1, <2>2, ActorSets, FS_EmptySet
  <2> QED
    BY <1>2, <2>3 DEF Room
<1>11. Alone
  BY <1>4, <1>6 DEF Alone, Awaits, Running
<1> QED
  BY <1>3, <1>8, <1>9, <1>10, <1>11 DEF Inv

(* The orders are kept: no status changes, new orders are not refused, and *)
(* what is issued is issued today.                                         *)
Grows ==
  /\ SeqsOK' /\ Len(status) <= Len(status') /\ Len(status') <= MaxOrders
  /\ \A n \in Orders : status'[n] = status[n] /\ issued'[n] \in {issued[n], day}
  /\ \A n \in Orders' : n \in Orders \/ (status'[n] # "invalid" /\ issued'[n] = 0)

LEMMA Misread == Inv => misread \in Nat
BY DEF Inv, TypeOK

(* A step of one actor, which goes to r.                                   *)
LEMMA Moves ==
  ASSUME Inv, NEW a \in Actors, NEW r, task' = [task EXCEPT ![a] = r], r \in TaskType',
         task[a].pc # "off", r.pc # "off", TaskOK(r)',
         Grows, day' = day, faults' \in 0 .. MaxFaults,
         {certFile', keyFile'} \subseteq {None, Torn} \cup Orders, Certified(certFile'),
         served' \in [Resolvers -> ServedType],
         \A b \in Resolvers \ {a} : served'[b] = served[b],
         a \in Resolvers /\ r.pc = "serving" => Fresh(served[a].cert, r.since)',
         Len(records') + Cardinality(Posting') <= Cardinality(Running) + misread', misread' \in Nat,
         Running = {a} /\ Awaits(r)' => Published(r.order)'
  PROVE  Inv' /\ Running' = Running
<1>1. SeqsOK /\ SeqsOK' /\ TypeOK
  BY DEF Inv, Grows
<1>2. /\ Orders \subseteq Orders' /\ None \notin Orders' /\ Torn \notin Orders'
      /\ Orders = 1 .. Len(status) /\ Orders' = 1 .. Len(status')
  <2>1. Orders = 1 .. Len(status) /\ Len(status) \in Nat
    BY <1>1, OrdersAre
  <2>2. /\ Orders' = 1 .. Len(status') /\ Len(status') \in Nat
        /\ None \notin Orders' /\ Torn \notin Orders'
    BY <1>1, OrdersNext
  <2>3. Len(status) <= Len(status')
    BY DEF Grows
  <2> QED
    BY <2>1, <2>2, <2>3
<1>3. task \in [Actors -> TaskType] /\ TaskType \subseteq TaskType'
  BY <1>1, <1>2 DEF TypeOK, TaskType
<1>4. /\ task' \in [Actors -> TaskType'] /\ task'[a] = r
      /\ \A b \in Actors : b # a => task'[b] = task[b]
  BY <1>3
<1>5. TypeOK'
  <2>1. ServedType \subseteq ServedType'
    BY <1>2 DEF ServedType
  <2>2. served' \in [Resolvers -> ServedType']
    BY <2>1
  <2>3. {certFile', keyFile'} \subseteq {None, Torn} \cup Orders'
    BY <1>2
  <2>4. (status \in [Orders -> States] /\ issued \in [Orders -> 0 .. MaxDay])'
    <3>1. /\ status' \in [1 .. Len(status') -> States]
          /\ issued' \in [1 .. Len(issued') -> 0 .. MaxDay] /\ Len(issued') = Len(status')
      <4>1. /\ status' \in Seq(States) /\ issued' \in Seq(0 .. MaxDay)
            /\ Len(issued') = Len(status')
        BY <1>1 DEF SeqsOK
      <4> QED
        BY <4>1, SeqIs
    <3> QED
      BY <1>2, <3>1
  <2>5. Len(status') <= MaxOrders
    BY DEF Grows
  <2>6. day' \in 0 .. MaxDay /\ misread' \in Nat
    BY <1>1 DEF TypeOK
  <2>7. \A i \in DOMAIN records' : records'[i] \in RecordType'
    BY <1>1 DEF SeqsOK
  <2> QED
    BY <1>4, <2>2, <2>3, <2>4, <2>5, <2>6, <2>7
    DEF TypeOK, TaskType, ServedType, States, RecordType
<1>6. \A c \in {None, Torn} \cup Orders : Certified(c) => Certified(c)'
  BY <1>2 DEF Certified, Grows
<1>7. CertsOK'
  <2>1. Certified(certFile)'
    BY <1>6
  <2>2. \A n \in Orders' : issued'[n] <= day'
    <3>1. day \in Nat /\ \A n \in Orders : issued[n] <= day
      BY <1>1, Constants DEF Inv, CertsOK, TypeOK
    <3> QED
      BY <3>1 DEF Grows
  <2> QED
    BY <2>1, <2>2 DEF CertsOK
<1>8. TasksOK'
  <2> SUFFICES ASSUME NEW b \in Actors, b # a PROVE TaskOK(task[b])'
    BY <1>4 DEF TasksOK
  <2>1. TaskOK(task[b]) /\ task[b].seen \in {None, Torn} \cup Orders
    BY <1>3 DEF Inv, TasksOK, TaskType
  <2>2. Certified(task[b].seen)'
    <3>1. PICK c \in {None, Torn} \cup Orders : c = task[b].seen /\ c = task'[b].seen
      BY <1>4, <2>1
    <3> QED
      BY <3>1, <1>6, <2>1 DEF TaskOK
  <2>3. task[b].pc \in Finished =>
          status'[task[b].order] = "ready" /\ issued'[task[b].order] = day
    BY <2>1 DEF TaskOK, Grows
  <2> QED
    BY <1>2, <1>4, <2>1, <2>2, <2>3 DEF TaskOK
<1>9. ServedOK'
  <2> SUFFICES ASSUME NEW b \in Resolvers, task'[b].pc = "serving"
               PROVE  Fresh(served[b].cert, task[b].since)'
    BY DEF ServedOK
  <2>1. CASE b = a
    BY <2>1, <1>4
  <2>2. CASE b # a
    <3>1. task'[b] = task[b] /\ served'[b] = served[b]
      BY <2>2, <1>4, Constants
    <3>2. PICK c, since : c = served[b].cert /\ since = task[b].since
      OBVIOUS
    <3>3. Fresh(c, since) /\ since \in Nat
      BY <3>1, <3>2, <1>3, Constants DEF Inv, ServedOK, TaskType
    <3>4. issued[c] \in Nat /\ day \in Nat /\ issued[c] <= day
      BY <3>3, <1>1, Constants DEF Fresh, Inv, CertsOK, TypeOK
    <3>5. c \in Orders' /\ status'[c] = "ready"
      BY <3>3, <1>2 DEF Fresh, Grows
    <3>6. issued'[c] \in {issued[c], day}
      BY <3>3 DEF Fresh, Grows
    <3>7. issued'[c] + Lifetime - since > Threshold
      BY <3>3, <3>4, <3>6, Constants DEF Fresh
    <3> QED
      BY <3>1, <3>2, <3>5, <3>7 DEF Fresh
  <2> QED
    BY <2>1, <2>2
<1>10. Running' = Running
  BY <1>4 DEF Running, Off
<1>11. Room'
  BY <1>10 DEF Room
<1>12. Alone'
  <2> SUFFICES ASSUME NEW b \in Running', Running' = {b}
               PROVE  /\ \A n \in Orders' : status'[n] # "invalid"
                      /\ Awaits(task[b])' => Published(task[b].order)'
    BY DEF Alone
  <2>1. b = a /\ Running = {a}
    BY <1>4, <1>10 DEF Running, Off
  <2>2. \A n \in Orders : status[n] # "invalid"
    BY <2>1 DEF Inv, Alone
  <2>3. \A n \in Orders' : status'[n] # "invalid"
    BY <2>2 DEF Grows
  <2> QED
    BY <2>1, <2>3, <1>4 DEF Awaits, Published
<1> QED
  BY <1>1, <1>5, <1>7, <1>8, <1>9, <1>10, <1>11, <1>12 DEF Inv

(* Room for what one more POST needs: it is one of an actor that runs.     *)
LEMMA Posts == Posting \subseteq Running /\ Running \in SUBSET Actors
BY DEF Posting, Running, Off

(* A step of one actor that leaves the records and the orders as they are. *)
LEMMA Continues ==
  ASSUME Inv, NEW a \in Actors, NEW r \in TaskType, task' = [task EXCEPT ![a] = r],
         task[a].pc # "off", r.pc # "off", TaskOK(r),
         UNCHANGED <<records, status, issued, day>>, faults' \in 0 .. MaxFaults,
         {certFile', keyFile'} \subseteq {None, Torn} \cup Orders, Certified(certFile'),
         served' \in [Resolvers -> ServedType],
         \A b \in Resolvers \ {a} : served'[b] = served[b],
         a \in Resolvers /\ r.pc = "serving" => Fresh(served'[a].cert, r.since),
         \/ misread' = misread + 1
         \/ misread' = misread /\ (r.pc = "upsert" /\ r.found = None => records = <<>>),
         Awaits(r) => Awaits(task[a]) /\ r.order = task[a].order
  PROVE  Inv' /\ Running' = Running
<1>1. SeqsOK /\ TypeOK
  BY DEF Inv
<1>2. task \in [Actors -> TaskType]
  BY <1>1 DEF TypeOK, TaskType
<1>3. task'[a] = r /\ \A b \in Actors : b # a => task'[b] = task[b]
  BY <1>2
<1>4. /\ Orders' = Orders /\ status' = status /\ issued' = issued /\ records' = records
      /\ day' = day
  BY DEF Orders
<1>5. r \in TaskType'
  BY <1>4 DEF TaskType
<1>6. TaskOK(r)'
  BY <1>4 DEF TaskOK, Certified
<1>7. Grows
  <2>1. SeqsOK'
    BY <1>1, <1>4 DEF SeqsOK, RecordType
  <2>2. Len(status) \in Nat /\ Len(status) <= MaxOrders
    BY <1>1, OrdersAre DEF TypeOK
  <2> QED
    BY <1>4, <2>1, <2>2 DEF Grows
<1>8. Running' = Running
  BY <1>3 DEF Running, Off
<1>12. misread \in Nat /\ misread' \in Nat
  BY <1>1 DEF TypeOK
<1>9. Len(records') + Cardinality(Posting') <= Cardinality(Running) + misread'
  <2>1. /\ Posting' \subseteq Running /\ Posting' \in SUBSET Actors
        /\ Running \in SUBSET Actors /\ Posting \in SUBSET Actors
    BY <1>8, Posts DEF Posting, Running, Off
  <2>2. /\ IsFiniteSet(Running) /\ IsFiniteSet(Posting) /\ Cardinality(Posting') \in Nat
        /\ Cardinality(Running) \in Nat /\ Cardinality(Posting) \in Nat /\ Len(records) \in Nat
    BY <1>1, <2>1, ActorSets, OrdersAre
  <2>5. CASE misread' = misread + 1
    <3>1. Posting' \subseteq Posting \cup {a}
      BY <1>3 DEF Posting
    <3>2. /\ IsFiniteSet(Posting \cup {a})
          /\ Cardinality(Posting \cup {a}) \in Nat
          /\ Cardinality(Posting \cup {a}) <= Cardinality(Posting) + 1
      <4>1. /\ IsFiniteSet(Posting \cup {a})
            /\ Cardinality(Posting \cup {a}) =
                 IF a \in Posting THEN Cardinality(Posting) ELSE Cardinality(Posting) + 1
        BY <2>2, FS_AddElement
      <4> QED
        BY <2>2, <4>1
    <3>3. Cardinality(Posting') <= Cardinality(Posting \cup {a})
      BY <3>1, <3>2, FS_Subset
    <3> QED
      BY <2>2, <2>5, <3>2, <3>3, <1>4, <1>12 DEF Inv, Room
  <2>3. CASE misread' = misread /\ records = <<>>
    <3>1. Cardinality(Posting') <= Cardinality(Running) /\ Len(records') = 0
      BY <2>1, <2>2, <2>3, <1>4, FS_Subset
    <3> QED
      BY <3>1, <2>2, <1>12
  <2>4. CASE misread' = misread /\ records # <<>>
    <3>1. Posting' \subseteq Posting
      <4>1. r.pc = "upsert" => r.found # None
        BY <2>4, <1>12
      <4> QED
        BY <4>1, <1>2, <1>3 DEF Posting
    <3>2. Cardinality(Posting') <= Cardinality(Posting)
      BY <3>1, <2>2, FS_Subset
    <3> QED
      BY <3>2, <2>2, <2>4, <1>4, <1>12 DEF Inv, Room
  <2> QED
    BY <2>3, <2>4, <2>5
<1>10. Running = {a} /\ Awaits(r)' => Published(r.order)'
  BY <1>4 DEF Awaits, Published, Inv, Alone
<1>11. a \in Resolvers /\ r.pc = "serving" => Fresh(served[a].cert, r.since)'
  BY <1>4 DEF Fresh
<1> QED
  BY <1>5, <1>6, <1>7, <1>8, <1>9, <1>10, <1>11, <1>12, Moves

LEMMA AtIs ==
  ASSUME Inv, NEW l \in Labels
  PROVE  /\ At(l) \in TaskType /\ At(l).pc = l /\ At(l).seen = None /\ At(l).since = day
         /\ l \notin Ordering \cup Finished => TaskOK(At(l))
<1>1. day \in 0 .. MaxDay /\ SeqsOK
  BY DEF Inv, TypeOK
<1>2. At(l) \in TaskType /\ At(l).pc = l /\ At(l).seen = None /\ At(l).since = day
  BY <1>1, Constants DEF At, TaskType
<1> QED
  BY <1>1, <1>2, OrdersAre DEF TaskOK, Certified

LEMMA GivesUp ==
  ASSUME Inv, NEW a \in Actors, task[a].pc # "off", GiveUp(a),
         UNCHANGED <<served, files, records, ca, day, misread>>, faults' \in 0 .. MaxFaults
  PROVE  Inv' /\ Running' = Running
<1>1. PICK l \in {"sleep", "failed"} : task' = [task EXCEPT ![a] = At(l)]
  BY DEF GiveUp
<1>2. l \in Labels /\ l \notin Ordering \cup Finished /\ l \notin {"off", "upsert", "ready", "poll", "serving"}
  BY DEF Labels, Ordering, Finished
<1>3. PICK r : r = At(l)
  OBVIOUS
<1>4. r \in TaskType /\ TaskOK(r) /\ r.pc = l
  BY <1>2, <1>3, AtIs
<1>5. /\ served' = served /\ certFile' = certFile /\ keyFile' = keyFile
      /\ UNCHANGED <<records, status, issued, day, misread>>
  BY DEF files, ca
<1>6. {certFile, keyFile} \subseteq {None, Torn} \cup Orders /\ Certified(certFile)
      /\ served \in [Resolvers -> ServedType]
  BY DEF Inv, TypeOK, CertsOK, ServedType
<1>7. ~ Awaits(r)
  BY <1>2, <1>4 DEF Awaits
<1> QED
  BY <1>1, <1>2, <1>3, <1>4, <1>5, <1>6, <1>7, Continues

(* A listener goes on with what it resolved, a loop sleeps again.          *)
LEMMA Resolves ==
  ASSUME Inv, NEW a \in Actors, task[a].pc # "off", NEW c \in Orders, NEW k \in {Torn} \cup Orders,
         Fresh(c, day), Resolve(a, c, k), UNCHANGED <<files, records, ca, limits>>
  PROVE  Inv' /\ Running' = Running
<1>1. PICK l \in {"sleep", "serving"} :
        task' = [task EXCEPT ![a] = At(l)] /\ (l = "sleep" <=> a \in Renewers)
  BY DEF Resolve
<1>2. l \in Labels /\ l \notin Ordering \cup Finished /\ l \notin {"off", "upsert", "ready", "poll"}
  BY DEF Labels, Ordering, Finished
<1>3. PICK r : r = At(l)
  OBVIOUS
<1>4. r \in TaskType /\ TaskOK(r) /\ r.pc = l /\ r.since = day
  BY <1>2, <1>3, AtIs
<1>5. /\ certFile' = certFile /\ keyFile' = keyFile /\ faults' = faults
      /\ UNCHANGED <<records, status, issued, day, misread>>
  BY DEF files, ca, limits
<1>6. {certFile, keyFile} \subseteq {None, Torn} \cup Orders /\ Certified(certFile)
      /\ served \in [Resolvers -> ServedType] /\ faults \in 0 .. MaxFaults
  BY DEF Inv, TypeOK, CertsOK, ServedType
<1>7. /\ served' \in [Resolvers -> ServedType]
      /\ \A b \in Resolvers \ {a} : served'[b] = served[b]
      /\ a \in Resolvers => served'[a].cert = c
  <2>1. [cert |-> c, key |-> k] \in ServedType
    BY DEF ServedType
  <2>2. CASE a \in Renewers
    BY <2>2, <1>6, Constants DEF Resolve
  <2>3. CASE a \notin Renewers
    BY <2>1, <2>3, <1>6 DEF Resolve
  <2> QED
    BY <2>2, <2>3
<1>8. ~ Awaits(r)
  BY <1>2, <1>4 DEF Awaits
<1> QED
  BY <1>1, <1>2, <1>3, <1>4, <1>5, <1>6, <1>7, <1>8, Continues

LEMMA GoesOn ==
  ASSUME Inv, NEW a \in Actors, NEW r \in TaskType, task' = [task EXCEPT ![a] = r],
         task[a].pc # "off", r.pc \notin {"off", "serving"}, TaskOK(r),
         UNCHANGED <<served, files, records, ca, limits>>,
         r.pc = "upsert" /\ r.found = None => records = <<>>,
         Awaits(r) => Awaits(task[a]) /\ r.order = task[a].order
  PROVE  Inv' /\ Running' = Running
<1>1. /\ served' = served /\ certFile' = certFile /\ keyFile' = keyFile /\ faults' = faults
      /\ UNCHANGED <<records, status, issued, day, misread>>
  BY DEF files, ca, limits
<1>2. {certFile, keyFile} \subseteq {None, Torn} \cup Orders /\ Certified(certFile)
      /\ served \in [Resolvers -> ServedType] /\ faults \in 0 .. MaxFaults
  BY DEF Inv, TypeOK, CertsOK, ServedType
<1> QED
  BY <1>1, <1>2, Continues

LEMMA Tasks ==
  ASSUME Inv
  PROVE  /\ task \in [Actors -> TaskType]
         /\ \A a \in Actors : task[a] \in TaskType /\ TaskOK(task[a])
BY DEF Inv, TypeOK, TaskType, TasksOK

(* A label alone changes.                                                  *)
LEMMA Relabels ==
  ASSUME Inv, NEW a \in Actors, NEW l \in Labels, Goto(a, l)
  PROVE  \E r \in TaskType :
           /\ task' = [task EXCEPT ![a] = r] /\ r = [task[a] EXCEPT !.pc = l]
           /\ r.pc = l /\ r.seen = task[a].seen /\ r.order = task[a].order
           /\ r.found = task[a].found /\ r.placed = task[a].placed
<1>1. PICK r : r = [task[a] EXCEPT !.pc = l]
  OBVIOUS
<1>2. task[a] \in TaskType
  BY Tasks
<1>3. r \in TaskType /\ r.pc = l /\ r.seen = task[a].seen /\ r.order = task[a].order
      /\ r.found = task[a].found /\ r.placed = task[a].placed
  BY <1>1, <1>2 DEF TaskType
<1>4. task' = [task EXCEPT ![a] = r]
  BY <1>1 DEF Goto
<1> QED
  BY <1>1, <1>3, <1>4

LEMMA Wakes ==
  ASSUME Inv, NEW a \in Actors, WakeUp(a)
  PROVE  Inv' /\ Running' = Running
<1>1. /\ task[a].pc = "sleep" /\ Goto(a, "load")
      /\ UNCHANGED <<served, files, records, ca, limits>>
  BY DEF WakeUp
<1>2. PICK r \in TaskType :
        task' = [task EXCEPT ![a] = r] /\ r.pc = "load" /\ r.seen = task[a].seen
  BY <1>1, Relabels DEF Labels
<1>3. TaskOK(r) /\ ~ Awaits(r)
  BY <1>2, Tasks DEF TaskOK, Awaits, Ordering, Finished
<1> QED
  BY <1>1, <1>2, <1>3, GoesOn

LEMMA LoadsCert ==
  ASSUME Inv, NEW a \in Actors, LoadCert(a)
  PROVE  Inv' /\ Running' = Running
<1>1. /\ task[a].pc = "load" /\ UNCHANGED <<served, files, records, ca, limits>>
      /\ task' = [task EXCEPT ![a].pc = "loadKey", ![a].seen = certFile]
  BY DEF LoadCert
<1>2. PICK r : r = [task[a] EXCEPT !.pc = "loadKey", !.seen = certFile]
  OBVIOUS
<1>3. task[a] \in TaskType /\ task \in [Actors -> TaskType] /\ certFile \in {None, Torn} \cup Orders
  BY Tasks DEF Inv, TypeOK
<1>4. r \in TaskType /\ r.pc = "loadKey" /\ r.seen = certFile
  BY <1>2, <1>3 DEF TaskType, Labels
<1>5. task' = [task EXCEPT ![a] = r]
  BY <1>1, <1>2, <1>3
<1>6. TaskOK(r) /\ ~ Awaits(r)
  BY <1>4 DEF TaskOK, Awaits, Ordering, Finished, Inv, CertsOK
<1> QED
  BY <1>1, <1>4, <1>5, <1>6, GoesOn

LEMMA LoadsKey ==
  ASSUME Inv, NEW a \in Actors, LoadKey(a)
  PROVE  Inv' /\ Running' = Running
<1>1. task[a].pc = "loadKey" /\ UNCHANGED <<files, records, ca, limits>>
  BY DEF LoadKey
<1>2. CASE keyFile = None \/ NeedsRenewal(task[a].seen)
  <2>1. PICK r : r = At("order")
    OBVIOUS
  <2>2. /\ r \in TaskType /\ TaskOK(r) /\ r.pc = "order"
    BY <2>1, AtIs DEF Labels, Requests, Ordering, Finished
  <2>3. task' = [task EXCEPT ![a] = r] /\ served' = served /\ ~ Awaits(r)
    BY <1>2, <2>1, <2>2 DEF LoadKey, Awaits
  <2> QED
    BY <1>1, <2>2, <2>3, GoesOn
<1>3. CASE ~ (keyFile = None \/ NeedsRenewal(task[a].seen))
  <2>1. Resolve(a, task[a].seen, keyFile)
    BY <1>3 DEF LoadKey
  <2>2. task[a].seen \in {None, Torn} \cup Orders /\ Certified(task[a].seen)
    BY Tasks DEF TaskOK, TaskType
  <2>3. keyFile \in {Torn} \cup Orders
    BY <1>3 DEF Inv, TypeOK
  <2>4. task[a].seen \in Orders /\ ~ (DaysLeft(task[a].seen) <= Threshold)
    BY <1>3, <2>2 DEF NeedsRenewal
  <2>5. issued[task[a].seen] \in Nat /\ day \in Nat
    BY <2>4, Constants DEF Inv, TypeOK
  <2>6. Fresh(task[a].seen, day)
    BY <2>2, <2>4, <2>5, Constants DEF Fresh, Certified, DaysLeft
  <2> QED
    BY <1>1, <2>1, <2>3, <2>4, <2>6, Resolves
<1> QED
  BY <1>2, <1>3

LEMMA FindsRecord ==
  ASSUME Inv, NEW a \in Actors, FindRecord(a)
  PROVE  Inv' /\ Running' = Running
<1> DEFINE l == AfterFind(a)
<1>1. /\ task[a].pc \in {"find", "cleanup"} /\ UNCHANGED <<served, files, records, ca, day>>
  BY DEF FindRecord
<1>2. PICK id \in {None} \cup Orders :
        /\ Lookup(a, id) /\ faults' \in 0 .. MaxFaults
        /\ \/ misread' = misread /\ (l = "upsert" /\ id = None => records = <<>>)
           \/ misread' = misread + 1
  <2>1. records \in Seq(RecordType) /\ None \notin Orders /\ faults \in 0 .. MaxFaults
    BY OrdersAre DEF Inv, SeqsOK, TypeOK
  <2>2. CASE /\ Lookup(a, IF records = <<>> THEN None ELSE Head(records).id)
             /\ UNCHANGED <<faults, misread>>
    <3>1. CASE records = <<>>
      BY <2>1, <2>2, <3>1
    <3>2. CASE records # <<>>
      <4>1. Head(records) \in RecordType
        BY <2>1, <3>2
      <4>2. Head(records).id \in Orders
        BY <4>1 DEF RecordType
      <4> QED
        BY <2>1, <2>2, <3>2, <4>2
    <3> QED
      BY <3>1, <3>2
  <2>3. CASE /\ FaultHappens /\ Lookup(a, None)
             /\ misread' = IF task[a].pc = "find" THEN misread + 1 ELSE misread
    <3>1. faults' \in 0 .. MaxFaults
      BY <2>1, <2>3, Constants DEF FaultHappens
    <3>2. task[a].pc # "find" => l # "upsert"
      BY DEF AfterFind
    <3> QED
      BY <2>3, <3>1, <3>2
  <2> QED
    BY <2>2, <2>3 DEF FindRecord
<1>3. task[a] \in TaskType /\ task \in [Actors -> TaskType] /\ TaskOK(task[a])
  BY Tasks
<1>4. PICK r : r = [task[a] EXCEPT !.pc = l, !.found = id]
  OBVIOUS
<1>5. l = (IF task[a].pc = "find" THEN "upsert" ELSE "delete") /\ l \in Labels
  BY DEF AfterFind, Labels, Requests
<1>6. task' = [task EXCEPT ![a] = r]
  BY <1>2, <1>3, <1>4 DEF Lookup
<1> HIDE DEF l
<1>7. /\ r \in TaskType /\ r.pc = l /\ r.found = id /\ r.seen = task[a].seen
      /\ r.order = task[a].order
  BY <1>3, <1>4, <1>5 DEF TaskType
<1>8. TaskOK(r) /\ ~ Awaits(r) /\ r.pc \notin {"off", "serving"}
  BY <1>1, <1>3, <1>5, <1>7 DEF TaskOK, Awaits, Ordering, Finished
<1>9. /\ served' = served /\ certFile' = certFile /\ keyFile' = keyFile
      /\ UNCHANGED <<records, status, issued, day>>
  BY <1>1 DEF files, ca
<1>10. {certFile, keyFile} \subseteq {None, Torn} \cup Orders /\ Certified(certFile)
       /\ served \in [Resolvers -> ServedType]
  BY DEF Inv, TypeOK, CertsOK, ServedType
<1> QED
  BY <1>1, <1>2, <1>6, <1>7, <1>8, <1>9, <1>10, Continues

LEMMA SetsReady ==
  ASSUME Inv, NEW a \in Actors, SetChallengeReady(a)
  PROVE  Inv' /\ Running' = Running
<1>1. /\ task[a].pc = "ready" /\ Goto(a, "poll")
      /\ UNCHANGED <<served, files, records, ca, limits>>
  BY DEF SetChallengeReady
<1>2. PICK r \in TaskType :
        /\ task' = [task EXCEPT ![a] = r] /\ r.pc = "poll" /\ r.seen = task[a].seen
        /\ r.order = task[a].order
  BY <1>1, Relabels DEF Labels, Requests
<1>3. TaskOK(r) /\ (Awaits(r) => Awaits(task[a]))
  BY <1>1, <1>2, Tasks DEF TaskOK, Awaits, Ordering, Finished
<1> QED
  BY <1>1, <1>2, <1>3, GoesOn

LEMMA PollsAgain ==
  ASSUME Inv, NEW a \in Actors, PollAgain(a)
  PROVE  Inv' /\ Running' = Running
<1>1. /\ task[a].pc = "poll" /\ task[a].polls < MaxPolls
      /\ UNCHANGED <<served, files, records, ca, limits>>
      /\ task' = [task EXCEPT ![a].polls = @ + 1]
  BY DEF PollAgain
<1>2. PICK r : r = [task[a] EXCEPT !.polls = @ + 1]
  OBVIOUS
<1>3. task[a] \in TaskType /\ task \in [Actors -> TaskType] /\ TaskOK(task[a])
  BY Tasks
<1>4. task[a].polls + 1 \in 0 .. MaxPolls
  BY <1>1, <1>3, Constants DEF TaskType
<1>5. /\ r \in TaskType /\ r.pc = "poll" /\ r.seen = task[a].seen /\ r.order = task[a].order
  BY <1>1, <1>2, <1>3, <1>4 DEF TaskType
<1>6. task' = [task EXCEPT ![a] = r]
  BY <1>1, <1>2
<1>7. TaskOK(r) /\ (Awaits(r) => Awaits(task[a]))
  BY <1>1, <1>3, <1>5 DEF TaskOK, Awaits, Ordering, Finished
<1> QED
  BY <1>1, <1>5, <1>6, <1>7, GoesOn

(* An order or a request that fails.                                       *)
LEMMA Fails ==
  ASSUME Inv, NEW a \in Actors, PollFails(a) \/ Fault(a)
  PROVE  Inv' /\ Running' = Running
<1>1. /\ task[a].pc # "off" /\ GiveUp(a)
      /\ UNCHANGED <<served, files, records, ca, day, misread>>
      /\ faults' = faults \/ (faults < MaxFaults /\ faults' = faults + 1)
  BY DEF PollFails, Fault, FaultHappens, Requests
<1>2. faults \in 0 .. MaxFaults
  BY DEF Inv, TypeOK
<1>3. faults' \in 0 .. MaxFaults
  BY <1>1, <1>2, Constants
<1> QED
  BY <1>1, <1>3, GivesUp

(* Storing the certificate and the key, and ending the call.               *)
LEMMA Writes ==
  ASSUME Inv, NEW a \in Actors,
         TruncateCert(a) \/ WriteCert(a) \/ TruncateKey(a) \/ WriteKey(a)
  PROVE  Inv' /\ Running' = Running
<1>1. PICK from \in {"store", "writeCert", "storeKey", "writeKey"},
           to \in {"writeCert", "storeKey", "writeKey", "stored"} : Write(a, from, to)
  BY DEF TruncateCert, WriteCert, TruncateKey, WriteKey
<1>2. /\ task[a].pc = from /\ Goto(a, to) /\ UNCHANGED <<served, records, ca, limits>>
  BY <1>1 DEF Write
<1>3. PICK r \in TaskType :
        /\ task' = [task EXCEPT ![a] = r] /\ r.pc = to /\ r.seen = task[a].seen
        /\ r.order = task[a].order
  <2>1. to \in Labels
    BY DEF Labels
  <2> QED
    BY <1>2, <2>1, Relabels
<1>4. TaskOK(r) /\ ~ Awaits(r)
  BY <1>2, <1>3, Tasks DEF TaskOK, Awaits, Ordering, Finished
<1>5. Order(a) \in Orders /\ Certified(Order(a))
  BY <1>2, Tasks DEF TaskOK, Finished, Certified, Order
<1>6. /\ {certFile, keyFile} \subseteq {None, Torn} \cup Orders /\ Certified(certFile)
      /\ Torn \notin Orders /\ served \in [Resolvers -> ServedType] /\ faults \in 0 .. MaxFaults
  BY OrdersAre DEF Inv, TypeOK, CertsOK, ServedType
<1>7. certFile' \in {certFile, Torn, Order(a)} /\ keyFile' \in {keyFile, Torn, Order(a)}
  BY DEF TruncateCert, WriteCert, TruncateKey, WriteKey
<1>8. {certFile', keyFile'} \subseteq {None, Torn} \cup Orders /\ Certified(certFile')
  BY <1>5, <1>6, <1>7 DEF Certified
<1>9. /\ served' = served /\ faults' = faults
      /\ UNCHANGED <<records, status, issued, day, misread>>
  BY <1>2 DEF ca, limits
<1>10. task[a].pc # "off" /\ r.pc \notin {"off", "serving", "upsert"}
  BY <1>2, <1>3
<1> QED
  BY <1>3, <1>4, <1>6, <1>8, <1>9, <1>10, Continues

LEMMA Stores ==
  ASSUME Inv, NEW a \in Actors, Stored(a)
  PROVE  Inv' /\ Running' = Running
<1>1. /\ task[a].pc = "stored" /\ Resolve(a, Order(a), Order(a))
      /\ UNCHANGED <<files, records, ca, limits>>
  BY DEF Stored
<1>2. /\ Order(a) \in Orders /\ status[Order(a)] = "ready" /\ issued[Order(a)] = day
  BY <1>1, Tasks DEF TaskOK, Finished, Order
<1>3. day \in Nat
  BY Constants DEF Inv, TypeOK
<1>4. Fresh(Order(a), day)
  BY <1>2, <1>3, Constants DEF Fresh
<1> QED
  BY <1>1, <1>2, <1>4, Resolves

(* The steps that change the records or the orders.                        *)
LEMMA RoomShrinks ==
  ASSUME Inv, SeqsOK', Posting' \subseteq Posting, Len(records') <= Len(records),
         misread' = misread
  PROVE  Len(records') + Cardinality(Posting') <= Cardinality(Running) + misread'
<1>1. Posting \in SUBSET Actors /\ Posting' \in SUBSET Actors /\ Running \in SUBSET Actors
  BY Posts DEF Posting
<1>2. /\ IsFiniteSet(Posting) /\ Cardinality(Posting) \in Nat
      /\ Cardinality(Posting') \in Nat /\ Cardinality(Running) \in Nat
  BY <1>1, ActorSets
<1>3. Cardinality(Posting') <= Cardinality(Posting)
  BY <1>2, FS_Subset
<1>4. Len(records) \in Nat /\ Len(records') \in Nat
  BY OrdersAre, OrdersNext DEF Inv
<1>5. misread \in Nat
  BY DEF Inv, TypeOK
<1> QED
  BY <1>2, <1>3, <1>4, <1>5 DEF Inv, Room

LEMMA SeqWider ==
  ASSUME NEW S, NEW T, S \subseteq T, NEW s \in Seq(S)
  PROVE  s \in Seq(T)
OBVIOUS

LEMMA MakesOrder ==
  ASSUME Inv, NEW a \in Actors, NewOrder(a)
  PROVE  Inv' /\ Running' = Running
<1> DEFINE n == Len(status) + 1
<1>1. PICK proven \in BOOLEAN, l \in {"find", "poll"} :
        /\ n = Len(status) + 1 /\ l = IF proven THEN "poll" ELSE "find"
        /\ status' = Append(status, IF proven THEN "ready" ELSE "pending")
        /\ task' = [task EXCEPT ![a].pc = l, ![a].order = n]
  BY DEF NewOrder
<1> HIDE DEF n
<1>2. /\ task[a].pc = "order" /\ Len(status) < MaxOrders /\ issued' = Append(issued, 0)
      /\ UNCHANGED <<served, files, records, limits>>
  BY DEF NewOrder
<1>3. /\ SeqsOK /\ task[a] \in TaskType /\ task \in [Actors -> TaskType] /\ TaskOK(task[a])
      /\ {certFile, keyFile} \subseteq {None, Torn} \cup Orders /\ Certified(certFile)
      /\ served \in [Resolvers -> ServedType] /\ faults \in 0 .. MaxFaults
  BY Tasks DEF Inv, TypeOK, CertsOK, ServedType
<1>4. /\ status \in Seq(States) /\ issued \in Seq(0 .. MaxDay) /\ Len(issued) = Len(status)
      /\ Len(status) \in Nat /\ n \in Nat
      /\ Orders = 1 .. Len(status) /\ None \notin Orders /\ Torn \notin Orders
  BY <1>1, <1>3, OrdersAre DEF SeqsOK
<1>5. /\ status' \in Seq(States) /\ issued' \in Seq(0 .. MaxDay)
      /\ Len(status') = n /\ Len(issued') = n
      /\ status'[n] = (IF proven THEN "ready" ELSE "pending") /\ issued'[n] = 0
      /\ \A m \in Orders : status'[m] = status[m] /\ issued'[m] = issued[m]
  BY <1>1, <1>2, <1>4, Constants DEF States
<1>6. Orders' = 1 .. n /\ Orders \subseteq Orders' /\ n \in Orders'
  <2>1. Orders' = 1 .. n
    BY <1>5 DEF Orders
  <2> QED
    BY <2>1, <1>1, <1>4
<1>7. Grows
  <2>1. SeqsOK'
    <3>1. RecordType \subseteq RecordType'
      BY <1>6 DEF RecordType
    <3>2. records' \in Seq(RecordType')
      BY <1>2, <1>3, <3>1, SeqWider DEF SeqsOK
    <3> QED
      BY <3>2, <1>5 DEF SeqsOK
  <2>2. Len(status) <= Len(status') /\ Len(status') <= MaxOrders
    BY <1>1, <1>2, <1>4, <1>5, Constants
  <2>3. \A m \in Orders' : m \in Orders \/ m = n
    BY <1>1, <1>4, <1>6
  <2> QED
    BY <2>1, <2>2, <2>3, <1>5 DEF Grows
<1>8. PICK r : r = [task[a] EXCEPT !.pc = l, !.order = n]
  OBVIOUS
<1>9. task' = [task EXCEPT ![a] = r]
  BY <1>1, <1>3, <1>8
<1>10. /\ r \in TaskType' /\ r.pc = l /\ r.order = n /\ r.seen = task[a].seen
  <2>1. TaskType \subseteq TaskType'
    BY <1>6 DEF TaskType
  <2>2. l \in Labels
    BY <1>1 DEF Labels, Requests
  <2>3. task[a] \in TaskType'
    BY <1>3, <2>1
  <2> QED
    BY <2>2, <2>3, <1>6, <1>8 DEF TaskType
<1>11. TaskOK(r)' /\ r.pc \notin {"off", "serving", "upsert"} /\ ~ Awaits(r)'
  <2>1. r.seen \in {None, Torn} \cup Orders /\ Certified(r.seen)
    BY <1>3, <1>10 DEF TaskOK, TaskType
  <2>2. Certified(r.seen)'
    BY <2>1, <1>5, <1>6, OrdersNext, <1>7 DEF Certified, Grows
  <2> QED
    BY <2>2, <1>1, <1>5, <1>6, <1>10 DEF TaskOK, Ordering, Finished, Awaits
<1>12. Posting' \subseteq Posting
  BY <1>3, <1>9, <1>11 DEF Posting
<1>13. Len(records') + Cardinality(Posting') <= Cardinality(Running) + misread'
  <2>1. /\ records' = records /\ Len(records) <= Len(records) /\ SeqsOK'
        /\ misread' = misread
    BY <1>2, <1>3, <1>7, OrdersAre DEF Grows, limits
  <2> QED
    BY <2>1, <1>12, RoomShrinks
<1>14. /\ served' = served /\ certFile' = certFile /\ keyFile' = keyFile /\ faults' = faults
       /\ day' = day /\ misread' \in Nat
  BY <1>2, Misread DEF files, limits
<1> QED
  BY <1>2, <1>3, <1>7, <1>9, <1>10, <1>11, <1>13, <1>14, Moves

LEMMA Finalizes ==
  ASSUME Inv, NEW a \in Actors, Finalize(a)
  PROVE  Inv' /\ Running' = Running
<1>1. PICK n, l : n = Order(a) /\ l = IF task[a].placed THEN "cleanup" ELSE "store"
  OBVIOUS
<1>2. /\ task[a].pc = "poll" /\ status[n] = "ready" /\ issued' = [issued EXCEPT ![n] = day]
      /\ Goto(a, l) /\ UNCHANGED <<served, files, records, status, limits>>
  BY <1>1 DEF Finalize
<1>3. /\ SeqsOK /\ TaskOK(task[a]) /\ task[a] \in TaskType /\ task \in [Actors -> TaskType]
      /\ {certFile, keyFile} \subseteq {None, Torn} \cup Orders /\ Certified(certFile)
      /\ served \in [Resolvers -> ServedType] /\ faults \in 0 .. MaxFaults
      /\ day \in 0 .. MaxDay /\ Len(status) <= MaxOrders
  BY Tasks DEF Inv, TypeOK, CertsOK, ServedType
<1>4. n \in Orders /\ n = task[a].order
  BY <1>1, <1>2, <1>3 DEF TaskOK, Ordering, Order
<1>5. PICK r \in TaskType :
        /\ task' = [task EXCEPT ![a] = r] /\ r.pc = l /\ r.seen = task[a].seen
        /\ r.order = n
  <2>1. l \in Labels
    BY <1>1 DEF Labels
  <2> QED
    BY <2>1, <1>2, <1>4, Relabels
<1>6. /\ Orders' = Orders /\ status' = status /\ records' = records /\ day' = day
      /\ served' = served /\ certFile' = certFile /\ keyFile' = keyFile /\ faults' = faults
      /\ misread' = misread /\ misread' \in Nat
  BY <1>2, Misread DEF Orders, files, limits
<1>7. /\ issued' \in Seq(0 .. MaxDay) /\ Len(issued') = Len(status) /\ issued'[n] = day
      /\ \A m \in Orders : issued'[m] \in {issued[m], day}
  <2>1. issued \in Seq(0 .. MaxDay) /\ Len(issued) = Len(status) /\ DOMAIN issued = Orders
    BY <1>3, OrdersAre DEF SeqsOK
  <2> QED
    BY <2>1, <1>2, <1>3, <1>4
<1>8. Grows
  <2>1. SeqsOK'
    BY <1>3, <1>6, <1>7 DEF SeqsOK, RecordType
  <2>2. Len(status) \in Nat
    BY <1>3, OrdersAre
  <2> QED
    BY <2>1, <2>2, <1>3, <1>6, <1>7 DEF Grows
<1>9. r \in TaskType'
  BY <1>6 DEF TaskType
<1>10. TaskOK(r)' /\ ~ Awaits(r)' /\ r.pc \notin {"off", "serving", "upsert"}
  BY <1>1, <1>2, <1>3, <1>4, <1>5, <1>6, <1>7 DEF TaskOK, Certified, Awaits, Ordering, Finished
<1>11. Posting' \subseteq Posting
  BY <1>3, <1>5, <1>10 DEF Posting
<1>12. Len(records') + Cardinality(Posting') <= Cardinality(Running) + misread'
  <2>1. Len(records') <= Len(records) /\ SeqsOK'
    BY <1>3, <1>6, <1>8, OrdersAre DEF Grows
  <2> QED
    BY <2>1, <1>6, <1>11, RoomShrinks
<1> QED
  BY <1>2, <1>3, <1>5, <1>6, <1>8, <1>9, <1>10, <1>12, Moves

(* A POST takes the room its actor had kept; a PUT makes the record found  *)
(* that of its order.                                                      *)
LEMMA Upserts ==
  ASSUME Inv, NEW a \in Actors, Upsert(a)
  PROVE  Inv' /\ Running' = Running
<1>1. task[a].pc = "upsert" /\ UNCHANGED <<served, files, ca, limits>>
  BY DEF Upsert
<1>2. /\ SeqsOK /\ TaskOK(task[a]) /\ task[a] \in TaskType /\ task \in [Actors -> TaskType]
      /\ {certFile, keyFile} \subseteq {None, Torn} \cup Orders /\ Certified(certFile)
      /\ served \in [Resolvers -> ServedType] /\ faults \in 0 .. MaxFaults
      /\ day \in 0 .. MaxDay /\ Len(status) <= MaxOrders
  BY Tasks DEF Inv, TypeOK, CertsOK, ServedType
<1>3. PICK n : n = Order(a) /\ n \in Orders /\ n = task[a].order
  BY <1>1, <1>2 DEF TaskOK, Ordering, Order
<1>4. /\ Orders' = Orders /\ status' = status /\ issued' = issued /\ day' = day
      /\ served' = served /\ certFile' = certFile /\ keyFile' = keyFile /\ faults' = faults
      /\ misread' = misread /\ misread' \in Nat
  BY <1>1, Misread DEF Orders, files, ca, limits
<1>5. CASE GiveUp(a) /\ UNCHANGED records
  BY <1>1, <1>2, <1>4, <1>5, GivesUp DEF files, ca, limits
<1>6. ASSUME Placed(a), records' \in Seq(RecordType), Published(n)',
             Len(records') + Cardinality(Posting') <= Cardinality(Running) + misread'
      PROVE  Inv' /\ Running' = Running
  <2>1. PICK r : r = [task[a] EXCEPT !.pc = "ready", !.placed = TRUE]
    OBVIOUS
  <2>2. task' = [task EXCEPT ![a] = r]
    BY <1>2, <1>6, <2>1 DEF Placed
  <2>3. r \in TaskType /\ r.pc = "ready" /\ r.order = n /\ r.seen = task[a].seen
    BY <1>2, <1>3, <2>1 DEF TaskType, Labels, Requests
  <2>4. r \in TaskType' /\ TaskOK(r)'
    BY <1>2, <1>3, <1>4, <2>3 DEF TaskType, TaskOK, Certified, Ordering, Finished
  <2>5. Grows
    <3>1. SeqsOK'
      BY <1>2, <1>4, <1>6 DEF SeqsOK, RecordType
    <3>2. Len(status) \in Nat
      BY <1>2, OrdersAre
    <3> QED
      BY <3>1, <3>2, <1>2, <1>4 DEF Grows
  <2>6. Published(r.order)'
    BY <1>6, <2>3
  <2> QED
    BY <1>1, <1>2, <1>4, <1>6, <2>2, <2>3, <2>4, <2>5, <2>6, Moves
<1>7. ASSUME Placed(a) PROVE Posting' = Posting \ {a}
  BY <1>2, <1>7 DEF Placed, Posting
<1>8. CASE task[a].found = None /\ records' = Append(records, Record(n)) /\ Placed(a)
  <2>1. /\ records \in Seq(RecordType) /\ Record(n) \in RecordType /\ Len(records) \in Nat
    BY <1>2, <1>3, OrdersAre DEF SeqsOK, Record, RecordType
  <2>2. /\ records' \in Seq(RecordType) /\ Len(records') = Len(records) + 1
        /\ DOMAIN records' = 1 .. Len(records) + 1 /\ records'[Len(records) + 1] = Record(n)
    BY <1>8, <2>1
  <2>3. Published(n)'
    BY <2>1, <2>2 DEF Published, Record
  <2>4. Len(records') + Cardinality(Posting') <= Cardinality(Running) + misread'
    <3>1. a \in Posting /\ Posting' = Posting \ {a}
      BY <1>1, <1>7, <1>8 DEF Posting
    <3>2. Posting \in SUBSET Actors /\ Running \in SUBSET Actors
      BY Posts DEF Posting
    <3>3. IsFiniteSet(Posting) /\ Cardinality(Posting) \in Nat /\ Cardinality(Running) \in Nat
      BY <3>2, ActorSets
    <3>4. Cardinality(Posting') = Cardinality(Posting) - 1
      BY <3>1, <3>3, FS_RemoveElement
    <3> QED
      BY <3>3, <3>4, <2>1, <2>2, <1>4 DEF Inv, Room
  <2> QED
    BY <1>6, <1>8, <2>2, <2>3, <2>4
<1>9. ASSUME NEW i \in DOMAIN records, records' = [records EXCEPT ![i].value = n], Placed(a)
      PROVE  Inv' /\ Running' = Running
  <2>1. records \in Seq(RecordType) /\ Len(records) \in Nat /\ i \in 1 .. Len(records)
    BY <1>2, OrdersAre DEF SeqsOK
  <2>2. PICK e : e = [records[i] EXCEPT !.value = n]
    OBVIOUS
  <2>3. records[i] \in RecordType
    BY <2>1
  <2>4. e \in RecordType /\ e.value = n
    BY <2>2, <2>3, <1>3 DEF RecordType
  <2>5. records' = [records EXCEPT ![i] = e]
    BY <1>9, <2>2
  <2>6. /\ records' \in Seq(RecordType) /\ Len(records') = Len(records)
        /\ DOMAIN records' = DOMAIN records /\ records'[i] = e
    BY <2>1, <2>4, <2>5
  <2>7. Published(n)'
    BY <1>9, <2>4, <2>6 DEF Published
  <2>8. Len(records') + Cardinality(Posting') <= Cardinality(Running) + misread'
    <3>1. SeqsOK' /\ Posting' \subseteq Posting /\ Len(records') <= Len(records)
      BY <1>2, <1>4, <1>7, <1>9, <2>1, <2>6 DEF SeqsOK, RecordType
    <3> QED
      BY <3>1, <1>4, RoomShrinks
  <2> QED
    BY <1>6, <1>9, <2>6, <2>7, <2>8
<1> QED
  BY <1>3, <1>5, <1>8, <1>9 DEF Upsert

LEMMA Removal ==
  ASSUME NEW S, NEW s \in Seq(S), NEW i \in 1 .. Len(s)
  PROVE  RemoveAt(s, i) \in Seq(S) /\ Len(RemoveAt(s, i)) = Len(s) - 1
<1>1. PICK A, B : A = SubSeq(s, 1, i - 1) /\ B = SubSeq(s, i + 1, Len(s))
  OBVIOUS
<1>2. A \in Seq(S) /\ Len(A) = i - 1 /\ B \in Seq(S) /\ Len(B) = Len(s) - i
  BY <1>1
<1>3. A \o B \in Seq(S) /\ Len(A \o B) = (i - 1) + (Len(s) - i)
  BY <1>2
<1>4. RemoveAt(s, i) = A \o B
  BY <1>1 DEF RemoveAt
<1> QED
  BY <1>3, <1>4

LEMMA CleansUp ==
  ASSUME Inv, NEW a \in Actors, Cleanup(a)
  PROVE  Inv' /\ Running' = Running
<1>1. /\ task[a].pc = "delete" /\ Goto(a, "store") /\ UNCHANGED <<served, files, ca, day>>
      /\ faults' = faults \/ (faults < MaxFaults /\ faults' = faults + 1)
      /\ misread' = misread /\ misread' \in Nat
      /\ \/ records' = records
         \/ \E i \in DOMAIN records : records' = RemoveAt(records, i)
  BY Misread DEF Cleanup, FaultHappens
<1>2. /\ SeqsOK /\ TaskOK(task[a]) /\ task[a] \in TaskType /\ task \in [Actors -> TaskType]
      /\ {certFile, keyFile} \subseteq {None, Torn} \cup Orders /\ Certified(certFile)
      /\ served \in [Resolvers -> ServedType] /\ faults \in 0 .. MaxFaults
      /\ day \in 0 .. MaxDay /\ Len(status) <= MaxOrders
  BY Tasks DEF Inv, TypeOK, CertsOK, ServedType
<1>3. PICK r \in TaskType :
        /\ task' = [task EXCEPT ![a] = r] /\ r.pc = "store" /\ r.seen = task[a].seen
        /\ r.order = task[a].order
  BY <1>1, Relabels DEF Labels
<1>4. /\ Orders' = Orders /\ status' = status /\ issued' = issued /\ day' = day
      /\ served' = served /\ certFile' = certFile /\ keyFile' = keyFile
      /\ faults' \in 0 .. MaxFaults
  BY <1>1, <1>2, Constants DEF Orders, files, ca
<1>5. records' \in Seq(RecordType) /\ Len(records') <= Len(records)
  <2>1. /\ records \in Seq(RecordType) /\ Len(records) \in Nat
        /\ DOMAIN records = 1 .. Len(records)
    BY <1>2, OrdersAre DEF SeqsOK
  <2>2. CASE records' = records
    BY <2>1, <2>2
  <2>3. ASSUME NEW i \in DOMAIN records, records' = RemoveAt(records, i)
        PROVE  records' \in Seq(RecordType) /\ Len(records') <= Len(records)
    BY <2>1, <2>3, Removal
  <2> QED
    BY <2>2, <2>3, <1>1
<1>6. Grows
  <2>1. SeqsOK'
    BY <1>2, <1>4, <1>5 DEF SeqsOK, RecordType
  <2>2. Len(status) \in Nat
    BY <1>2, OrdersAre
  <2> QED
    BY <2>1, <2>2, <1>2, <1>4 DEF Grows
<1>7. r \in TaskType' /\ TaskOK(r)' /\ ~ Awaits(r)'
  BY <1>1, <1>2, <1>3, <1>4 DEF TaskType, TaskOK, Certified, Awaits, Ordering, Finished
<1>8. Posting' \subseteq Posting
  BY <1>2, <1>3 DEF Posting
<1>9. Len(records') + Cardinality(Posting') <= Cardinality(Running) + misread'
  BY <1>1, <1>5, <1>6, <1>8, RoomShrinks DEF Grows
<1> QED
  BY <1>1, <1>2, <1>3, <1>4, <1>6, <1>7, <1>9, Moves

(* The CA finds the record of an order that runs alone.                    *)
LEMMA Validates ==
  ASSUME Inv, NEW a \in Actors, Validate(a)
  PROVE  Inv' /\ Running' = Running
<1>1. PICK n, s :
        /\ n = Order(a) /\ s = IF Published(n) THEN "ready" ELSE "invalid"
        /\ status[n] = "pending" /\ status' = [status EXCEPT ![n] = s]
  BY DEF Validate, Published
<1>2. /\ task[a].pc = "poll" /\ task' = task /\ served' = served /\ records' = records
      /\ issued' = issued /\ certFile' = certFile /\ keyFile' = keyFile
      /\ day' = day /\ faults' = faults /\ misread' = misread
  BY DEF Validate, files, limits
<1>3. SeqsOK /\ TypeOK /\ TaskOK(task[a])
  BY Tasks DEF Inv
<1>4. n \in Orders /\ n = task[a].order
  BY <1>1, <1>2, <1>3 DEF TaskOK, Ordering, Order
<1>5. /\ status' \in Seq(States) /\ Len(status') = Len(status) /\ status'[n] = s
      /\ \A m \in Orders \ {n} : status'[m] = status[m]
  <2>1. status \in Seq(States) /\ Orders = 1 .. Len(status) /\ s \in States
    BY <1>1, <1>3, OrdersAre DEF SeqsOK, States
  <2> QED
    BY <2>1, <1>1, <1>4
<1>6. Orders' = Orders
  BY <1>3, <1>5, OrdersAre DEF Orders
<1>7. SeqsOK'
  BY <1>2, <1>3, <1>5, <1>6 DEF SeqsOK, RecordType
<1>8. TypeOK'
  <2>1. status' \in [Orders' -> States]
    BY <1>5, <1>6, <1>7, SeqIs, OrdersNext
  <2> QED
    BY <1>2, <1>3, <1>5, <1>6, <2>1 DEF TypeOK, States
<1>9. \A m \in Orders : status[m] = "ready" => status'[m] = "ready"
  BY <1>1, <1>5
<1>10. \A c : Certified(c) => Certified(c)'
  BY <1>6, <1>9 DEF Certified
<1>11. CertsOK' /\ TasksOK'
  <2>1. CertsOK'
    <3>1. Certified(certFile)'
      <4>1. PICK c : c = certFile
        OBVIOUS
      <4> QED
        BY <4>1, <1>2, <1>10 DEF Inv, CertsOK
    <3> QED
      BY <3>1, <1>2, <1>6 DEF Inv, CertsOK
  <2>2. ASSUME NEW b \in Actors PROVE TaskOK(task[b])'
    <3>1. PICK r : r = task[b] /\ TaskOK(r)
      BY Tasks
    <3>2. TaskOK(r)'
      BY <3>1, <1>2, <1>6, <1>9, <1>10 DEF TaskOK
    <3> QED
      BY <3>1, <3>2, <1>2
  <2> QED
    BY <2>1, <2>2 DEF TasksOK
<1>12. ServedOK'
  BY <1>2, <1>6, <1>9 DEF Inv, ServedOK, Fresh
<1>13. Running' = Running /\ Room'
  BY <1>2 DEF Inv, Room, Posting, Running, Off
<1>14. Alone'
  <2> SUFFICES ASSUME NEW b \in Running', Running' = {b}
               PROVE  /\ \A m \in Orders' : status'[m] # "invalid"
                      /\ ~ Awaits(task[b])'
    BY DEF Alone
  <2>1. b = a /\ Running = {a}
    BY <1>2, <1>13 DEF Running, Off
  <2>2. Published(n) /\ \A m \in Orders : status[m] # "invalid"
    BY <2>1, <1>1, <1>2, <1>4 DEF Inv, Alone, Awaits
  <2>3. status'[n] = "ready"
    BY <2>2, <1>1, <1>5
  <2> QED
    BY <2>1, <2>2, <2>3, <1>2, <1>4, <1>5, <1>6 DEF Awaits
<1> QED
  BY <1>7, <1>8, <1>11, <1>12, <1>13, <1>14 DEF Inv

LEMMA DayPasses ==
  ASSUME Inv, NextDay
  PROVE  Inv' /\ Running' = Running
<1>1. /\ \A a \in Actors : task[a].pc \in {"sleep", "serving", "failed", "off"}
      /\ day < MaxDay /\ day' = day + 1 /\ task' = task /\ served' = served
      /\ certFile' = certFile /\ keyFile' = keyFile /\ records' = records
      /\ status' = status /\ issued' = issued /\ faults' = faults
      /\ misread' = misread
  BY DEF NextDay, files, ca
<1>2. Orders' = Orders
  BY <1>1 DEF Orders
<1>3. TypeOK' /\ SeqsOK'
  <2>1. day \in 0 .. MaxDay
    BY DEF Inv, TypeOK
  <2>2. day' \in 0 .. MaxDay
    BY <2>1, <1>1, Constants
  <2> QED
    BY <2>2, <1>1, <1>2 DEF Inv, TypeOK, SeqsOK, RecordType
<1>4. CertsOK'
  <2>1. day \in Nat /\ \A n \in Orders : issued[n] \in Nat
    BY Constants DEF Inv, TypeOK
  <2> QED
    BY <2>1, <1>1, <1>2 DEF Inv, CertsOK, Certified
<1>5. TasksOK'
  BY <1>1, <1>2 DEF Inv, TasksOK, TaskOK, Certified, Ordering, Finished
<1>6. ServedOK' /\ Running' = Running /\ Room' /\ Alone'
  BY <1>1, <1>2 DEF Inv, ServedOK, Fresh, Room, Posting, Alone, Awaits, Published, Running, Off
<1> QED
  BY <1>3, <1>4, <1>5, <1>6 DEF Inv

LEMMA Crashes ==
  ASSUME Inv, Crash
  PROVE  Inv' /\ Running' = Running
<1>1. /\ task' = [a \in Actors |-> IF Off(a) THEN task[a] ELSE Start(a)]
      /\ served' = [a \in Resolvers |-> Nothing]
      /\ faults < MaxFaults /\ faults' = faults + 1
      /\ certFile' = certFile /\ keyFile' = keyFile /\ records' = records
      /\ status' = status /\ issued' = issued /\ day' = day /\ misread' = misread
  BY DEF Crash, FaultHappens, files, ca
<1>2. Orders' = Orders /\ SeqsOK /\ TypeOK
  BY <1>1 DEF Orders, Inv
<1>3. \A a \in Actors :
        /\ Start(a) \in TaskType /\ TaskOK(Start(a))
        /\ Start(a).pc \in {"sleep", "load"}
  <2> SUFFICES ASSUME NEW a \in Actors
               PROVE  /\ Start(a) \in TaskType /\ TaskOK(Start(a))
                      /\ Start(a).pc \in {"sleep", "load"}
    OBVIOUS
  <2>1. PICK l \in {"sleep", "load"} : Start(a) = At(l)
    BY DEF Start
  <2>2. l \in Labels /\ l \notin Ordering \cup Finished
    BY DEF Labels, Ordering, Finished
  <2> QED
    BY <2>1, <2>2, AtIs
<1>4. \A a \in Actors :
        /\ task'[a] \in TaskType /\ TaskOK(task'[a])
        /\ task'[a].pc \in {"off", "sleep", "load"}
        /\ task'[a].pc = "off" <=> task[a].pc = "off"
  BY <1>1, <1>3, Tasks DEF Off
<1>5. TypeOK' /\ SeqsOK'
  <2>1. task' \in [Actors -> TaskType]
    BY <1>1, <1>4
  <2>2. served' \in [Resolvers -> ServedType]
    BY <1>1 DEF Nothing, ServedType, None
  <2>3. faults' \in 0 .. MaxFaults
    BY <1>1, <1>2, Constants DEF TypeOK
  <2> QED
    BY <1>1, <1>2, <2>1, <2>2, <2>3 DEF TypeOK, SeqsOK, RecordType, TaskType, ServedType
<1>6. CertsOK'
  BY <1>1, <1>2 DEF Inv, CertsOK, Certified
<1>7. TasksOK'
  BY <1>1, <1>2, <1>4 DEF TasksOK, TaskOK, Certified
<1>8. ServedOK' /\ Alone'
  <2>1. Running' = Running
    BY <1>4 DEF Running, Off
  <2>2. \A a \in Actors : task'[a].pc \notin {"serving", "ready", "poll"}
    BY <1>4
  <2>3. ServedOK'
    BY <2>2, Constants DEF ServedOK
  <2> QED
    BY <2>1, <2>2, <2>3, <1>1, <1>2 DEF Inv, Alone, Awaits, Running
<1>9. Running' = Running
  BY <1>4 DEF Running, Off
<1>10. Room'
  <2>1. Posting' = {} /\ Posting' \subseteq Posting /\ Len(records') <= Len(records)
    BY <1>1, <1>2, <1>4, OrdersAre DEF Posting
  <2> QED
    BY <2>1, <1>1, <1>5, <1>9, RoomShrinks DEF Room
<1> QED
  BY <1>5, <1>6, <1>7, <1>8, <1>9, <1>10 DEF Inv

LEMMA NextInv == Inv /\ [Next]_vars => Inv' /\ Running' = Running
<1> SUFFICES ASSUME Inv, [Next]_vars PROVE Inv' /\ Running' = Running
  OBVIOUS
<1>1. ASSUME NEW a \in Actors, Step(a) \/ Fault(a) \/ Validate(a)
      PROVE  Inv' /\ Running' = Running
  BY <1>1, Wakes, LoadsCert, LoadsKey, MakesOrder, FindsRecord, Upserts, SetsReady,
     PollsAgain, Fails, Finalizes, CleansUp, Writes, Stores, Validates DEF Step
<1>2. CASE NextDay \/ Crash
  BY <1>2, DayPasses, Crashes
<1>3. CASE UNCHANGED vars
  <2>1. /\ UNCHANGED <<task, served, certFile, keyFile, records, status, issued, day, faults,
                       misread>>
        /\ Orders' = Orders
    BY <1>3 DEF vars, files, ca, limits, Orders
  <2>2. TypeOK' /\ SeqsOK'
    BY <2>1 DEF Inv, TypeOK, SeqsOK, RecordType
  <2>3. CertsOK' /\ TasksOK' /\ ServedOK'
    BY <2>1 DEF Inv, CertsOK, TasksOK, TaskOK, Certified, ServedOK, Fresh
  <2>4. Room' /\ Alone' /\ Running' = Running
    BY <2>1 DEF Inv, Room, Posting, Alone, Awaits, Published, Running, Off
  <2> QED
    BY <2>2, <2>3, <2>4 DEF Inv
<1> QED
  BY <1>1, <1>2, <1>3 DEF Next

LEMMA Invariance == Spec => []Inv
<1>1. Inv /\ [Next]_vars => Inv'
  BY NextInv
<1> QED
  BY <1>1, InitInv, PTL DEF Spec

(* However the cache's files are torn and the process crashes, a listener  *)
(* starts with the certificate of a finished order that was not about to   *)
(* expire when it was read or fetched (cert_source.rs, cache.rs).          *)
THEOREM ResolvedIsFreshHolds == Spec => []ResolvedIsFresh
<1>1. Inv => ResolvedIsFresh
  BY DEF Inv, ServedOK, Fresh, ResolvedIsFresh
<1> QED
  BY <1>1, Invariance, PTL

(* The TXT name all orders share: the records are never more than the      *)
(* actors that run and the lookups whose error was taken for "no record",  *)
(* and an actor that runs alone is never refused for want of its record    *)
(* (find_record, upsert_txt and delete_txt, dns.rs).                       *)
THEOREM SharedNameHolds == Spec => []SharedName
<1>1. Inv => SharedName
  <2> SUFFICES ASSUME Inv PROVE RecordsBounded /\ AloneIsValidated
    BY DEF Inv, SharedName
  <2>1. Running \in SUBSET Actors /\ Posting \in SUBSET Actors
    BY DEF Running, Posting
  <2>2. /\ IsFiniteSet(Running) /\ Cardinality(Running) \in Nat /\ Cardinality(Posting) \in Nat
    BY <2>1, ActorSets
  <2>3. Len(records) \in Nat
    BY OrdersAre DEF Inv
  <2>4. RecordsBounded
    BY <2>2, <2>3, Misread DEF Inv, Room, RecordsBounded
  <2>5. AloneIsValidated
    <3> SUFFICES ASSUME Cardinality(Running) = 1
                 PROVE  \A n \in Orders : status[n] # "invalid"
      BY DEF AloneIsValidated
    <3>1. PICK a : Running = {a}
      BY <2>2, FS_Singleton
    <3> QED
      BY <3>1 DEF Inv, Alone
  <2> QED
    BY <2>4, <2>5
<1> QED
  BY <1>1, Invariance, PTL
=============================================================================

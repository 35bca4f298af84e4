--------------------------- MODULE KeyStoreProofs ---------------------------
(***************************************************************************)
(* Proofs about KeyStore, for any identities, any number of processes and  *)
(* any command lines; and about IdbPib, for any tabs, names and keys.      *)
(***************************************************************************)
EXTENDS MCKeyStores, Sequences, TLAPS

(* Names that have a key, or had one until it was deleted.                 *)
Known == Filed(keys) \cup seen.gone

StoreType == [Names -> Pairs \cup {NoKey}]
SeenType == [made : [Names -> SUBSET Pairs], apart : SUBSET Names, live : [Procs -> SUBSET Procs],
             blind : SUBSET Procs, removed : SUBSET Ids, second : SUBSET Ids, gone : SUBSET Names]
FwdType == [at : {"off", "certify", "load"}, id : Ids \cup {NoKey}, pair : Fresh \cup {NoKey},
            trust : Seq(SUBSET Ids)]
TypesOK ==
  /\ keys \in StoreType /\ certs \in StoreType /\ anchors \in StoreType
  /\ seen \in SeenType /\ fwd \in FwdType
  /\ proc = [p \in Procs |-> proc[p]]

(* What is filed or packed under a name was generated under it; of ndn-sec *)
(* names that is one key pair.                                             *)
OneKey ==
  /\ \A n \in Names : {keys[n], certs[n], anchors[n]} \subseteq seen.made[n] \cup {NoKey}
  /\ \A n \in Names : n[2] # Daemon => seen.made[n] \subseteq {n[2]}
  /\ \A b \in bags : /\ b.name \in Names /\ b.key \in seen.made[b.name] /\ b.cert \in seen.made[b.name]
                     /\ b.name[2] # Foreign => b.name \in Known

(* Under the forwarder's name, key and certificate differ only between its *)
(* two writes, or once something has met it there.                         *)
Paired ==
  /\ \A n \in Names : n[2] = Daemon /\ n \notin seen.apart \cup Between => NoKey \in {keys[n], certs[n]} \/ keys[n] = certs[n]
  /\ \A b \in bags : b.name[2] = Daemon /\ b.name \notin seen.apart => b.key = b.cert
  /\ fwd.at = "certify" => /\ fwd.id \in Ids /\ fwd.pair \in seen.made[<<fwd.id, Daemon>>]
                           /\ \A n \in Between : n \in seen.apart \/ keys[n] \in {NoKey, fwd.pair}

(* What a process is and what it holds of a name.                          *)
OnFound == {"delete", "anchor", "unanchor", "export"}
Carrying == {"certify", "add"} \cup OnFound
Holding(r, known, made) ==
  /\ r.at # "idle" => r.cmd \in Commands
  /\ r.at = "find" => r.cmd.do \in OnFound
  /\ r.at \in Carrying =>
        r = [at |-> r.at, cmd |-> r.cmd, name |-> r.name, pair |-> r.pair] /\ r.name \in known
  /\ r.at \notin Carrying \cup {"idle"} => r = [at |-> r.at, cmd |-> r.cmd]
  /\ r.at \in {"certify", "add"} => r.pair \in made[r.name]
  /\ r.at = "certify" => r.name[2] # Daemon
  /\ r.at \in OnFound => r.name[1] = r.cmd.id
HoldersOK == \A p \in Procs : Holding(proc[p], Known, seen.made)

(* An identity of which two names are known has had two; a name that is    *)
(* anchored is known.                                                      *)
Seconds ==
  /\ Filed(anchors) \subseteq Known
  /\ \A n, m \in Known : n[1] = m[1] /\ n # m => n[1] \in seen.second

(* A process that has not written has no name.                             *)
Early == {"idle", "check", "generate"}
Unwritten == \A p \in Procs : \A i \in Ids : proc[p].at \in Early => <<i, p>> \notin Known

(* Two that may both leave a key looked while the other was about to write, *)
(* or did not see the keys.                                                *)
Rival(p) ==
  /\ proc[p].at # "idle" /\ proc[p].cmd.skip
  /\ proc[p].at = "generate" \/ BuildCertName(p) \in Filed(keys) \ seen.gone
Rivals ==
  \A p, q \in Procs :
    p # q /\ Rival(p) /\ Rival(q) /\ proc[p].cmd.id = proc[q].cmd.id
      => p \in seen.live[q] \/ q \in seen.live[p] \/ {p, q} \cap seen.blind # {}

Inv == TypesOK /\ OneKey /\ Paired /\ HoldersOK /\ Seconds /\ Unwritten /\ Rivals /\ RemovedStaysOut

LEMMA NamesAre ==
  /\ \A n \in Names : n[1] \in Ids /\ n[2] \in KeyIds /\ n = <<n[1], n[2]>>
  /\ \A i \in Ids, k \in KeyIds : <<i, k>> \in Names
  /\ Known \subseteq Names \/ ~TypesOK
  /\ NoKey \notin KeyIds /\ NoKey \notin Pairs /\ Daemon \notin Procs /\ Daemon # Foreign
BY KeyStoreAssumption DEF Pairs, KeyIds, Names, Known, Filed, TypesOK, SeenType, KeyStoreAssumption

LEMMA InitInv == Init => Inv
<1> SUFFICES ASSUME Init PROVE Inv
  OBVIOUS
<1>1. TypesOK
  <2>1. proc = [p \in Procs |-> [at |-> "idle"]]
    BY DEF Init
  <2>2. \A p \in Procs : proc[p] = [at |-> "idle"]
    BY <2>1
  <2>3. proc = [p \in Procs |-> proc[p]]
    BY <2>1
  <2>4. [n \in Names |-> {Foreign} \cap {n[2]}] \in [Names -> SUBSET Pairs]
    BY DEF Pairs
  <2>5. fwd \in FwdType
    BY DEF Init, Off, FwdType
  <2> QED
    BY <2>3, <2>4, <2>5 DEF Init, TypesOK, StoreType, SeenType
<1>2. \A n \in Names : keys[n] = NoKey /\ certs[n] = NoKey /\ anchors[n] = NoKey
  BY DEF Init
<1>3. Known = {} /\ Filed(anchors) = {}
  BY <1>2 DEF Init, Known, Filed
<1>4. \A p \in Procs : proc[p].at = "idle"
  BY DEF Init
<1>5. OneKey /\ Paired
  <2>1. \A b \in bags : b.name \in Names /\ b.name[2] = Foreign /\ b.key = Foreign /\ b.cert = Foreign
    BY NamesAre DEF Init, KeyIds
  <2>2. \A n \in Names : seen.made[n] = {Foreign} \cap {n[2]}
    BY DEF Init
  <2>3. OneKey
    <3>1. \A n \in Names : {keys[n], certs[n], anchors[n]} \subseteq seen.made[n] \cup {NoKey}
      BY <1>2
    <3>2. \A n \in Names : seen.made[n] \subseteq {n[2]}
      BY <2>2
    <3>3. ASSUME NEW b \in bags
          PROVE  b.key \in seen.made[b.name] /\ b.cert \in seen.made[b.name]
      <4>1. b.name \in Names /\ b.name[2] = Foreign /\ b.key = Foreign /\ b.cert = Foreign
        BY <2>1
      <4>2. seen.made[b.name] = {Foreign} \cap {Foreign}
        BY <2>2, <4>1
      <4> QED
        BY <4>1, <4>2
    <3> QED
      BY <2>1, <3>1, <3>2, <3>3 DEF OneKey
  <2>4. fwd.at = "off" /\ Daemon # Foreign
    BY NamesAre DEF Init, Off
  <2>5. Paired
    BY <1>2, <2>1, <2>4 DEF Paired
  <2> QED
    BY <2>3, <2>5
<1>6. HoldersOK /\ Rivals
  BY <1>4 DEF HoldersOK, Holding, Carrying, OnFound, Rivals, Rival
<1> QED
  BY <1>1, <1>3, <1>5, <1>6 DEF Inv, Seconds, Unwritten, RemovedStaysOut

(* One process moves, the others stay where they are.                      *)
LEMMA Moved ==
  ASSUME TypesOK, NEW p \in Procs, NEW r, Moves(p, r)
  PROVE  /\ proc' = [q \in Procs |-> proc'[q]]
         /\ proc'[p] = r /\ \A q \in Procs \ {p} : proc'[q] = proc[q]
<1>1. proc = [q \in Procs |-> proc[q]]
  BY DEF TypesOK
<1>2. proc' = [q \in Procs |-> IF q = p THEN r ELSE proc[q]]
  BY <1>1 DEF Moves
<1> QED
  BY <1>2

(* A step that makes no name known, and after which nobody is a rival that *)
(* was not.                                                                *)
LEMMA Settles ==
  ASSUME Inv, NEW p \in Procs, NEW r, Moves(p, r), Holding(r, Known, seen.made),
         Known' = Known, seen'.made = seen.made, seen'.blind = seen.blind, Filed(keys)' \ seen'.gone \subseteq Filed(keys) \ seen.gone,
         seen'.live = seen.live,
         proc[p].at # "idle" => r.cmd = proc[p].cmd,
         r.at \in Early => proc[p].at \in Early, r.at = "generate" => proc[p].at = "generate"
  PROVE  HoldersOK' /\ Unwritten' /\ Rivals'
<1>1. proc'[p] = r /\ \A q \in Procs \ {p} : proc'[q] = proc[q]
  BY Moved DEF Inv
<1>2. HoldersOK'
  BY <1>1 DEF Inv, HoldersOK
<1>3. Unwritten'
  BY <1>1 DEF Inv, Unwritten
<1>4. ASSUME NEW q \in Procs, Rival(q)'
      PROVE  Rival(q) /\ proc'[q].cmd = proc[q].cmd
  <2>1. CASE q # p
    BY <1>1, <1>4, <2>1 DEF Rival, BuildCertName
  <2>2. CASE q = p /\ proc[p].at = "idle"
    <3>1. r.at # "idle" /\ r.at # "generate" /\ <<r.cmd.id, p>> \in Filed(keys)
      BY <1>1, <1>4, <2>2 DEF Rival, BuildCertName
    <3>2. r.cmd.id \in Ids
      BY <3>1, KeyStoreAssumption DEF Holding, KeyStoreAssumption
    <3> QED
      BY <2>2, <3>1, <3>2 DEF Inv, Unwritten, Early, Known
  <2>3. CASE q = p /\ proc[p].at # "idle"
    BY <1>1, <1>4, <2>3 DEF Rival, BuildCertName
  <2> QED
    BY <2>1, <2>2, <2>3
<1>5. Rivals'
  BY <1>4 DEF Inv, Rivals
<1> QED
  BY <1>2, <1>3, <1>5

(* A step that leaves keys, certificates and bags alone.                   *)
LEMMA PairsKept ==
  ASSUME Inv, UNCHANGED <<keys, certs, bags, fwd>>, seen'.made = seen.made, seen'.apart = seen.apart
  PROVE  Paired'
BY DEF Inv, Paired, Between

(* A step that writes nothing.                                             *)
LEMMA Quiet ==
  ASSUME Inv, NEW p \in Procs, NEW r, Moves(p, r), UNCHANGED <<keys, certs, anchors, bags, seen, fwd>>,
         Holding(r, Known, seen.made),
         proc[p].at # "idle" => r.cmd = proc[p].cmd,
         r.at \in Early => proc[p].at \in Early, r.at = "generate" => proc[p].at = "generate"
  PROVE  Inv'
<1>1. Known' = Known /\ Filed(keys)' = Filed(keys) /\ Filed(anchors)' = Filed(anchors)
  BY DEF Known, Filed
<1>2. HoldersOK' /\ Unwritten' /\ Rivals'
  BY <1>1, Settles
<1>3. TypesOK'
  BY Moved DEF Inv, TypesOK
<1>4. OneKey' /\ Seconds' /\ RemovedStaysOut'
  BY <1>1 DEF Inv, OneKey, Seconds, RemovedStaysOut
<1> QED
  BY <1>2, <1>3, <1>4, PairsKept DEF Inv

(* What ends is past what the properties look at.                          *)
LEMMA EndedHolds ==
  ASSUME NEW c \in Commands, NEW how \in {"ok", "skipped", "failed"}
  PROVE  Holding([at |-> how, cmd |-> c], Known, seen.made)
BY DEF Holding, Carrying, OnFound

LEMMA CommandOf ==
  ASSUME Inv, NEW p \in Procs, proc[p].at # "idle"
  PROVE  proc[p].cmd \in Commands /\ proc[p].cmd.id \in Ids
BY KeyStoreAssumption DEF Inv, HoldersOK, Holding, KeyStoreAssumption

LEMMA Fails ==
  ASSUME Inv, NEW p \in Procs, NEW how \in {"ok", "failed", "skipped"}, Ends(p, how), proc[p].at # "idle",
         UNCHANGED <<keys, certs, anchors, bags, seen, fwd>>
  PROVE  Inv'
<1> DEFINE r == [at |-> how, cmd |-> proc[p].cmd]
<1>1. Holding(r, Known, seen.made)
  BY CommandOf, EndedHolds
<1>2. Moves(p, r) /\ r.cmd = proc[p].cmd /\ r.at \notin Early
  BY DEF Ends, Early
<1> HIDE DEF r
<1> QED
  BY <1>1, <1>2, Quiet DEF Early

LEMMA Starts ==
  ASSUME Inv, NEW p \in Procs, Start(p)
  PROVE  Inv'
<1>1. PICK c \in Commands :
        Moves(p, [at |-> CASE c.do = "keygen" -> "check"
                             [] c.do = "import" -> "store"
                             [] OTHER -> IF created THEN "find" ELSE "failed",
                  cmd |-> c])
  BY DEF Start
<1>2. PICK l \in {"check", "store", "find", "failed"} :
        Moves(p, [at |-> l, cmd |-> c]) /\ (l = "find" => c.do \in OnFound)
  <2>1. c.do \in {"keygen", "import"} \cup OnFound
    BY KeyStoreAssumption DEF KeyStoreAssumption, OnFound
  <2>2. CASE c.do = "keygen"
    BY <1>1, <2>2
  <2>3. CASE c.do = "import"
    BY <1>1, <2>3
  <2>4. CASE c.do \in OnFound
    BY <1>1, <2>4 DEF OnFound
  <2> QED
    BY <2>1, <2>2, <2>3, <2>4
<1>3. proc[p].at = "idle" /\ UNCHANGED <<keys, certs, anchors, bags, fwd, seen>>
  BY DEF Start, At
<1>4. Holding([at |-> l, cmd |-> c], Known, seen.made)
  BY <1>2 DEF Holding, Carrying, OnFound
<1> QED
  BY <1>2, <1>3, <1>4, Quiet DEF Early

LEMMA Finds ==
  ASSUME Inv, NEW p \in Procs, Find(p)
  PROVE  Inv'
<1>1. proc[p].at = "find" /\ UNCHANGED <<keys, certs, anchors, bags, fwd, seen>>
  BY DEF Find, At, pib
<1>2. CASE Ends(p, "failed")
  BY <1>1, <1>2, Fails
<1>3. CASE \E n \in FindCertName(proc[p].cmd.id) : Holds(p, proc[p].cmd.do, n, NoKey)
  <2>1. PICK n \in FindCertName(proc[p].cmd.id) : Holds(p, proc[p].cmd.do, n, NoKey)
    BY <1>3
  <2>2. n \in Known /\ n[1] = proc[p].cmd.id
    BY DEF FindCertName, Known
  <2> DEFINE r == [at |-> proc[p].cmd.do, cmd |-> proc[p].cmd, name |-> n, pair |-> NoKey]
  <2>3. proc[p].cmd \in Commands /\ proc[p].cmd.do \in OnFound
    BY <1>1, CommandOf DEF Inv, HoldersOK, Holding
  <2>4. Holding(r, Known, seen.made)
    BY <2>2, <2>3 DEF Holding, Carrying, OnFound
  <2>5. Moves(p, r) /\ r.at \notin Early /\ r.cmd = proc[p].cmd
    BY <2>1, <2>3 DEF Holds, OnFound, Early
  <2> HIDE DEF r
  <2> QED
    BY <1>1, <2>4, <2>5, Quiet DEF Early
<1> QED
  BY <1>2, <1>3 DEF Find

LEMMA SeenIs ==
  ASSUME TypesOK
  PROVE  seen = [made |-> seen.made, apart |-> seen.apart, live |-> seen.live, blind |-> seen.blind,
                 removed |-> seen.removed, second |-> seen.second, gone |-> seen.gone]
BY DEF TypesOK, SeenType

(* cmd_export: between the forwarder's two writes it packs what does not   *)
(* belong together.                                                        *)
LEMMA Exports ==
  ASSUME Inv, NEW p \in Procs, Export(p)
  PROVE  Inv'
<1> DEFINE n == proc[p].name
           b0 == [name |-> n, key |-> keys[n], cert |-> certs[n]]
           r == [at |-> "ok", cmd |-> proc[p].cmd]
<1>1. proc[p].at = "export" /\ UNCHANGED <<keys, certs, anchors, fwd>>
  BY DEF Export, At, pib
<1>2. n \in Known /\ proc[p].cmd \in Commands
  BY <1>1, CommandOf DEF Inv, HoldersOK, Holding, Carrying, OnFound
<1>3. CASE Ends(p, "failed") /\ UNCHANGED <<bags, seen>>
  BY <1>1, <1>3, Fails
<1>4. CASE /\ n \in Filed(keys) /\ n \in Filed(certs) /\ bags' = bags \cup {b0}
           /\ seen' = [seen EXCEPT !.apart = @ \cup (Between \cap {n})] /\ Moves(p, r)
  <2>1. seen' = [made |-> seen.made, apart |-> seen.apart \cup (Between \cap {n}), live |-> seen.live,
                 blind |-> seen.blind, removed |-> seen.removed, second |-> seen.second, gone |-> seen.gone]
    BY <1>4, SeenIs DEF Inv
  <2>2. Known' = Known /\ Filed(keys)' = Filed(keys) /\ Filed(anchors)' = Filed(anchors)
    BY <1>1, <2>1 DEF Known, Filed
  <2>3. n \in Names /\ keys[n] # NoKey /\ certs[n] # NoKey
    BY <1>4 DEF Filed
  <2>4. OneKey'
    <3>1. {keys[n], certs[n]} \subseteq seen.made[n]
      BY <2>3 DEF Inv, OneKey
    <3> QED
      BY <1>1, <1>2, <1>4, <2>1, <2>2, <2>3, <3>1 DEF Inv, OneKey
  <2>5. Paired'
    <3>1. n[2] = Daemon /\ n \notin seen'.apart => keys[n] = certs[n]
      BY <2>1, <2>3 DEF Inv, Paired
    <3>2. \A b \in bags' : b.name[2] = Daemon /\ b.name \notin seen'.apart => b.key = b.cert
      BY <1>4, <2>1, <3>1 DEF Inv, Paired
    <3> QED
      BY <1>1, <2>1, <3>2 DEF Inv, Paired, Between
  <2>6. Holding(r, Known, seen.made) /\ r.cmd = proc[p].cmd /\ r.at = "ok"
    BY <1>2, EndedHolds
  <2>7. HoldersOK' /\ Unwritten' /\ Rivals'
    <3> HIDE DEF r
    <3> QED
      BY <1>1, <1>4, <2>1, <2>2, <2>6, Settles DEF Early
  <2>8. TypesOK'
    <3>1. seen' \in SeenType
      BY <2>1, <2>3 DEF Inv, TypesOK, SeenType
    <3> HIDE DEF r
    <3> QED
      BY <1>1, <1>4, <3>1, Moved DEF Inv, TypesOK
  <2>9. Seconds' /\ RemovedStaysOut'
    BY <2>1, <2>2 DEF Inv, Seconds, RemovedStaysOut
  <2> QED
    BY <2>4, <2>5, <2>7, <2>8, <2>9 DEF Inv
<1> QED
  BY <1>3, <1>4 DEF Export, Ends

LEMMA Kills ==
  ASSUME Inv, NEW p \in Procs, Kill(p)
  PROVE  Inv'
<1>1. proc[p].at # "idle" /\ UNCHANGED <<keys, certs, anchors, bags, fwd, seen>> /\ Ends(p, "failed")
  BY DEF Kill, Running, pib
<1> QED
  BY <1>1, Fails

LEMMA Anchors ==
  ASSUME Inv, NEW p \in Procs, Anchor(p)
  PROVE  Inv'
<1>1. proc[p].at = "anchor" /\ UNCHANGED <<keys, certs, anchors, bags, fwd, seen>>
  BY DEF Anchor, At, pib
<1>2. CASE Ends(p, "failed")
  BY <1>1, <1>2, Fails
<1> DEFINE n == proc[p].name
           r == [at |-> "add", cmd |-> proc[p].cmd, name |-> n, pair |-> certs[n]]
<1>3. CASE certs[n] # NoKey /\ Moves(p, r)
  <2>1. n \in Known /\ proc[p].cmd \in Commands
    BY <1>1, CommandOf DEF Inv, HoldersOK, Holding, Carrying, OnFound
  <2>2. certs[n] \in seen.made[n]
    BY <1>3, <2>1, NamesAre DEF Inv, OneKey
  <2>3. Holding(r, Known, seen.made)
    BY <2>1, <2>2 DEF Holding, Carrying, OnFound
  <2>4. r.at \notin Early /\ r.cmd = proc[p].cmd
    BY DEF Early
  <2> HIDE DEF r
  <2> QED
    BY <1>1, <1>3, <2>3, <2>4, Quiet DEF Early
<1> QED
  BY <1>2, <1>3 DEF Anchor, Holds

LEMMA RivalsKept ==
  ASSUME Inv, seen'.live = seen.live, seen'.blind = seen.blind,
         \A q \in Procs : Rival(q)' => Rival(q) /\ proc'[q].cmd = proc[q].cmd
  PROVE  Rivals'
BY DEF Inv, Rivals

(* keygen looks (--skip-if-exists): what it does not see filed it finds at *)
(* work.                                                                   *)
LEMMA Checks ==
  ASSUME Inv, NEW p \in Procs, Check(p)
  PROVE  Inv'
<1> DEFINE c == proc[p].cmd
           exists == c.skip /\ Filed(keys) \cap Of(c.id) # {}
<1>1. proc[p].at = "check" /\ UNCHANGED <<keys, certs, anchors, bags, fwd>>
  BY DEF Check, Looks, At, pib
<1>2. c \in Commands /\ c.id \in Ids /\ proc[p] = [at |-> "check", cmd |-> c]
  BY <1>1, CommandOf DEF Inv, HoldersOK, Holding, Carrying, OnFound
<1>3. PICK l \in {"skipped", "generate"}, e \in SUBSET {p} :
        /\ Moves(p, [at |-> l, cmd |-> c])
        /\ seen' = [made |-> seen.made, apart |-> seen.apart, live |-> [seen.live EXCEPT ![p] = Looked],
                    blind |-> seen.blind \cup e, removed |-> seen.removed, second |-> seen.second, gone |-> seen.gone]
        /\ l = "generate" /\ exists => p \in e
  <2>1. CASE Ends(p, "skipped") /\ seen' = [seen EXCEPT !.live[p] = Looked]
    <3>1. seen' = [made |-> seen.made, apart |-> seen.apart, live |-> [seen.live EXCEPT ![p] = Looked],
                   blind |-> seen.blind \cup {}, removed |-> seen.removed, second |-> seen.second, gone |-> seen.gone]
      BY <2>1, SeenIs DEF Inv
    <3>2. Moves(p, [at |-> "skipped", cmd |-> c])
      BY <2>1 DEF Ends
    <3> WITNESS "skipped" \in {"skipped", "generate"}, {} \in SUBSET {p}
    <3> QED
      BY <3>1, <3>2
  <2>2. CASE Goes(p, "generate") /\ seen' = [seen EXCEPT !.live[p] = Looked, !.blind = @ \cup {q \in {p} : exists}]
    <3>1. PICK e : e = {q \in {p} : exists}
      OBVIOUS
    <3>2. e \in SUBSET {p} /\ (exists => p \in e)
      BY <3>1
    <3>3. seen' = [made |-> seen.made, apart |-> seen.apart, live |-> [seen.live EXCEPT ![p] = Looked],
                   blind |-> seen.blind \cup e, removed |-> seen.removed, second |-> seen.second, gone |-> seen.gone]
      <4> HIDE DEF exists
      <4> QED
        BY <2>2, <3>1, SeenIs DEF Inv
    <3>4. [proc[p] EXCEPT !.at = "generate"] = [at |-> "generate", cmd |-> c]
      BY <1>2
    <3>5. Moves(p, [at |-> "generate", cmd |-> c])
      BY <2>2, <3>4 DEF Goes
    <3> QED
      BY <3>2, <3>3, <3>5
  <2> QED
    BY <2>1, <2>2 DEF Check, Looks
<1>4. Known' = Known /\ Filed(keys)' = Filed(keys) /\ Filed(anchors)' = Filed(anchors)
  BY <1>1, <1>3 DEF Known, Filed
<1>5. proc' = [q \in Procs |-> proc'[q]] /\ proc'[p] = [at |-> l, cmd |-> c] /\ \A q \in Procs \ {p} : proc'[q] = proc[q]
  BY <1>3, Moved DEF Inv
<1>6. TypesOK'
  <2>1. Looked \in SUBSET Procs
    BY DEF Looked
  <2>2. seen' \in SeenType
    BY <1>3, <2>1 DEF Inv, TypesOK, SeenType
  <2> QED
    BY <1>1, <1>5, <2>2 DEF Inv, TypesOK
<1>7. OneKey' /\ Paired'
  BY <1>1, <1>3, <1>4, PairsKept DEF Inv, OneKey
<1>8. HoldersOK'
  <2>1. Holding([at |-> l, cmd |-> c], Known, seen.made)
    BY <1>2 DEF Holding, Carrying, OnFound
  <2> QED
    BY <1>3, <1>4, <1>5, <2>1 DEF Inv, HoldersOK
<1>9. Seconds' /\ RemovedStaysOut'
  BY <1>3, <1>4 DEF Inv, Seconds, RemovedStaysOut
<1>10. Unwritten'
  BY <1>1, <1>4, <1>5 DEF Inv, Unwritten, Early
<1>11. Rivals'
  <2>1. \A q \in Procs \ {p} : (Rival(q)' <=> Rival(q)) /\ seen'.live[q] = seen.live[q]
    BY <1>1, <1>3, <1>5 DEF Rival, BuildCertName, Filed, Inv, TypesOK, SeenType
  <2>2. ASSUME NEW q \in Procs \ {p}, Rival(p)', Rival(q), c.id = proc[q].cmd.id
        PROVE  q \in seen'.live[p] \/ p \in seen'.blind
    <3>1. BuildCertName(p)' = <<c.id, p>> /\ <<c.id, p>> \notin Known
      BY <1>1, <1>2, <1>5 DEF Inv, Unwritten, Early, BuildCertName
    <3>2. l = "generate" /\ c.skip
      BY <1>4, <1>5, <2>2, <3>1 DEF Rival, Known
    <3>3. CASE Filed(keys) \cap Of(c.id) # {}
      BY <1>3, <3>2, <3>3
    <3>4. CASE Filed(keys) \cap Of(c.id) = {}
      <4>1. <<c.id, q>> \notin Filed(keys)
        BY <1>2, <3>4 DEF Of, Filed
      <4>2. proc[q].at = "generate"
        BY <2>2, <4>1 DEF Rival, BuildCertName
      <4> QED
        BY <1>3, <4>2 DEF Looked, At, Inv, TypesOK, SeenType
    <3> QED
      BY <3>3, <3>4
  <2>3. seen.blind \subseteq seen'.blind /\ proc'[p].cmd = c
    BY <1>3, <1>5
  <2> QED
    BY <1>5, <2>1, <2>2, <2>3 DEF Inv, Rivals
<1> QED
  BY <1>6, <1>7, <1>8, <1>9, <1>10, <1>11 DEF Inv

(* store_cert                                                              *)
LEMMA Certifies ==
  ASSUME Inv, NEW p \in Procs, Certify(p)
  PROVE  Inv'
<1> DEFINE n == proc[p].name
           k == proc[p].pair
           c == proc[p].cmd
<1>1. /\ proc[p].at = "certify" /\ UNCHANGED <<keys, anchors, bags, fwd, seen>>
      /\ certs' = [certs EXCEPT ![n] = k]
  BY DEF Certify, At
<1>2. /\ n \in Known /\ k \in seen.made[n] /\ n[2] # Daemon /\ c \in Commands
      /\ proc[p] = [at |-> "certify", cmd |-> c, name |-> n, pair |-> k]
  BY <1>1, CommandOf DEF Inv, HoldersOK, Holding, Carrying, OnFound
<1>3. n \in Names /\ k \in Pairs
  BY <1>2, NamesAre DEF Inv, TypesOK, SeenType
<1>4. Known' = Known /\ Filed(keys)' = Filed(keys) /\ Filed(anchors)' = Filed(anchors)
  BY <1>1 DEF Known, Filed
<1>5. OneKey' /\ Paired' /\ certs' \in StoreType
  <2>1. certs \in StoreType
    BY DEF Inv, TypesOK
  <2>2. \A m \in Names : certs'[m] = IF m = n THEN k ELSE certs[m]
    BY <1>1, <1>3, <2>1 DEF StoreType
  <2>3. certs' \in StoreType
    BY <1>1, <1>3, <2>1 DEF StoreType
  <2>4. OneKey'
    BY <1>1, <1>2, <1>4, <2>2 DEF Inv, OneKey
  <2>5. Between' = Between
    BY <1>1 DEF Between
  <2>6. Paired'
    BY <1>1, <1>2, <2>2, <2>5 DEF Inv, Paired
  <2> QED
    BY <2>3, <2>4, <2>6
<1>6. PICK r : /\ Moves(p, r) /\ Holding(r, Known, seen.made) /\ r.cmd = c /\ r.at \in {"add", "ok"}
  <2>1. CASE c.anchor
    <3>1. [proc[p] EXCEPT !.at = "add"] = [at |-> "add", cmd |-> c, name |-> n, pair |-> k]
      BY <1>2
    <3>2. Moves(p, [at |-> "add", cmd |-> c, name |-> n, pair |-> k])
      BY <2>1, <3>1 DEF Certify, Goes
    <3>3. Holding([at |-> "add", cmd |-> c, name |-> n, pair |-> k], Known, seen.made)
      BY <1>2 DEF Holding, Carrying, OnFound
    <3> QED
      BY <3>2, <3>3
  <2>2. CASE ~c.anchor
    <3>1. Moves(p, [at |-> "ok", cmd |-> c])
      BY <2>2 DEF Certify, Ends
    <3>2. Holding([at |-> "ok", cmd |-> c], Known, seen.made)
      BY <1>2, EndedHolds
    <3> QED
      BY <3>1, <3>2
  <2> QED
    BY <2>1, <2>2
<1>7. HoldersOK' /\ Unwritten' /\ Rivals'
  BY <1>1, <1>4, <1>6, Settles DEF Early
<1>8. TypesOK'
  BY <1>1, <1>5, <1>6, Moved DEF Inv, TypesOK
<1>9. Seconds' /\ RemovedStaysOut'
  BY <1>1, <1>4 DEF Inv, Seconds, RemovedStaysOut
<1> QED
  BY <1>5, <1>7, <1>8, <1>9 DEF Inv

(* add_trust_anchor: the identity is no longer one that was removed.       *)
LEMMA AddsAnchor ==
  ASSUME Inv, NEW p \in Procs, AddAnchor(p)
  PROVE  Inv'
<1> DEFINE n == proc[p].name
           k == proc[p].pair
           c == proc[p].cmd
           r == [at |-> "ok", cmd |-> c]
<1>1. /\ proc[p].at = "add" /\ UNCHANGED <<keys, certs, bags, fwd>>
      /\ anchors' = [anchors EXCEPT ![n] = k] /\ Moves(p, r)
  BY DEF AddAnchor, At, Ends
<1>2. n \in Known /\ k \in seen.made[n] /\ c \in Commands
  BY <1>1, CommandOf DEF Inv, HoldersOK, Holding, Carrying, OnFound
<1>3. n \in Names /\ k \in Pairs
  BY <1>2, NamesAre DEF Inv, TypesOK, SeenType
<1>4. seen' = [made |-> seen.made, apart |-> seen.apart, live |-> seen.live, blind |-> seen.blind,
               removed |-> seen.removed \ {n[1]}, second |-> seen.second, gone |-> seen.gone]
  <2>1. seen' = [seen EXCEPT !.removed = @ \ {n[1]}]
    BY DEF AddAnchor
  <2> QED
    BY <2>1, SeenIs DEF Inv
<1>5. Known' = Known /\ Filed(keys)' = Filed(keys)
  BY <1>1, <1>4 DEF Known, Filed
<1>6. /\ anchors' \in StoreType
      /\ \A m \in Names : anchors'[m] = IF m = n THEN k ELSE anchors[m]
  BY <1>1, <1>2, <1>3 DEF Inv, TypesOK, StoreType
<1>7. OneKey' /\ Paired'
  BY <1>1, <1>2, <1>4, <1>5, <1>6, PairsKept DEF Inv, OneKey
<1>8. Holding(r, Known, seen.made) /\ r.cmd = c /\ r.at = "ok"
  BY <1>2, EndedHolds
<1>9. HoldersOK' /\ Unwritten' /\ Rivals'
  <2> HIDE DEF r
  <2> QED
    BY <1>1, <1>4, <1>5, <1>8, Settles DEF Early
<1>10. TypesOK'
  <2>1. seen' \in SeenType
    BY <1>4 DEF Inv, TypesOK, SeenType
  <2> HIDE DEF r
  <2> QED
    BY <1>1, <1>6, <2>1, Moved DEF Inv, TypesOK
<1>11. Filed(anchors)' \subseteq Filed(anchors) \cup {n}
  BY <1>6 DEF Filed
<1>12. Seconds'
  BY <1>2, <1>4, <1>5, <1>11 DEF Inv, Seconds
<1>13. RemovedStaysOut'
  BY <1>4, <1>11 DEF Inv, RemovedStaysOut, Of
<1> QED
  BY <1>7, <1>9, <1>10, <1>12, <1>13 DEF Inv

(* cmd_delete                                                              *)
LEMMA Deletes ==
  ASSUME Inv, NEW p \in Procs, Delete(p)
  PROVE  Inv'
<1> DEFINE n == proc[p].name
           c == proc[p].cmd
           r == [at |-> "ok", cmd |-> c]
<1>1. proc[p].at = "delete" /\ UNCHANGED <<anchors, bags, fwd>> /\ c \in Commands
  BY CommandOf DEF Delete, At
<1>2. CASE n \notin Filed(keys)
  <2>1. UNCHANGED <<keys, certs, seen>> /\ Ends(p, "failed")
    BY <1>2 DEF Delete
  <2> QED
    BY <1>1, <2>1, Fails
<1>3. CASE n \in Filed(keys)
  <2>1. /\ keys' = [keys EXCEPT ![n] = NoKey] /\ certs' = [certs EXCEPT ![n] = NoKey]
        /\ seen' = [seen EXCEPT !.gone = @ \cup {n}] /\ Moves(p, r)
    BY <1>3 DEF Delete, Ends
  <2>2. seen' = [made |-> seen.made, apart |-> seen.apart, live |-> seen.live, blind |-> seen.blind,
                 removed |-> seen.removed, second |-> seen.second, gone |-> seen.gone \cup {n}]
    BY <2>1, SeenIs DEF Inv
  <2>3. n \in Names
    BY <1>3 DEF Filed
  <2>4. /\ keys' \in StoreType /\ certs' \in StoreType
        /\ \A m \in Names \ {n} : keys'[m] = keys[m] /\ certs'[m] = certs[m]
        /\ keys'[n] = NoKey /\ certs'[n] = NoKey
    BY <2>1, <2>3 DEF Inv, TypesOK, StoreType
  <2>5. Known' = Known /\ Filed(keys)' \subseteq Filed(keys) /\ Filed(anchors)' = Filed(anchors)
    BY <1>1, <1>3, <2>2, <2>4 DEF Known, Filed
  <2>6. OneKey' /\ Paired'
    <3>1. OneKey'
      BY <1>1, <2>2, <2>4, <2>5 DEF Inv, OneKey
    <3>2. Between' = Between /\ Between \subseteq Names
      BY <1>1 DEF Between
    <3>3. Paired'
      BY <1>1, <2>2, <2>4, <3>2 DEF Inv, Paired
    <3> QED
      BY <3>1, <3>3
  <2>7. Holding(r, Known, seen.made) /\ r.cmd = c /\ r.at = "ok"
    BY <1>1, EndedHolds
  <2>8. HoldersOK' /\ Unwritten' /\ Rivals'
    <3> HIDE DEF r
    <3> QED
      BY <1>1, <2>1, <2>2, <2>5, <2>7, Settles DEF Early
  <2>9. TypesOK'
    <3>1. seen' \in SeenType
      BY <2>2, <2>3 DEF Inv, TypesOK, SeenType
    <3> HIDE DEF r
    <3> QED
      BY <1>1, <2>1, <2>4, <3>1, Moved DEF Inv, TypesOK
  <2>10. Seconds' /\ RemovedStaysOut'
    BY <2>2, <2>5 DEF Inv, Seconds, RemovedStaysOut
  <2> QED
    BY <2>6, <2>8, <2>9, <2>10 DEF Inv
<1> QED
  BY <1>2, <1>3

(* cmd_anchor_remove: of an identity with one name no anchor is left.      *)
LEMMA Unanchors ==
  ASSUME Inv, NEW p \in Procs, Unanchor(p)
  PROVE  Inv'
<1> DEFINE n == proc[p].name
           c == proc[p].cmd
           r == [at |-> "ok", cmd |-> c]
<1>1. /\ proc[p].at = "unanchor" /\ UNCHANGED <<keys, certs, bags, fwd>>
      /\ anchors' = [anchors EXCEPT ![n] = NoKey] /\ Moves(p, r)
  BY DEF Unanchor, At, Ends
<1>2. n \in Known /\ n[1] = c.id /\ c \in Commands /\ c.id \in Ids
  BY <1>1, CommandOf DEF Inv, HoldersOK, Holding, Carrying, OnFound
<1>3. n \in Names
  BY <1>2, NamesAre DEF Inv
<1>4. seen' = [made |-> seen.made, apart |-> seen.apart, live |-> seen.live, blind |-> seen.blind,
               removed |-> seen.removed \cup {c.id}, second |-> seen.second, gone |-> seen.gone]
  <2>1. seen' = [seen EXCEPT !.removed = @ \cup {c.id}]
    BY DEF Unanchor
  <2> QED
    BY <2>1, SeenIs DEF Inv
<1>5. Known' = Known /\ Filed(keys)' = Filed(keys)
  BY <1>1, <1>4 DEF Known, Filed
<1>6. /\ anchors' \in StoreType
      /\ \A m \in Names : anchors'[m] = IF m = n THEN NoKey ELSE anchors[m]
  BY <1>1, <1>3 DEF Inv, TypesOK, StoreType
<1>7. OneKey' /\ Paired'
  BY <1>1, <1>2, <1>4, <1>5, <1>6, PairsKept DEF Inv, OneKey
<1>8. Holding(r, Known, seen.made) /\ r.cmd = c /\ r.at = "ok"
  BY <1>2, EndedHolds
<1>9. HoldersOK' /\ Unwritten' /\ Rivals'
  <2> HIDE DEF r
  <2> QED
    BY <1>1, <1>4, <1>5, <1>8, Settles DEF Early
<1>10. TypesOK'
  <2>1. seen' \in SeenType
    BY <1>2, <1>4 DEF Inv, TypesOK, SeenType
  <2> HIDE DEF r
  <2> QED
    BY <1>1, <1>6, <2>1, Moved DEF Inv, TypesOK
<1>11. Filed(anchors)' = Filed(anchors) \ {n}
  BY <1>6 DEF Filed
<1>12. Seconds'
  BY <1>4, <1>5, <1>11 DEF Inv, Seconds
<1>13. RemovedStaysOut'
  <2> SUFFICES ASSUME NEW i \in (seen.removed \cup {c.id}) \ seen.second, NEW m \in Filed(anchors) \ {n}, m[1] = i
               PROVE  FALSE
    BY <1>4, <1>11 DEF RemovedStaysOut, Of
  <2>1. CASE i = c.id
    BY <1>2, <2>1 DEF Inv, Seconds
  <2>2. CASE i # c.id
    BY <2>2 DEF Inv, RemovedStaysOut, Of, Filed
  <2> QED
    BY <2>1, <2>2
<1> QED
  BY <1>7, <1>9, <1>10, <1>12, <1>13 DEF Inv

(* A key is written under a name, new or not: if the identity has another  *)
(* name it has had two from now on.                                        *)
LEMMA Gained ==
  ASSUME Inv, NEW n \in Names, NEW k, NEW c, NEW M \in [Names -> SUBSET Pairs], NEW A \in SUBSET Names,
         keys' = [keys EXCEPT ![n] = k], certs' = certs \/ certs' = [certs EXCEPT ![n] = c],
         k \in M[n], c \in M[n], \A m \in Names : seen.made[m] \subseteq M[m] /\ (m[2] # Daemon => M[m] \subseteq {m[2]}),
         seen' = [made |-> M, apart |-> A, live |-> seen.live, blind |-> seen.blind,
                  removed |-> seen.removed, second |-> Gains(n), gone |-> seen.gone],
         UNCHANGED <<anchors, bags>>
  PROVE  /\ keys' \in StoreType /\ certs' \in StoreType /\ seen' \in SeenType
         /\ Filed(keys)' = Filed(keys) \cup {n} /\ Known' = Known \cup {n}
         /\ \A m \in Names : keys'[m] = IF m = n THEN k ELSE keys[m]
         /\ OneKey' /\ Seconds' /\ RemovedStaysOut'
<1>1. n[1] \in Ids /\ k \in Pairs /\ c \in Pairs /\ k # NoKey
  BY NamesAre
<1>2. /\ keys' \in StoreType /\ certs' \in StoreType
      /\ \A m \in Names : keys'[m] = IF m = n THEN k ELSE keys[m]
      /\ \A m \in Names : certs'[m] = certs[m] \/ (m = n /\ certs'[m] = c)
  BY <1>1 DEF Inv, TypesOK, StoreType
<1>3. Filed(keys)' = Filed(keys) \cup {n} /\ Filed(anchors)' = Filed(anchors)
  BY <1>1, <1>2 DEF Filed
<1>4. Known' = Known \cup {n}
  BY <1>3 DEF Known
<1>5. seen' \in SeenType
  <2>1. Gains(n) \subseteq Ids
    BY <1>1 DEF Gains, Inv, TypesOK, SeenType
  <2> QED
    BY <2>1 DEF Inv, TypesOK, SeenType
<1>6. OneKey'
  <2>1. seen'.made = M
    OBVIOUS
  <2>2. \A m \in Names : {keys'[m], certs'[m], anchors'[m]} \subseteq M[m] \cup {NoKey}
    BY <1>2 DEF Inv, OneKey
  <2>3. \A b \in bags : b.name \in Names /\ b.key \in M[b.name] /\ b.cert \in M[b.name]
    BY DEF Inv, OneKey
  <2> QED
    BY <1>4, <2>1, <2>2, <2>3 DEF Inv, OneKey
<1>7. seen.second \subseteq Gains(n) /\ \A m \in Known : m[1] = n[1] /\ m # n => n[1] \in Gains(n)
  <2> SUFFICES ASSUME NEW m \in Known, m[1] = n[1], m # n PROVE n[1] \in Gains(n)
    BY DEF Gains
  <2>1. m \in Names /\ m \in Filed(keys) \cup seen.gone
    BY NamesAre DEF Inv, Known
  <2>2. m \in (Filed(keys) \cup Filed(anchors) \cup seen.gone) \cap (Of(n[1]) \ {n})
    BY <2>1 DEF Of
  <2> QED
    BY <2>2 DEF Gains
<1>8. Seconds'
  BY <1>3, <1>4, <1>7 DEF Inv, Seconds
<1>9. RemovedStaysOut'
  BY <1>3, <1>7 DEF Inv, RemovedStaysOut
<1> QED
  BY <1>2, <1>3, <1>4, <1>5, <1>6, <1>8, <1>9

(* The pair k joins those made under n.                                    *)
LEMMA Joins ==
  ASSUME Inv, NEW n \in Names, NEW k \in Pairs, n[2] # Daemon => k = n[2]
  PROVE  LET M == [seen.made EXCEPT ![n] = @ \cup {k}]
         IN  /\ M \in [Names -> SUBSET Pairs] /\ k \in M[n]
             /\ \A m \in Names : seen.made[m] \subseteq M[m] /\ (m[2] # Daemon => M[m] \subseteq {m[2]})
<1>1. seen.made \in [Names -> SUBSET Pairs]
  BY DEF Inv, TypesOK, SeenType
<1>2. \A m \in Names : m[2] # Daemon => seen.made[m] \subseteq {m[2]}
  BY DEF Inv, OneKey
<1> QED
  BY <1>1, <1>2

(* generate_ed25519, generate_ecdsa: the writer was a rival before.        *)
LEMMA Generates ==
  ASSUME Inv, NEW p \in Procs, Generate(p)
  PROVE  Inv'
<1> DEFINE n == BuildCertName(p)
           c == proc[p].cmd
           r == [at |-> "certify", cmd |-> c, name |-> n, pair |-> p]
           M == [seen.made EXCEPT ![n] = @ \cup {p}]
<1>1. /\ proc[p].at = "generate" /\ UNCHANGED <<certs, anchors, bags, fwd>> /\ Moves(p, r)
      /\ keys' = [keys EXCEPT ![n] = p]
      /\ seen' = [made |-> M, apart |-> seen.apart, live |-> seen.live, blind |-> seen.blind,
                  removed |-> seen.removed, second |-> Gains(n), gone |-> seen.gone]
  <2>1. seen' = [seen EXCEPT !.second = Gains(n), !.made[n] = @ \cup {p}]
    BY DEF Generate
  <2> HIDE DEF n
  <2>2. seen' = [made |-> M, apart |-> seen.apart, live |-> seen.live, blind |-> seen.blind,
                  removed |-> seen.removed, second |-> Gains(n), gone |-> seen.gone]
    BY <2>1, SeenIs DEF Inv
  <2> QED
    BY <2>2 DEF n, Generate, At, Holds
<1>2. c \in Commands /\ n = <<c.id, p>> /\ n \in Names /\ n[2] = p /\ p # Daemon /\ p \in Pairs
  BY <1>1, CommandOf, NamesAre DEF BuildCertName, KeyIds, Pairs
<1>3. /\ keys' \in StoreType /\ certs' \in StoreType /\ seen' \in SeenType
      /\ Filed(keys)' = Filed(keys) \cup {n} /\ Known' = Known \cup {n}
      /\ OneKey' /\ Seconds' /\ RemovedStaysOut'
      /\ \A m \in Names : keys'[m] = IF m = n THEN p ELSE keys[m]
      /\ p \in M[n] /\ \A m \in Names : seen.made[m] \subseteq M[m]
      /\ seen'.live = seen.live /\ seen'.blind = seen.blind /\ seen'.gone = seen.gone
  <2> HIDE DEF n, r
  <2>1. /\ M \in [Names -> SUBSET Pairs] /\ p \in M[n]
        /\ \A m \in Names : seen.made[m] \subseteq M[m] /\ (m[2] # Daemon => M[m] \subseteq {m[2]})
    BY <1>2, Joins
  <2>2. seen.apart \in SUBSET Names
    BY DEF Inv, TypesOK, SeenType
  <2> HIDE DEF M
  <2>3. /\ keys' \in StoreType /\ certs' \in StoreType /\ seen' \in SeenType
        /\ Filed(keys)' = Filed(keys) \cup {n} /\ Known' = Known \cup {n}
        /\ \A m \in Names : keys'[m] = IF m = n THEN p ELSE keys[m]
        /\ OneKey' /\ Seconds' /\ RemovedStaysOut'
    BY <1>1, <1>2, <2>1, <2>2, Gained
  <2> QED
    BY <1>1, <2>1, <2>3
<1>4. proc' = [q \in Procs |-> proc'[q]] /\ proc'[p] = r /\ \A q \in Procs \ {p} : proc'[q] = proc[q]
  <2> HIDE DEF r
  <2> QED
    BY <1>1, Moved DEF Inv
<1>5. HoldersOK' /\ Paired'
  <2> HIDE DEF M
  <2>1. Holding(r, Known', M)
    BY <1>2, <1>3 DEF Holding, Carrying, OnFound
  <2>2. \A q \in Procs : Holding(proc[q], Known', M)
    BY <1>3, NamesAre DEF Inv, HoldersOK, Holding, Carrying
  <2>3. seen'.made = M /\ seen'.apart = seen.apart /\ Between' = Between
    BY <1>1 DEF Between
  <2>4. HoldersOK'
    <3> HIDE DEF r
    <3> QED
      BY <1>4, <2>1, <2>2, <2>3 DEF HoldersOK
  <2>5. \A m \in Names : m[2] = Daemon => keys'[m] = keys[m]
    BY <1>2, <1>3
  <2>6. fwd.at = "certify" => <<fwd.id, Daemon>> \in Names /\ fwd.pair \in M[<<fwd.id, Daemon>>]
    BY <1>3, NamesAre DEF Inv, Paired, KeyIds
  <2>7. \A m \in Between : m \in Names /\ m[2] = Daemon
    BY DEF Between
  <2>8. Paired'
    BY <1>1, <2>3, <2>5, <2>6, <2>7 DEF Inv, Paired
  <2> QED
    BY <2>4, <2>8
<1>6. Unwritten'
  BY <1>2, <1>3, <1>4 DEF Inv, Unwritten, Early
<1>7. Rivals'
  <2>1. ASSUME NEW q \in Procs, Rival(q)' PROVE Rival(q) /\ proc'[q].cmd = proc[q].cmd
    <3>1. CASE q = p
      BY <1>1, <1>4, <2>1, <3>1 DEF Rival
    <3>2. CASE q # p
      BY <1>2, <1>3, <1>4, <2>1, <3>2 DEF Rival, BuildCertName
    <3> QED
      BY <3>1, <3>2
  <2> QED
    BY <1>3, <2>1, RivalsKept
<1>8. TypesOK'
  BY <1>1, <1>3, <1>4 DEF Inv, TypesOK
<1> QED
  BY <1>3, <1>5, <1>6, <1>7, <1>8 DEF Inv

(* cmd_import: a bag's name is known, or was made elsewhere.               *)
LEMMA Imports ==
  ASSUME Inv, NEW p \in Procs, Import(p)
  PROVE  Inv'
<1> DEFINE c == proc[p].cmd
<1>1. proc[p].at = "store" /\ UNCHANGED <<anchors, bags, fwd>> /\ c \in Commands
  BY CommandOf DEF Import, At
<1>2. CASE Ends(p, "failed") /\ UNCHANGED <<keys, certs, seen>>
  BY <1>1, <1>2, Fails
<1>3. ASSUME NEW b \in bags, keys' = [keys EXCEPT ![b.name] = b.key], certs' = [certs EXCEPT ![b.name] = b.cert],
             seen' = [seen EXCEPT !.second = Gains(b.name), !.apart = @ \cup (Between \cap {b.name})],
             IF c.anchor THEN Holds(p, "add", b.name, b.cert) ELSE Ends(p, "ok")
      PROVE  Inv'
  <2>1. b.name \in Names /\ b.key \in seen.made[b.name] /\ b.cert \in seen.made[b.name] /\ (b.name[2] # Foreign => b.name \in Known)
    BY DEF Inv, OneKey
  <2>2. seen' = [made |-> seen.made, apart |-> seen.apart \cup (Between \cap {b.name}), live |-> seen.live,
                 blind |-> seen.blind, removed |-> seen.removed, second |-> Gains(b.name), gone |-> seen.gone]
    BY <1>3, SeenIs DEF Inv
  <2>3. /\ keys' \in StoreType /\ certs' \in StoreType /\ seen' \in SeenType
        /\ Filed(keys)' = Filed(keys) \cup {b.name} /\ Known' = Known \cup {b.name}
        /\ OneKey' /\ Seconds' /\ RemovedStaysOut'
    <3> DEFINE n == b.name
               k == b.key
               x == b.cert
               M == seen.made
               A == seen.apart \cup (Between \cap {b.name})
    <3>1. n \in Names /\ M \in [Names -> SUBSET Pairs] /\ A \in SUBSET Names
      BY <2>1 DEF Inv, TypesOK, SeenType
    <3>2. \A m \in Names : seen.made[m] \subseteq M[m] /\ (m[2] # Daemon => M[m] \subseteq {m[2]})
      BY DEF Inv, OneKey
    <3>3. k \in M[n] /\ x \in M[n]
      BY <2>1
    <3>4. seen' = [made |-> M, apart |-> A, live |-> seen.live, blind |-> seen.blind,
                   removed |-> seen.removed, second |-> Gains(n), gone |-> seen.gone]
      BY <2>2
    <3>5. keys' = [keys EXCEPT ![n] = k] /\ certs' = [certs EXCEPT ![n] = x] /\ UNCHANGED <<anchors, bags>>
      BY <1>1, <1>3
    <3>6. /\ keys' \in StoreType /\ certs' \in StoreType /\ seen' \in SeenType
          /\ Filed(keys)' = Filed(keys) \cup {n} /\ Known' = Known \cup {n}
          /\ OneKey' /\ Seconds' /\ RemovedStaysOut'
      <4> HIDE DEF n, k, x, M, A
      <4> QED
        BY <3>1, <3>2, <3>3, <3>4, <3>5, Gained
    <3> QED
      BY <3>6
  <2>4. PICK r : Moves(p, r) /\ Holding(r, Known', seen.made) /\ r.cmd = c /\ r.at \in {"add", "ok"}
    <3>1. CASE c.anchor
      <4>1. Moves(p, [at |-> "add", cmd |-> c, name |-> b.name, pair |-> b.cert])
        BY <1>3, <3>1 DEF Holds
      <4>2. Holding([at |-> "add", cmd |-> c, name |-> b.name, pair |-> b.cert], Known', seen.made)
        BY <1>1, <2>1, <2>3 DEF Holding, Carrying, OnFound
      <4> QED
        BY <4>1, <4>2
    <3>2. CASE ~c.anchor
      <4>1. Moves(p, [at |-> "ok", cmd |-> c])
        BY <1>3, <3>2 DEF Ends
      <4>2. Holding([at |-> "ok", cmd |-> c], Known', seen.made)
        BY <1>1 DEF Holding, Carrying, OnFound
      <4> QED
        BY <4>1, <4>2
    <3> QED
      BY <3>1, <3>2
  <2>5. proc' = [q \in Procs |-> proc'[q]] /\ proc'[p] = r /\ \A q \in Procs \ {p} : proc'[q] = proc[q]
    BY <2>4, Moved DEF Inv
  <2>6. HoldersOK'
    <3>1. \A q \in Procs : Holding(proc[q], Known', seen.made)
      BY <2>3 DEF Inv, HoldersOK, Holding
    <3> QED
      BY <2>2, <2>4, <2>5, <3>1 DEF HoldersOK
  <2>7. Paired'
    <3>1. Between' = Between /\ fwd' = fwd
      BY <1>1 DEF Between
    <3>2. \A m \in Names \ {b.name} : keys'[m] = keys[m] /\ certs'[m] = certs[m]
      BY <1>3, <2>1 DEF Inv, TypesOK, StoreType
    <3>3. keys'[b.name] = b.key /\ certs'[b.name] = b.cert
      BY <1>3, <2>1 DEF Inv, TypesOK, StoreType
    <3>4. seen'.made = seen.made /\ seen'.apart = seen.apart \cup (Between \cap {b.name})
      BY <2>2
    <3>5. ASSUME NEW m \in Names, m[2] = Daemon, m \notin seen'.apart \cup Between
          PROVE  NoKey \in {keys'[m], certs'[m]} \/ keys'[m] = certs'[m]
      <4>1. CASE m = b.name
        BY <3>3, <3>4, <3>5, <4>1 DEF Inv, Paired
      <4>2. CASE m # b.name
        BY <3>2, <3>4, <3>5, <4>2 DEF Inv, Paired
      <4> QED
        BY <4>1, <4>2
    <3>6. \A m \in bags : m.name[2] = Daemon /\ m.name \notin seen'.apart => m.key = m.cert
      BY <3>4 DEF Inv, Paired
    <3>7. fwd.at = "certify" => \A m \in Between : m \in seen'.apart \/ keys'[m] \in {NoKey, fwd.pair}
      BY <3>2, <3>4 DEF Inv, Paired, Between
    <3> QED
      BY <1>1, <3>1, <3>4, <3>5, <3>6, <3>7 DEF Inv, Paired
  <2>8. Foreign \notin Procs
    BY KeyStoreAssumption DEF KeyStoreAssumption
  <2>9. \A q \in Procs, i \in Ids : <<i, q>> \in Known' => <<i, q>> \in Known
    BY <2>1, <2>3, <2>8
  <2>10. Unwritten'
    BY <2>4, <2>5, <2>9 DEF Inv, Unwritten, Early
  <2>11. Rivals'
    <3>1. ASSUME NEW q \in Procs, Rival(q)' PROVE Rival(q) /\ proc'[q].cmd = proc[q].cmd
      <4>1. proc'[q].cmd = proc[q].cmd /\ proc[q].at # "idle" /\ (proc'[q].at = "generate" => proc[q].at = "generate")
        BY <1>1, <2>4, <2>5, <3>1 DEF Rival
      <4>2. <<proc[q].cmd.id, q>> \in Filed(keys)' \ seen'.gone => <<proc[q].cmd.id, q>> \in Filed(keys) \ seen.gone
        BY <2>1, <2>2, <2>3, <2>8 DEF Known
      <4> QED
        BY <3>1, <4>1, <4>2 DEF Rival, BuildCertName
    <3> QED
      BY <2>2, <3>1, RivalsKept
  <2>12. TypesOK'
    BY <1>1, <2>3, <2>5 DEF Inv, TypesOK
  <2> QED
    BY <2>3, <2>6, <2>7, <2>10, <2>11, <2>12 DEF Inv
<1> QED
  BY <1>2, <1>3 DEF Import

(* The forwarder's own record.                                             *)
LEMMA FwdIs ==
  ASSUME Inv
  PROVE  /\ fwd = [at |-> fwd.at, id |-> fwd.id, pair |-> fwd.pair, trust |-> fwd.trust]
         /\ fwd.id \in Ids \cup {NoKey} /\ fwd.pair \in Fresh \cup {NoKey} /\ fwd.trust \in Seq(SUBSET Ids)
         /\ Off \in FwdType /\ Off.at = "off"
BY DEF Inv, TypesOK, FwdType, Off

(* The forwarder is past its two writes, or before them, and writes no key *)
(* and no certificate.                                                     *)
LEMMA Reads ==
  ASSUME Inv, UNCHANGED <<proc, bags, keys, certs, anchors>>, fwd' \in FwdType, fwd'.at # "certify",
         seen' = [made |-> seen.made, apart |-> seen.apart \cup Between, live |-> seen.live, blind |-> seen.blind,
                  removed |-> seen.removed, second |-> seen.second, gone |-> seen.gone]
  PROVE  Inv'
<1>1. Known' = Known /\ Filed(keys)' = Filed(keys) /\ Filed(anchors)' = Filed(anchors)
  BY DEF Known, Filed
<1>2. seen' \in SeenType
  BY DEF Inv, TypesOK, SeenType, Between
<1>3. TypesOK' /\ OneKey' /\ HoldersOK' /\ Seconds' /\ Unwritten' /\ RemovedStaysOut'
  BY <1>1, <1>2 DEF Inv, TypesOK, OneKey, HoldersOK, Seconds, Unwritten, RemovedStaysOut
<1>4. Rivals'
  BY <1>1, RivalsKept DEF Rival, BuildCertName
<1>5. Paired'
  BY DEF Inv, Paired, Between
<1> QED
  BY <1>3, <1>4, <1>5 DEF Inv

(* auto_init writes a new key under the forwarder's name.                  *)
LEMMA Inits ==
  ASSUME Inv, NEW id \in Ids, InitIdentity(id)
  PROVE  Inv'
<1> DEFINE n == <<id, Daemon>>
<1>1. PICK k \in Fresh :
        /\ fwd.at = "off" /\ keys' = [keys EXCEPT ![n] = k] /\ UNCHANGED <<proc, certs, anchors, bags>>
        /\ fwd' = [fwd EXCEPT !.at = "certify", !.id = id, !.pair = k]
        /\ seen' = [seen EXCEPT !.second = Gains(n), !.made[n] = @ \cup {k}]
  BY DEF InitIdentity
<1> DEFINE M == [seen.made EXCEPT ![n] = @ \cup {k}]
<1>2. n \in Names /\ n[2] = Daemon /\ Daemon \notin Procs /\ k \in Pairs
  BY NamesAre DEF KeyIds, Pairs
<1>3. seen' = [made |-> M, apart |-> seen.apart, live |-> seen.live, blind |-> seen.blind,
               removed |-> seen.removed, second |-> Gains(n), gone |-> seen.gone]
  <2> HIDE DEF n
  <2> QED
    BY <1>1, SeenIs DEF Inv
<1>4. fwd' = [at |-> "certify", id |-> id, pair |-> k, trust |-> fwd.trust]
  BY <1>1, FwdIs
<1>5. /\ M \in [Names -> SUBSET Pairs] /\ k \in M[n]
      /\ \A m \in Names : seen.made[m] \subseteq M[m] /\ (m[2] # Daemon => M[m] \subseteq {m[2]})
  <2> HIDE DEF n
  <2> QED
    BY <1>2, Joins
<1> HIDE DEF M
<1>6. /\ keys' \in StoreType /\ certs' \in StoreType /\ seen' \in SeenType
      /\ Filed(keys)' = Filed(keys) \cup {n} /\ Known' = Known \cup {n}
      /\ \A m \in Names : keys'[m] = IF m = n THEN k ELSE keys[m]
      /\ OneKey' /\ Seconds' /\ RemovedStaysOut'
  <2> HIDE DEF n
  <2>1. seen.apart \in SUBSET Names
    BY DEF Inv, TypesOK, SeenType
  <2> QED
    BY <1>1, <1>2, <1>3, <1>5, <2>1, Gained
<1>7. HoldersOK'
  <2>1. \A q \in Procs : Holding(proc[q], Known', M)
    BY <1>5, <1>6, NamesAre DEF Inv, HoldersOK, Holding, Carrying
  <2>2. seen'.made = M
    BY <1>3
  <2>3. proc' = proc
    BY <1>1
  <2> QED
    BY <2>1, <2>2, <2>3 DEF HoldersOK
<1>8. Unwritten'
  BY <1>1, <1>2, <1>6 DEF Inv, Unwritten
<1>9. Rivals'
  <2>1. \A q \in Procs : Rival(q)' => Rival(q)
    BY <1>1, <1>2, <1>3, <1>6 DEF Rival, BuildCertName
  <2> QED
    BY <1>1, <1>3, <2>1, RivalsKept
<1>10. TypesOK'
  <2>1. fwd' \in FwdType
    BY <1>4, FwdIs DEF FwdType
  <2> QED
    BY <1>1, <1>6, <2>1 DEF Inv, TypesOK
<1>11. Paired'
  <2>1. Between' = {n} /\ seen'.made = M /\ seen'.apart = seen.apart /\ Between = {}
    <3>1. fwd'.at = "certify" /\ fwd'.id = id
      BY <1>4
    <3>2. Between' = {m \in Names : m = n}
      BY <3>1 DEF Between
    <3>3. Between = {}
      BY <1>1 DEF Between
    <3> QED
      BY <1>2, <1>3, <3>2, <3>3
  <2>2. fwd'.id = id /\ fwd'.pair = k
    BY <1>4
  <2>3. \A m \in Names : m[2] = Daemon /\ m \notin seen.apart \cup {n} => NoKey \in {keys'[m], certs[m]} \/ keys'[m] = certs[m]
    BY <1>6, <2>1 DEF Inv, Paired
  <2>4. keys'[n] = k
    BY <1>2, <1>6
  <2> QED
    BY <1>1, <1>5, <2>1, <2>2, <2>3, <2>4 DEF Inv, Paired
<1> QED
  BY <1>6, <1>7, <1>8, <1>9, <1>10, <1>11 DEF Inv

(* and its certificate, of the key it wrote.                               *)
LEMMA Stores ==
  ASSUME Inv, StoreIdentity
  PROVE  Inv'
<1> DEFINE n == <<fwd.id, Daemon>>
<1>1. /\ fwd.at = "certify" /\ UNCHANGED <<proc, keys, anchors, bags, seen>>
      /\ certs' = [certs EXCEPT ![n] = fwd.pair]
      /\ fwd' = [at |-> "load", id |-> fwd.id, pair |-> NoKey, trust |-> fwd.trust]
  BY FwdIs DEF StoreIdentity
<1>2. n \in Names /\ fwd.pair \in seen.made[n] /\ fwd.pair \in Pairs
  BY <1>1, NamesAre DEF Inv, Paired, KeyIds, TypesOK, SeenType
<1>3. certs' \in StoreType /\ \A m \in Names : certs'[m] = IF m = n THEN fwd.pair ELSE certs[m]
  BY <1>1, <1>2 DEF Inv, TypesOK, StoreType
<1>4. Known' = Known /\ Filed(keys)' = Filed(keys) /\ Filed(anchors)' = Filed(anchors)
  BY <1>1 DEF Known, Filed
<1>5. TypesOK'
  <2>1. fwd' \in FwdType
    BY <1>1, FwdIs DEF FwdType
  <2> QED
    BY <1>1, <1>3, <2>1 DEF Inv, TypesOK
<1>6. OneKey'
  BY <1>1, <1>2, <1>3, <1>4 DEF Inv, OneKey
<1>7. Paired'
  <2>1. Between = {n} /\ Between' = {} /\ fwd'.at = "load"
    BY <1>1, <1>2 DEF Between
  <2>2. n \in seen.apart \/ keys[n] \in {NoKey, fwd.pair}
    BY <1>1, <2>1 DEF Inv, Paired
  <2>3. \A m \in Names : m[2] = Daemon /\ m \notin seen.apart => NoKey \in {keys[m], certs'[m]} \/ keys[m] = certs'[m]
    BY <1>3, <2>1, <2>2 DEF Inv, Paired
  <2> QED
    BY <1>1, <2>1, <2>3 DEF Inv, Paired
<1>8. HoldersOK' /\ Seconds' /\ Unwritten' /\ RemovedStaysOut'
  BY <1>1, <1>4 DEF Inv, HoldersOK, Seconds, Unwritten, RemovedStaysOut
<1>9. Rivals'
  BY <1>1, <1>4, RivalsKept DEF Rival, BuildCertName
<1> QED
  BY <1>5, <1>6, <1>7, <1>8, <1>9 DEF Inv

LEMMA Forwards ==
  ASSUME Inv, Forwarder
  PROVE  Inv'
<1>1. CASE Restart
  <2>1. seen' = [seen EXCEPT !.apart = @ \cup Between]
    BY <1>1 DEF Restart
  <2>2. seen' = [made |-> seen.made, apart |-> seen.apart \cup Between, live |-> seen.live, blind |-> seen.blind,
                 removed |-> seen.removed, second |-> seen.second, gone |-> seen.gone]
    BY <2>1, SeenIs DEF Inv
  <2> QED
    BY <1>1, <2>2, FwdIs, Reads DEF Restart, pib
<1>2. ASSUME UNCHANGED <<proc, bags, keys, certs, anchors, seen>>, fwd.at # "certify", fwd' \in FwdType, fwd'.at # "certify"
      PROVE  Inv'
  <2>1. Between = {}
    BY <1>2 DEF Between
  <2>2. seen' = [made |-> seen.made, apart |-> seen.apart \cup Between, live |-> seen.live, blind |-> seen.blind,
                 removed |-> seen.removed, second |-> seen.second, gone |-> seen.gone]
    BY <1>2, <2>1, SeenIs DEF Inv
  <2> QED
    BY <1>2, <2>2, Reads
<1>3. ASSUME NEW id \in Ids, LoadIdentity(id)
      PROVE  Inv'
  <2>1. fwd' = [at |-> "load", id |-> id, pair |-> fwd.pair, trust |-> fwd.trust]
    BY <1>3, FwdIs DEF LoadIdentity
  <2> QED
    BY <1>2, <1>3, <2>1, FwdIs DEF LoadIdentity, FwdType, pib
<1>4. CASE Ephemeral
  <2>1. fwd' = [at |-> "load", id |-> fwd.id, pair |-> fwd.pair, trust |-> fwd.trust]
    BY <1>4, FwdIs DEF Ephemeral
  <2> QED
    BY <1>2, <1>4, <2>1, FwdIs DEF Ephemeral, FwdType, pib
<1>5. CASE LoadValidator
  <2>1. CASE fwd' = Off
    BY <1>2, <1>5, <2>1, FwdIs DEF LoadValidator, pib
  <2>2. CASE fwd' = [fwd EXCEPT !.trust = Append(@, Trusted(anchors))]
    <3>1. fwd' = [at |-> fwd.at, id |-> fwd.id, pair |-> fwd.pair, trust |-> Append(fwd.trust, Trusted(anchors))]
      BY <2>2, FwdIs
    <3>2. Trusted(anchors) \in SUBSET Ids
      BY NamesAre DEF Trusted, Filed
    <3>3. Append(fwd.trust, Trusted(anchors)) \in Seq(SUBSET Ids)
      BY <3>2, FwdIs
    <3> QED
      BY <1>2, <1>5, <3>1, <3>3, FwdIs DEF LoadValidator, FwdType, pib
  <2> QED
    BY <1>5, <2>1, <2>2 DEF LoadValidator
<1> QED
  BY <1>1, <1>3, <1>4, <1>5, Inits, Stores DEF Forwarder

LEMMA NextInv ==
  ASSUME Inv, [Next]_vars
  PROVE  Inv'
<1>1. ASSUME NEW p \in Procs, Sec(p)
      PROVE  Inv'
  BY <1>1, Starts, Finds, Checks, Generates, Certifies, AddsAnchor, Deletes, Anchors, Unanchors, Exports,
     Imports, Kills DEF Sec
<1>2. CASE UNCHANGED vars
  BY <1>2 DEF vars, Inv, TypesOK, OneKey, Paired, Between, HoldersOK, Seconds, Unwritten, Rivals, Rival, BuildCertName,
              RemovedStaysOut, Known, Filed
<1> QED
  BY <1>1, <1>2, Forwards DEF Next

(* What holds of the PIB, its commands and the forwarder in every state.   *)
THEOREM Invariance == Spec => []Inv
<1>1. Init => Inv
  BY InitInv
<1>2. Inv /\ [Next]_vars => Inv'
  BY NextInv
<1> QED
  BY <1>1, <1>2, PTL DEF Spec

(* The PIB under any commands, killed anywhere: what is filed under a name *)
(* belongs together; under the forwarder's, which is generated again over  *)
(* the last key (security_init.rs), unless something met it between its    *)
(* two writes; and an anchor that was removed is gone while its identity   *)
(* has one name (cmd_anchor_remove).                                       *)
THEOREM StoresAgreeHolds == Spec => []StoresAgree
<1>1. Inv => StoresAgree
  <2> SUFFICES ASSUME Inv, NEW n \in Names
               PROVE  /\ {keys[n], certs[n], anchors[n]} \subseteq seen.made[n] \cup {NoKey}
                      /\ n \notin seen.apart \cup Between => NoKey \in {keys[n], certs[n]} \/ keys[n] = certs[n]
                      /\ \/ n[2] = Daemon /\ \E j, k \in seen.made[n] : j # k
                         \/ \A j, k \in {keys[n], certs[n], anchors[n]} \ {NoKey} : j = k
    BY DEF Inv, StoresAgree, NamesAgree
  <2>1. {keys[n], certs[n], anchors[n]} \subseteq seen.made[n] \cup {NoKey}
    BY DEF Inv, OneKey
  <2>2. n[2] # Daemon => seen.made[n] \subseteq {n[2]}
    BY DEF Inv, OneKey
  <2>3. n[2] = Daemon /\ n \notin seen.apart \cup Between => NoKey \in {keys[n], certs[n]} \/ keys[n] = certs[n]
    BY DEF Inv, Paired
  <2> QED
    BY <2>1, <2>2, <2>3
<1> QED
  BY <1>1, Invariance, PTL

(* keygen --skip-if-exists: two runs leave two keys only when one looked   *)
(* while the other was about to write, or could not list the keys          *)
(* (cmd_keygen, find_cert_name).                                           *)
THEOREM SkipIsIdempotentHolds == Spec => []SkipIsIdempotent
<1>1. Inv => SkipIsIdempotent
  BY DEF Inv, Rivals, Rival, SkipIsIdempotent, At
<1> QED
  BY <1>1, Invariance, PTL

-----------------------------------------------------------------------------
(***************************************************************************)
(* The browser's store (IdbPib), for any tabs, names and keys.             *)
(***************************************************************************)
BagStore == [BagNames -> Keys \cup {Idb!Nil}]
Putting(t) == tab[t].at \in {"bag", "pass"}
PutRecord == [at : {"bag", "pass"}, name : BagNames, key : Keys]
ShapeOK(r) ==
  /\ r.at \in {"bag", "pass"} => r \in PutRecord
  /\ r.at = "getanchors" => r = [f \in {"at", "left", "keys"} |-> r[f]]
  /\ r.at = "clear" => r.next \in 1 .. 3
TabsOK ==
  /\ db = [bags |-> db.bags, passphrases |-> db.passphrases, anchors |-> db.anchors]
  /\ db.bags \in BagStore /\ db.passphrases \in BagStore
  /\ tab = [t \in Tabs |-> tab[t]]
  /\ \A t \in Tabs : ShapeOK(tab[t])

(* Whoever enrols a name next to another enrolment of it, or to a clear,   *)
(* tears it.                                                               *)
Beside(t, u) == u # t /\ Putting(u) /\ tab[u].name = tab[t].name
Alone ==
  \A t, u \in Tabs :
    Putting(t) /\ (Beside(t, u) \/ tab[u].at = "clear") => tab[t].name \in torn

(* Between its two writes an enrolment finds the bag it has filed.         *)
Opens ==
  \A t \in Tabs :
    tab[t].at = "pass" => db.bags[tab[t].name] = tab[t].key \/ tab[t].name \in torn

(* A bag whose passphrase is not there is torn, or its tab is about to     *)
(* write it; past the bags, a clear meets only bags that are torn.         *)
Awaited(n) == \E t \in Tabs : tab[t].at = "pass" /\ tab[t].name = n
Whole ==
  \A n \in BagNames :
    db.bags[n] \in {Idb!Nil, db.passphrases[n]} \/ n \in torn \/ Awaited(n)
Emptied ==
  (\E t \in Tabs : tab[t].at = "clear" /\ tab[t].next # 1)
    => \A n \in BagNames : db.bags[n] = Idb!Nil \/ n \in torn

IdbInv == TabsOK /\ Alone /\ Opens /\ Whole /\ Emptied

LEMMA IdbInitInv == Idb!IdbInit => IdbInv
<1> SUFFICES ASSUME Idb!IdbInit PROVE IdbInv
  OBVIOUS
<1>1. \A t \in Tabs : tab[t].at = "idle"
  BY DEF Idb!IdbInit, Idb!Idle
<1>2. /\ db = [bags |-> Idb!Empty, passphrases |-> Idb!Empty, anchors |-> Idb!Empty]
      /\ tab = [t \in Tabs |-> Idb!Idle]
  BY DEF Idb!IdbInit
<1>3. Idb!Empty \in BagStore
  BY DEF Idb!Empty, BagStore
<1>4. TabsOK
  BY <1>1, <1>2, <1>3 DEF TabsOK, ShapeOK
<1>5. Alone /\ Opens /\ Emptied
  BY <1>1 DEF Alone, Opens, Emptied, Putting
<1>6. \A n \in BagNames : Idb!Empty[n] = Idb!Nil
  BY DEF Idb!Empty
<1>7. Whole
  BY <1>2, <1>6 DEF Whole
<1> QED
  BY <1>4, <1>5, <1>7 DEF IdbInv

(* A step of a tab that writes nothing and is no enrolment or clear.       *)
LEMMA Browses ==
  ASSUME IdbInv, NEW t \in Tabs, NEW r, Idb!Goes(t, r),
         r.at \notin {"bag", "pass", "clear"}, ShapeOK(r),
         UNCHANGED db.bags, UNCHANGED db.passphrases,
         db' = [bags |-> db'.bags, passphrases |-> db'.passphrases, anchors |-> db'.anchors],
         torn \subseteq torn',
         tab[t].at = "pass" =>
           LET n == tab[t].name
           IN  db.bags[n] \in {Idb!Nil, db.passphrases[n]} \/ n \in torn'
  PROVE  IdbInv'
<1>1. /\ tab' = [tab EXCEPT ![t] = r] /\ tab = [u \in Tabs |-> tab[u]]
      /\ \A u \in Tabs : ShapeOK(tab[u])
  BY DEF Idb!Goes, IdbInv, TabsOK
<1>2. tab' = [u \in Tabs |-> tab'[u]] /\ tab'[t] = r /\ \A u \in Tabs \ {t} : tab'[u] = tab[u]
  BY <1>1
<1>3. \A u \in Tabs : tab'[u].at \in {"bag", "pass", "clear"} => u # t /\ tab'[u] = tab[u]
  BY <1>2
<1>4. TabsOK'
  <2>1. \A u \in Tabs : ShapeOK(tab'[u])
    BY <1>1, <1>2
  <2>2. (db.bags)' \in BagStore /\ (db.passphrases)' \in BagStore
    BY DEF IdbInv, TabsOK
  <2> QED
    BY <1>2, <2>1, <2>2 DEF TabsOK
<1>5. Alone'
  BY <1>3 DEF Alone, IdbInv, Putting, Beside
<1>6. Opens'
  BY <1>3 DEF Opens, IdbInv
<1>7. Whole'
  <2> SUFFICES ASSUME NEW n \in BagNames,
                      db.bags[n] \notin {Idb!Nil, db.passphrases[n]}, n \notin torn'
               PROVE  Awaited(n)'
    BY DEF Whole
  <2>1. PICK u \in Tabs : tab[u].at = "pass" /\ tab[u].name = n
    BY DEF IdbInv, Whole, Awaited
  <2>2. u # t
    BY <2>1
  <2> QED
    BY <1>2, <2>1, <2>2 DEF Awaited
<1>8. Emptied'
  BY <1>3 DEF Emptied, IdbInv
<1> QED
  BY <1>4, <1>5, <1>6, <1>7, <1>8 DEF IdbInv

LEMMA Enrols ==
  ASSUME IdbInv, NEW t \in Tabs, NEW n \in BagNames, NEW k \in Keys, Idb!Enrol(t, n, k)
  PROVE  IdbInv'
<1> DEFINE r == [at |-> "bag", name |-> n, key |-> k]
<1>1. /\ tab' = [tab EXCEPT ![t] = r] /\ tab = [u \in Tabs |-> tab[u]] /\ tab[t].at = "idle"
      /\ \A u \in Tabs : ShapeOK(tab[u])
      /\ db' = db /\ torn \subseteq torn'
  BY DEF Idb!Enrol, Idb!Goes, IdbInv, TabsOK
<1>2. /\ tab' = [u \in Tabs |-> tab'[u]] /\ tab'[t] = r
      /\ \A u \in Tabs \ {t} : tab'[u] = tab[u]
  BY <1>1
<1>3. r.at = "bag" /\ r.name = n /\ r \in PutRecord
  BY DEF PutRecord
<1> HIDE DEF r
<1>4. n \in torn' \/ \A u \in Tabs : ~ (Putting(u) /\ tab[u].name = n) /\ tab[u].at # "clear"
  BY DEF Idb!Enrol, Idb!Enrolling, Idb!Clearing, Putting
<1>5. TabsOK'
  <2>1. ShapeOK(r)
    BY <1>3 DEF ShapeOK
  <2>2. \A u \in Tabs : ShapeOK(tab'[u])
    BY <1>1, <1>2, <2>1
  <2> QED
    BY <1>1, <1>2, <2>2 DEF IdbInv, TabsOK
<1>6. Alone'
  <2> SUFFICES ASSUME NEW u \in Tabs, NEW v \in Tabs, Putting(u)',
                      Beside(u, v)' \/ tab'[v].at = "clear"
               PROVE  tab'[u].name \in torn'
    BY DEF Alone
  <2>1. CASE u # t /\ v # t
    BY <2>1, <1>1, <1>2 DEF IdbInv, Alone, Putting, Beside
  <2>2. CASE u = t
    <3>1. v # t
      BY <2>2, <1>2, <1>3 DEF Beside
    <3> QED
      BY <3>1, <2>2, <1>2, <1>3, <1>4 DEF Putting, Beside
  <2>3. CASE v = t /\ u # t
    BY <2>3, <1>2, <1>3, <1>4 DEF Putting, Beside
  <2> QED
    BY <2>1, <2>2, <2>3
<1>7. Opens'
  BY <1>1, <1>2, <1>3 DEF IdbInv, Opens
<1>8. \A m : Awaited(m) => Awaited(m)'
  <2> SUFFICES ASSUME NEW m, NEW u \in Tabs, tab[u].at = "pass", tab[u].name = m
               PROVE  Awaited(m)'
    BY DEF Awaited
  <2>1. u # t
    BY <1>1
  <2> QED
    BY <2>1, <1>2 DEF Awaited
<1>9. Whole'
  BY <1>1, <1>8 DEF IdbInv, Whole
<1>10. Emptied'
  BY <1>1, <1>2, <1>3 DEF IdbInv, Emptied
<1> QED
  BY <1>5, <1>6, <1>7, <1>9, <1>10 DEF IdbInv

LEMMA PutsSafebag ==
  ASSUME IdbInv, NEW t \in Tabs, Idb!PutSafebag(t)
  PROVE  IdbInv'
<1>0. PICK n, k, r : n = tab[t].name /\ k = tab[t].key /\ r = [tab[t] EXCEPT !.at = "pass"]
  OBVIOUS
<1>1. /\ tab' = [tab EXCEPT ![t] = r] /\ tab = [u \in Tabs |-> tab[u]] /\ tab[t].at = "bag"
      /\ \A u \in Tabs : ShapeOK(tab[u])
      /\ db' = [db EXCEPT !["bags"][n] = k] /\ torn' = torn
      /\ db = [bags |-> db.bags, passphrases |-> db.passphrases, anchors |-> db.anchors]
      /\ db.bags \in BagStore /\ db.passphrases \in BagStore
  BY <1>0 DEF Idb!PutSafebag, Idb!Goes, Idb!PutBytes, IdbInv, TabsOK
<1>2. tab[t] \in PutRecord
  BY <1>1 DEF ShapeOK
<1>3. n \in BagNames /\ k \in Keys /\ r \in PutRecord /\ r.at = "pass" /\ r.name = n /\ r.key = k
  BY <1>0, <1>2 DEF PutRecord
<1>4. /\ tab' = [u \in Tabs |-> tab'[u]] /\ tab'[t] = r
      /\ \A u \in Tabs \ {t} : tab'[u] = tab[u]
  BY <1>1
<1>5. /\ db' = [bags |-> db'.bags, passphrases |-> db'.passphrases, anchors |-> db'.anchors]
      /\ db'.bags = [db.bags EXCEPT ![n] = k] /\ db'.passphrases = db.passphrases
  BY <1>1
<1>6. /\ db'.bags[n] = k /\ db'.bags \in BagStore
      /\ \A m \in BagNames \ {n} : db'.bags[m] = db.bags[m]
  BY <1>1, <1>3, <1>5 DEF BagStore
<1>7. TabsOK'
  <2>1. ShapeOK(r)
    BY <1>3 DEF ShapeOK
  <2>2. \A u \in Tabs : ShapeOK(tab'[u])
    BY <1>1, <1>4, <2>1
  <2>3. (db.passphrases)' \in BagStore
    BY <1>1, <1>5
  <2> QED
    BY <1>4, <1>5, <1>6, <2>2, <2>3 DEF TabsOK
<1>8. /\ \A u \in Tabs : Putting(u)' <=> Putting(u)
      /\ \A u \in Tabs : Putting(u) => tab'[u].name = tab[u].name
      /\ \A u \in Tabs : tab'[u].at = "clear" <=> tab[u].at = "clear"
  BY <1>0, <1>1, <1>3, <1>4 DEF Putting
<1>9. Alone'
  BY <1>1, <1>8 DEF IdbInv, Alone, Beside
<1>10. \A u \in Tabs \ {t} : Putting(u) /\ tab[u].name = n => n \in torn
  BY <1>0, <1>1 DEF IdbInv, Alone, Beside, Putting
<1>11. Opens'
  <2> SUFFICES ASSUME NEW u \in Tabs, tab'[u].at = "pass", tab'[u].name \notin torn
               PROVE  db'.bags[tab'[u].name] = tab'[u].key
    BY <1>1 DEF Opens
  <2>1. CASE u = t
    BY <2>1, <1>3, <1>4, <1>6
  <2>2. CASE u # t
    <3>1. tab'[u] = tab[u] /\ tab[u].name # n /\ tab[u].name \in BagNames
      BY <2>2, <1>1, <1>4, <1>10 DEF Putting, ShapeOK, PutRecord
    <3>2. db.bags[tab[u].name] = tab[u].key
      BY <3>1 DEF IdbInv, Opens
    <3> QED
      BY <3>1, <3>2, <1>6
  <2> QED
    BY <2>1, <2>2
<1>12. Awaited(n)' /\ \A m : Awaited(m) => Awaited(m)'
  <2>1. Awaited(n)'
    BY <1>3, <1>4 DEF Awaited
  <2>2. ASSUME NEW m, NEW u \in Tabs, tab[u].at = "pass", tab[u].name = m
        PROVE  Awaited(m)'
    <3>1. u # t
      BY <2>2, <1>1
    <3> QED
      BY <3>1, <2>2, <1>4 DEF Awaited
  <2> QED
    BY <2>1, <2>2 DEF Awaited
<1>13. Whole'
  <2>1. ASSUME NEW m \in BagNames
        PROVE  db'.bags[m] \in {Idb!Nil, db'.passphrases[m]} \/ m \in torn' \/ Awaited(m)'
    <3>1. CASE m = n
      BY <3>1, <1>12
    <3>2. CASE m # n
      <4>1. db.bags[m] \in {Idb!Nil, db.passphrases[m]} \/ m \in torn \/ Awaited(m)
        BY DEF IdbInv, Whole
      <4>2. db'.bags[m] = db.bags[m]
        BY <3>2, <1>6
      <4> QED
        BY <4>1, <4>2, <1>1, <1>5, <1>12
    <3> QED
      BY <3>1, <3>2
  <2> QED
    BY <2>1 DEF Whole
<1>14. Emptied'
  <2> SUFFICES ASSUME NEW u \in Tabs, tab'[u].at = "clear", tab'[u].next # 1,
                      NEW m \in BagNames
               PROVE  db'.bags[m] = Idb!Nil \/ m \in torn
    BY <1>1 DEF Emptied
  <2>1. tab'[u] = tab[u]
    BY <1>3, <1>4
  <2>2. n \in torn
    BY <2>1, <1>0, <1>1 DEF IdbInv, Alone, Putting
  <2>3. db.bags[m] = Idb!Nil \/ m \in torn
    BY <2>1 DEF IdbInv, Emptied
  <2> QED
    BY <2>2, <2>3, <1>6
<1> QED
  BY <1>7, <1>9, <1>11, <1>13, <1>14 DEF IdbInv

LEMMA PutsPassphrase ==
  ASSUME IdbInv, NEW t \in Tabs, Idb!PutPassphrase(t)
  PROVE  IdbInv'
<1>0. PICK n, k, r : n = tab[t].name /\ k = tab[t].key /\ r = [tab[t] EXCEPT !.at = "anchor"]
  OBVIOUS
<1>1. /\ tab' = [tab EXCEPT ![t] = r] /\ tab = [u \in Tabs |-> tab[u]] /\ tab[t].at = "pass"
      /\ \A u \in Tabs : ShapeOK(tab[u])
      /\ db' = [db EXCEPT !["passphrases"][n] = k] /\ torn' = torn
      /\ db = [bags |-> db.bags, passphrases |-> db.passphrases, anchors |-> db.anchors]
      /\ db.bags \in BagStore /\ db.passphrases \in BagStore
  BY <1>0 DEF Idb!PutPassphrase, Idb!Goes, Idb!PutBytes, IdbInv, TabsOK
<1>2. tab[t] \in PutRecord
  BY <1>1 DEF ShapeOK
<1>3. n \in BagNames /\ k \in Keys /\ r.at = "anchor"
  BY <1>0, <1>2 DEF PutRecord
<1>4. /\ tab' = [u \in Tabs |-> tab'[u]] /\ tab'[t] = r
      /\ \A u \in Tabs \ {t} : tab'[u] = tab[u]
  BY <1>1
<1>5. /\ db' = [bags |-> db'.bags, passphrases |-> db'.passphrases, anchors |-> db'.anchors]
      /\ db'.passphrases = [db.passphrases EXCEPT ![n] = k] /\ db'.bags = db.bags
  BY <1>1
<1>6. /\ db'.passphrases[n] = k /\ db'.passphrases \in BagStore
      /\ \A m \in BagNames \ {n} : db'.passphrases[m] = db.passphrases[m]
  BY <1>1, <1>3, <1>5 DEF BagStore
<1>7. \A u \in Tabs : tab'[u].at \in {"bag", "pass", "clear"} => u # t /\ tab'[u] = tab[u]
  BY <1>3, <1>4
<1>8. TabsOK'
  <2>1. ShapeOK(r)
    BY <1>3 DEF ShapeOK
  <2>2. \A u \in Tabs : ShapeOK(tab'[u])
    BY <1>1, <1>4, <2>1
  <2>3. (db.bags)' \in BagStore
    BY <1>1, <1>5
  <2> QED
    BY <1>4, <1>5, <1>6, <2>2, <2>3 DEF TabsOK
<1>9. Alone'
  BY <1>1, <1>7 DEF Alone, IdbInv, Putting, Beside
<1>10. Opens'
  BY <1>1, <1>5, <1>7 DEF Opens, IdbInv
<1>11. Whole'
  <2>1. ASSUME NEW m \in BagNames
        PROVE  db'.bags[m] \in {Idb!Nil, db'.passphrases[m]} \/ m \in torn' \/ Awaited(m)'
    <3>1. CASE m = n
      <4>1. db.bags[n] = k \/ n \in torn
        BY <1>0, <1>1 DEF IdbInv, Opens
      <4> QED
        BY <3>1, <4>1, <1>1, <1>5, <1>6
    <3>2. CASE m # n
      <4>1. db.bags[m] \in {Idb!Nil, db.passphrases[m]} \/ m \in torn \/ Awaited(m)
        BY DEF IdbInv, Whole
      <4>2. Awaited(m) => Awaited(m)'
        BY <3>2, <1>0, <1>4 DEF Awaited
      <4>3. db'.passphrases[m] = db.passphrases[m]
        BY <3>2, <1>6
      <4> QED
        BY <4>1, <4>2, <4>3, <1>1, <1>5
    <3> QED
      BY <3>1, <3>2
  <2> QED
    BY <2>1 DEF Whole
<1>12. Emptied'
  BY <1>1, <1>5, <1>7 DEF Emptied, IdbInv
<1> QED
  BY <1>8, <1>9, <1>10, <1>11, <1>12 DEF IdbInv

LEMMA StartsClear ==
  ASSUME IdbInv, NEW t \in Tabs, Idb!StartClear(t)
  PROVE  IdbInv'
<1>0. PICK r : r = [at |-> "clear", next |-> 1]
  OBVIOUS
<1>1. /\ tab' = [tab EXCEPT ![t] = r] /\ tab = [u \in Tabs |-> tab[u]] /\ tab[t].at = "idle"
      /\ \A u \in Tabs : ShapeOK(tab[u])
      /\ db' = db /\ torn \subseteq torn'
  BY <1>0 DEF Idb!StartClear, Idb!Goes, IdbInv, TabsOK
<1>2. /\ tab' = [u \in Tabs |-> tab'[u]] /\ tab'[t] = r
      /\ \A u \in Tabs \ {t} : tab'[u] = tab[u]
  BY <1>1
<1>3. r.at = "clear" /\ r.next = 1
  BY <1>0
<1>4. \A u \in Tabs : Putting(u) => tab[u].name \in torn'
  <2> SUFFICES ASSUME NEW u \in Tabs, Putting(u) PROVE tab[u].name \in torn'
    OBVIOUS
  <2>1. tab[u].name \in BagNames
    BY <1>1 DEF Putting, ShapeOK, PutRecord
  <2>2. u \in Idb!Enrolling(tab[u].name)
    BY DEF Idb!Enrolling, Putting
  <2> QED
    BY <2>1, <2>2 DEF Idb!StartClear
<1>5. \A u \in Tabs : tab'[u].at \in {"bag", "pass"} => u # t /\ tab'[u] = tab[u]
  BY <1>2, <1>3
<1>6. TabsOK'
  <2>1. ShapeOK(r)
    BY <1>3 DEF ShapeOK
  <2>2. \A u \in Tabs : ShapeOK(tab'[u])
    BY <1>1, <1>2, <2>1
  <2> QED
    BY <1>1, <1>2, <2>2 DEF IdbInv, TabsOK
<1>7. Alone'
  BY <1>4, <1>5 DEF Alone, Putting
<1>8. Opens'
  BY <1>1, <1>5 DEF IdbInv, Opens
<1>9. \A m : Awaited(m) => Awaited(m)'
  <2> SUFFICES ASSUME NEW m, NEW u \in Tabs, tab[u].at = "pass", tab[u].name = m
               PROVE  Awaited(m)'
    BY DEF Awaited
  <2>1. u # t
    BY <1>1
  <2> QED
    BY <2>1, <1>2 DEF Awaited
<1>10. Whole'
  BY <1>1, <1>9 DEF IdbInv, Whole
<1>11. Emptied'
  BY <1>1, <1>2, <1>3 DEF IdbInv, Emptied
<1> QED
  BY <1>6, <1>7, <1>8, <1>10, <1>11 DEF IdbInv

LEMMA Clears ==
  ASSUME IdbInv, NEW t \in Tabs, Idb!Clear(t)
  PROVE  IdbInv'
<1>0. PICK i, r : /\ i = tab[t].next
                  /\ r = IF i = 3 THEN Idb!Idle ELSE [at |-> "clear", next |-> i + 1]
  OBVIOUS
<1>1. /\ tab' = [tab EXCEPT ![t] = r] /\ tab = [u \in Tabs |-> tab[u]]
      /\ tab[t].at = "clear" /\ i \in 1 .. 3
      /\ \A u \in Tabs : ShapeOK(tab[u])
      /\ db' = [db EXCEPT ![Idb!Stores[i]] = Idb!Empty] /\ torn' = torn
      /\ db = [bags |-> db.bags, passphrases |-> db.passphrases, anchors |-> db.anchors]
      /\ db.bags \in BagStore /\ db.passphrases \in BagStore
  <2>1. i \in 1 .. 3
    BY <1>0 DEF Idb!Clear, IdbInv, TabsOK, ShapeOK
  <2>2. Len(Idb!Stores) = 3
    BY DEF Idb!Stores
  <2> QED
    BY <1>0, <2>1, <2>2 DEF Idb!Clear, Idb!Goes, IdbInv, TabsOK
<1>2. /\ tab' = [u \in Tabs |-> tab'[u]] /\ tab'[t] = r
      /\ \A u \in Tabs \ {t} : tab'[u] = tab[u]
  BY <1>1
<1>3. /\ r.at \in {"idle", "clear"}
      /\ r.at = "clear" => r.next \in 2 .. 3
  BY <1>0, <1>1 DEF Idb!Idle
<1>4. Idb!Empty \in BagStore /\ \A m \in BagNames : Idb!Empty[m] = Idb!Nil
  BY DEF Idb!Empty, BagStore
<1>5. Idb!Stores[1] = "bags" /\ Idb!Stores[2] = "passphrases" /\ Idb!Stores[3] = "anchors"
  BY DEF Idb!Stores
<1>6. /\ db' = [bags |-> db'.bags, passphrases |-> db'.passphrases, anchors |-> db'.anchors]
      /\ db'.bags = IF i = 1 THEN Idb!Empty ELSE db.bags
      /\ db'.passphrases = IF i = 2 THEN Idb!Empty ELSE db.passphrases
  <2>1. PICK B, P, A : db = [bags |-> B, passphrases |-> P, anchors |-> A]
    BY <1>1
  <2>2. i = 1 => db' = [bags |-> Idb!Empty, passphrases |-> P, anchors |-> A]
    BY <1>1, <1>5, <2>1
  <2>3. i = 2 => db' = [bags |-> B, passphrases |-> Idb!Empty, anchors |-> A]
    BY <1>1, <1>5, <2>1
  <2>4. i = 3 => db' = [bags |-> B, passphrases |-> P, anchors |-> Idb!Empty]
    BY <1>1, <1>5, <2>1
  <2>5. i \in 1 .. 3
    BY <1>1
  <2>6. db.bags = B /\ db.passphrases = P
    BY <2>1
  <2>7. CASE i = 1
    BY <2>2, <2>6, <2>7
  <2>8. CASE i = 2
    BY <2>3, <2>6, <2>8
  <2>9. CASE i = 3
    BY <2>4, <2>6, <2>9
  <2> QED
    BY <2>5, <2>7, <2>8, <2>9
<1>7. \A u \in Tabs : tab'[u].at \in {"bag", "pass"} => u # t /\ tab'[u] = tab[u]
  BY <1>2, <1>3
<1>8. \A u \in Tabs : Putting(u) => tab[u].name \in torn
  BY <1>1 DEF IdbInv, Alone
<1>9. TabsOK'
  <2>1. ShapeOK(r)
    BY <1>3 DEF ShapeOK
  <2>2. \A u \in Tabs : ShapeOK(tab'[u])
    BY <1>1, <1>2, <2>1
  <2>3. (db.bags)' \in BagStore /\ (db.passphrases)' \in BagStore
    BY <1>1, <1>4, <1>6
  <2> QED
    BY <1>2, <1>6, <2>2, <2>3 DEF TabsOK
<1>10. Alone' /\ Opens'
  BY <1>1, <1>7, <1>8 DEF Alone, Opens, Putting
<1>11. i # 1 => \A m \in BagNames : db.bags[m] = Idb!Nil \/ m \in torn
  BY <1>0, <1>1 DEF IdbInv, Emptied
<1>12. \A m \in BagNames : db'.bags[m] = Idb!Nil \/ m \in torn
  BY <1>4, <1>6, <1>11
<1>13. Whole' /\ Emptied'
  BY <1>1, <1>12 DEF Whole, Emptied
<1> QED
  BY <1>9, <1>10, <1>13 DEF IdbInv

(* What a tab that builds a signer or a validator goes on to, or one that  *)
(* is closed.                                                              *)
LEMMA TabSteps ==
  ASSUME IdbInv, NEW t \in Tabs,
         \/ Idb!PutAnchor(t) \/ Idb!ListSafebags(t) \/ Idb!GetSafebag(t)
         \/ Idb!BuildSigner(t) \/ Idb!ListAnchors(t) \/ Idb!BuildValidator(t) \/ Idb!CloseTab(t)
  PROVE  IdbInv'
<1>1. db = [bags |-> db.bags, passphrases |-> db.passphrases, anchors |-> db.anchors]
  BY DEF IdbInv, TabsOK
<1>2. CASE Idb!PutAnchor(t)
  <2>1. /\ db' = [db EXCEPT !["anchors"][tab[t].name] = tab[t].key]
        /\ Idb!Goes(t, Idb!Idle) /\ tab[t].at = "anchor" /\ torn' = torn
    BY <1>2 DEF Idb!PutAnchor, Idb!PutBytes
  <2>2. /\ db' = [bags |-> db'.bags, passphrases |-> db'.passphrases, anchors |-> db'.anchors]
        /\ UNCHANGED db.bags /\ UNCHANGED db.passphrases
    BY <2>1, <1>1
  <2>3. ShapeOK(Idb!Idle) /\ Idb!Idle.at = "idle"
    BY DEF ShapeOK, Idb!Idle
  <2> QED
    BY <2>1, <2>2, <2>3, Browses
<1>3. CASE \/ Idb!ListSafebags(t) \/ Idb!GetSafebag(t) \/ Idb!BuildSigner(t)
           \/ Idb!ListAnchors(t) \/ Idb!BuildValidator(t)
  <2>1. db' = db /\ torn' = torn /\ tab[t].at # "pass"
    BY <1>3 DEF Idb!ListSafebags, Idb!GetSafebag, Idb!BuildSigner, Idb!ListAnchors,
                Idb!BuildValidator
  <2>2. PICK r : Idb!Goes(t, r) /\ r.at \notin {"bag", "pass", "clear"} /\ ShapeOK(r)
    <3>1. CASE Idb!ListSafebags(t) \/ Idb!GetSafebag(t) \/ Idb!BuildSigner(t)
      BY <3>1 DEF Idb!ListSafebags, Idb!GetSafebag, Idb!BuildSigner, ShapeOK
    <3>2. CASE Idb!ListAnchors(t)
      BY <3>2 DEF Idb!ListAnchors, ShapeOK
    <3>3. CASE Idb!BuildValidator(t)
      <4>1. tab[t].at = "getanchors" /\ ShapeOK(tab[t])
        BY <3>3 DEF Idb!BuildValidator, IdbInv, TabsOK
      <4>2. CASE tab[t].left = {}
        <5>1. Idb!Goes(t, [at |-> "validator", some |-> TRUE, keys |-> tab[t].keys])
          BY <3>3, <4>2 DEF Idb!BuildValidator
        <5> QED
          BY <5>1 DEF ShapeOK
      <4>3. CASE tab[t].left # {}
        <5>1. PICK l, k : Idb!Goes(t, [tab[t] EXCEPT !.left = l, !.keys = k])
          BY <3>3, <4>3 DEF Idb!BuildValidator
        <5>2. PICK q : q = [tab[t] EXCEPT !.left = l, !.keys = k]
          OBVIOUS
        <5>3. q = [f \in {"at", "left", "keys"} |-> q[f]] /\ q.at = "getanchors"
          BY <4>1, <5>2 DEF ShapeOK
        <5> QED
          BY <5>1, <5>2, <5>3 DEF ShapeOK
      <4> QED
        BY <4>2, <4>3
    <3> QED
      BY <1>3, <3>1, <3>2, <3>3
  <2> QED
    BY <2>1, <2>2, <1>1, Browses
<1>4. CASE Idb!CloseTab(t)
  <2>1. /\ Idb!Goes(t, Idb!Idle) /\ db' = db /\ torn \subseteq torn'
        /\ tab[t].at = "pass" => tab[t].name \in torn'
    BY <1>4 DEF Idb!CloseTab
  <2>2. ShapeOK(Idb!Idle) /\ Idb!Idle.at = "idle"
    BY DEF ShapeOK, Idb!Idle
  <2> QED
    BY <2>1, <2>2, <1>1, Browses
<1> QED
  BY <1>2, <1>3, <1>4

LEMMA IdbNextInv == IdbInv /\ [Idb!IdbNext]_(Idb!idbVars) => IdbInv'
<1> SUFFICES ASSUME IdbInv, [Idb!IdbNext]_(Idb!idbVars) PROVE IdbInv'
  OBVIOUS
<1>1. CASE UNCHANGED Idb!idbVars
  BY <1>1 DEF Idb!idbVars, IdbInv, TabsOK, Alone, Beside, Putting, Opens, Whole, Awaited, Emptied
<1>2. CASE Idb!IdbNext
  BY <1>2, Enrols, PutsSafebag, PutsPassphrase, StartsClear, Clears, TabSteps DEF Idb!IdbNext
<1> QED
  BY <1>1, <1>2

(* A bag in the browser's store has its passphrase, unless its enrolment   *)
(* is under way, stopped half way or ran against a clear or another        *)
(* enrolment of its name: clear's order (wasm.rs) leaves none behind.      *)
THEOREM BagsKeepPassphraseHolds == Idb!IdbSpec => []BagsKeepPassphrase
<1>1. Idb!IdbInit => IdbInv
  BY IdbInitInv
<1>2. IdbInv /\ [Idb!IdbNext]_(Idb!idbVars) => IdbInv'
  BY IdbNextInv
<1>3. IdbInv => BagsKeepPassphrase
  <2> SUFFICES ASSUME IdbInv, NEW n \in Idb!Stored("bags")
               PROVE  \/ db.passphrases[n] = db.bags[n] \/ n \in torn
                      \/ Idb!Enrolling(n) # {}
    BY DEF BagsKeepPassphrase, Idb!BagsKeepPassphrase
  <2>1. n \in BagNames /\ db.bags[n] # Idb!Nil
    BY DEF Idb!Stored
  <2>2. db.bags[n] = db.passphrases[n] \/ n \in torn \/ Awaited(n)
    BY <2>1 DEF IdbInv, Whole
  <2> QED
    BY <2>2 DEF Awaited, Idb!Enrolling
<1> QED
  BY <1>1, <1>2, <1>3, PTL DEF Idb!IdbSpec
=============================================================================

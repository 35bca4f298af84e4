------------------------------ MODULE KeyStore ------------------------------
(***************************************************************************)
(* A file PIB shared by the commands of ndn-sec                            *)
(* (binaries/tooling/ndn-tools/src/sec.rs) and a forwarder that starts     *)
(* from it (ndn-fwd: security_init.rs, host_helpers.rs).  Commands are     *)
(* processes of their own: they run at once, and die between two of their  *)
(* writes; nothing locks the directory.                                    *)
(*                                                                         *)
(* FilePib is outside this repository.  From its use: a key, a certificate *)
(* and a trust anchor are each written and removed in a call of their own, *)
(* under the certificate's name, and the keys are listed in no particular  *)
(* order.                                                                  *)
(***************************************************************************)
EXTENDS Naturals, Sequences, FiniteSets

CONSTANTS
    Ids,        \* identities
    Procs,      \* ndn-sec processes; also the key ids of what they generate
    Commands,   \* the command lines they may be started with
    Daemon,     \* key id of what the forwarder generates, the same every time
    Fresh,      \* key pairs the forwarder generates
    Validators, \* validators the forwarder is configured with: management, local hop
                \* and discovery, in this order
    Foreign     \* key id and key pair of a SafeBag made elsewhere

NoKey == "none"
KeyIds == Procs \cup {Daemon, Foreign}
Names == Ids \X KeyIds
Pairs == Procs \cup {Foreign} \cup Fresh   \* a keygen makes one

ASSUME KeyStoreAssumption ==
    /\ Daemon \notin Procs /\ Foreign \notin Procs /\ Daemon # Foreign
    /\ NoKey \notin KeyIds \cup Fresh
    /\ Fresh \cap (Procs \cup {Foreign}) = {}
    /\ Validators \in 0 .. 3
    /\ Commands \subseteq [do : {"keygen", "delete", "anchor", "unanchor", "export", "import"},
                           id : Ids, anchor : BOOLEAN, skip : BOOLEAN]

VARIABLES
    proc,       \* process -> where it is, its command line, the certificate name it
                \* works on and the key pair it holds
    created,    \* the PIB directory exists
    keys,       \* certificate name -> the key pair filed under it, or NoKey
    certs,      \* certificate name -> the key pair its certificate binds, or NoKey
    anchors,    \* certificate name -> the key pair of the anchor, or NoKey
    bags,       \* SafeBag files: certificate name, the key pair and the certificate's
    fwd,        \* the forwarder: where its startup is, its identity, the key pair it is
                \* writing, whom each validator trusts
    seen        \* history for the properties (below)

pib == <<created, keys, certs, anchors>>
vars == <<proc, created, keys, certs, anchors, bags, fwd, seen>>

Filed(store) == {n \in Names : store[n] # NoKey}
Trusted(store) == {n[1] : n \in Filed(store)}
Of(id) == {n \in Names : n[1] = id}
Off == [at |-> "off", id |-> NoKey, pair |-> NoKey, trust |-> <<>>]

\* The name whose key the forwarder has written and whose certificate it has not.
Between == {n \in Names : fwd.at = "certify" /\ n = <<fwd.id, Daemon>>}

\* seen.made     certificate name -> the key pairs generated under it
\* seen.apart    forwarder's names that a kill, an export or an import met between
\*               the write of the key and that of its certificate
\* seen.live     generators that had not ended when each generator looked
\* seen.blind    generators that took a failed listing for no key
\* seen.removed  identities whose anchor a command has removed, none added since
\* seen.second   identities that have had keys under two names
\* seen.gone     names that were deleted
Init ==
    /\ proc = [p \in Procs |-> [at |-> "idle"]]
    /\ created = FALSE
    /\ keys = [n \in Names |-> NoKey]
    /\ certs = [n \in Names |-> NoKey]
    /\ anchors = [n \in Names |-> NoKey]
    /\ bags = {[name |-> <<i, Foreign>>, key |-> Foreign, cert |-> Foreign] : i \in Ids}
    /\ fwd = Off
    /\ seen = [made |-> [n \in Names |-> {Foreign} \cap {n[2]}], apart |-> {},
               live |-> [p \in Procs |-> {}], blind |-> {}, removed |-> {}, second |-> {}, gone |-> {}]

At(p, label) == proc[p].at = label
Moves(p, r) == proc' = [proc EXCEPT ![p] = r]
Goes(p, label) == Moves(p, [proc[p] EXCEPT !.at = label])
Holds(p, label, n, k) == Moves(p, [at |-> label, cmd |-> proc[p].cmd, name |-> n, pair |-> k])
Ends(p, how) == Moves(p, [at |-> how, cmd |-> proc[p].cmd])

\* An identity that gains a key under a further name.
Gains(n) == seen.second \cup {i \in {n[1]} : (Filed(keys) \cup Filed(anchors) \cup seen.gone) \cap (Of(i) \ {n}) # {}}

-----------------------------------------------------------------------------
(* main: the command line is parsed and the PIB opened.  keygen and import *)
(* make the directory, the others fail without it.                         *)

Start(p) ==
    /\ At(p, "idle")
    /\ \E c \in Commands :
        /\ created' = (created \/ c.do \in {"keygen", "import"})
        /\ Moves(p, [at |-> CASE c.do = "keygen" -> "check"
                             [] c.do = "import" -> "store"
                             [] OTHER -> IF created THEN "find" ELSE "failed",
                     cmd |-> c])
    /\ UNCHANGED <<keys, certs, anchors, bags, fwd, seen>>

\* find_cert_name: the first key of the identity in the order of the listing.
FindCertName(id) == {n \in Filed(keys) : n[1] = id}

\* None is found, or the listing fails, which is taken for none.
Find(p) ==
    /\ At(p, "find")
    /\ \/ Ends(p, "failed")
       \/ \E n \in FindCertName(proc[p].cmd.id) : Holds(p, proc[p].cmd.do, n, NoKey)
    /\ UNCHANGED <<pib, bags, fwd, seen>>

-----------------------------------------------------------------------------
(* cmd_keygen *)

\* Mutant of BuildCertName: the key id is left out.
BuildCertNameFixed(p) == <<proc[p].cmd.id, Foreign>>

\* build_cert_name: the key id is the current time in nanoseconds.
BuildCertName(p) == <<proc[p].cmd.id, p>>

\* The generators that have looked and not written yet.
Looked == {q \in Procs : At(q, "generate")}

\* An identity counts as present when one of its names is filed in present, unless
\* the PIB cannot be opened or listed: then nothing is present.
Looks(p, present) ==
    /\ At(p, "check")
    /\ LET exists == proc[p].cmd.skip /\ Filed(present) \cap Of(proc[p].cmd.id) # {} IN
        \/ exists /\ Ends(p, "skipped") /\ seen' = [seen EXCEPT !.live[p] = Looked]
        \/ /\ Goes(p, "generate")
           /\ seen' = [seen EXCEPT !.live[p] = Looked, !.blind = @ \cup {q \in {p} : exists}]
    /\ UNCHANGED <<pib, bags, fwd>>

\* Mutant of Check: an identity without a certificate counts as missing.
CheckCert(p) == Looks(p, certs)

\* --skip-if-exists
Check(p) == Looks(p, keys)

Generate(p) ==
    /\ At(p, "generate")
    /\ LET n == BuildCertName(p) IN
        /\ keys' = [keys EXCEPT ![n] = p]
        /\ Holds(p, "certify", n, p)
        /\ seen' = [seen EXCEPT !.second = Gains(n), !.made[n] = @ \cup {p}]
    /\ UNCHANGED <<created, certs, anchors, bags, fwd>>

\* store_cert
Certify(p) ==
    /\ At(p, "certify")
    /\ certs' = [certs EXCEPT ![proc[p].name] = proc[p].pair]
    /\ IF proc[p].cmd.anchor THEN Goes(p, "add") ELSE Ends(p, "ok")
    /\ UNCHANGED <<created, keys, anchors, bags, fwd, seen>>

\* add_trust_anchor: the certificate held in memory, whatever became of the file.
AddAnchor(p) ==
    /\ At(p, "add")
    /\ anchors' = [anchors EXCEPT ![proc[p].name] = proc[p].pair]
    /\ Ends(p, "ok")
    /\ seen' = [seen EXCEPT !.removed = @ \ {proc[p].name[1]}]
    /\ UNCHANGED <<created, keys, certs, bags, fwd>>

-----------------------------------------------------------------------------
(* The commands on a key that was found. *)

\* cmd_delete: key and certificate go; the anchor does not.
Delete(p) ==
    /\ At(p, "delete")
    /\ LET n == proc[p].name IN
        IF n \in Filed(keys)
        THEN /\ keys' = [keys EXCEPT ![n] = NoKey]
             /\ certs' = [certs EXCEPT ![n] = NoKey]
             /\ seen' = [seen EXCEPT !.gone = @ \cup {n}]
             /\ Ends(p, "ok")
        ELSE Ends(p, "failed") /\ UNCHANGED <<keys, certs, seen>>
    /\ UNCHANGED <<created, anchors, bags, fwd>>

\* cmd_anchor_add reads the certificate, then adds it.
Anchor(p) ==
    /\ At(p, "anchor")
    /\ LET n == proc[p].name IN
        IF certs[n] = NoKey THEN Ends(p, "failed") ELSE Holds(p, "add", n, certs[n])
    /\ UNCHANGED <<pib, bags, fwd, seen>>

\* cmd_anchor_remove
Unanchor(p) ==
    /\ At(p, "unanchor")
    /\ anchors' = [anchors EXCEPT ![proc[p].name] = NoKey]
    /\ seen' = [seen EXCEPT !.removed = @ \cup {proc[p].cmd.id}]
    /\ Ends(p, "ok")
    /\ UNCHANGED <<created, keys, certs, bags, fwd>>

\* cmd_export: the passphrase is empty, or mistyped when it is confirmed; or
\* key and certificate are packed.
Export(p) ==
    /\ At(p, "export")
    /\ LET n == proc[p].name IN
        \/ Ends(p, "failed") /\ UNCHANGED <<bags, seen>>
        \/ /\ n \in Filed(keys) /\ n \in Filed(certs)
           /\ bags' = bags \cup {[name |-> n, key |-> keys[n], cert |-> certs[n]]}
           /\ seen' = [seen EXCEPT !.apart = @ \cup (Between \cap {n})]
           /\ Ends(p, "ok")
    /\ UNCHANGED <<pib, fwd>>

-----------------------------------------------------------------------------
(* cmd_import: the bag names its certificate.  A wrong passphrase stores   *)
(* nothing.                                                                *)

Import(p) ==
    /\ At(p, "store")
    /\ \/ Ends(p, "failed") /\ UNCHANGED <<keys, certs, seen>>
       \/ \E b \in bags :
            /\ keys' = [keys EXCEPT ![b.name] = b.key]
            /\ certs' = [certs EXCEPT ![b.name] = b.cert]
            /\ seen' = [seen EXCEPT !.second = Gains(b.name), !.apart = @ \cup (Between \cap {b.name})]
            /\ IF proc[p].cmd.anchor THEN Holds(p, "add", b.name, b.cert) ELSE Ends(p, "ok")
    /\ UNCHANGED <<created, anchors, bags, fwd>>

Running(p) == proc[p].at \notin {"idle", "ok", "skipped", "failed"}

\* Ctrl-C, a reboot: what was written stays.
Kill(p) ==
    /\ Running(p)
    /\ Ends(p, "failed")
    /\ UNCHANGED <<pib, bags, fwd, seen>>

-----------------------------------------------------------------------------
(* The forwarder: load_security, then the validators in main's order.      *)

Usable(id) == {n \in Of(id) : keys[n] # NoKey /\ certs[n] # NoKey}

\* from_pib, auto_init: the identity of a key with its certificate.
LoadIdentity(id) ==
    /\ fwd.at = "off" /\ created /\ Usable(id) # {}
    /\ fwd' = [fwd EXCEPT !.at = "load", !.id = id]
    /\ UNCHANGED <<proc, pib, bags, seen>>

\* auto_init, or choice 1 of the recovery menu after the identity failed to load
\* (also for an error of the PIB): a new key pair is stored under the forwarder's
\* one name, over an existing key,
InitIdentity(id) ==
    /\ fwd.at = "off"
    /\ \E k \in Fresh \ UNION {seen.made[n] : n \in Names} :
        LET n == <<id, Daemon>> IN
        /\ created' = TRUE
        /\ keys' = [keys EXCEPT ![n] = k]
        /\ fwd' = [fwd EXCEPT !.at = "certify", !.id = id, !.pair = k]
        /\ seen' = [seen EXCEPT !.second = Gains(n), !.made[n] = @ \cup {k}]
    /\ UNCHANGED <<proc, certs, anchors, bags>>

\* and then its certificate.
StoreIdentity ==
    /\ fwd.at = "certify"
    /\ certs' = [certs EXCEPT ![<<fwd.id, Daemon>>] = fwd.pair]
    /\ fwd' = [fwd EXCEPT !.at = "load", !.pair = NoKey]
    /\ UNCHANGED <<proc, created, keys, anchors, bags, seen>>

\* recover_from_pib_error, make_ephemeral: no identity is configured, or it fails
\* to load.  The operator who aborts leaves the forwarder off.
Ephemeral ==
    /\ fwd.at = "off"
    /\ fwd' = [fwd EXCEPT !.at = "load"]
    /\ UNCHANGED <<proc, pib, bags, seen>>

\* load_mgmt_validator, load_localhop_validator, load_discovery_verifier: the anchors
\* are read; a PIB that cannot be read, or has none, ends the startup.
LoadValidator ==
    /\ fwd.at = "load" /\ Len(fwd.trust) < Validators
    /\ \/ Filed(anchors) # {} /\ fwd' = [fwd EXCEPT !.trust = Append(@, Trusted(anchors))]
       \/ fwd' = Off
    /\ UNCHANGED <<proc, pib, bags, seen>>

\* The process ends, at any point, and is started again.
Restart ==
    /\ fwd.at # "off"
    /\ fwd' = Off
    /\ seen' = [seen EXCEPT !.apart = @ \cup Between]
    /\ UNCHANGED <<proc, pib, bags>>

Sec(p) ==
    \/ Start(p) \/ Find(p) \/ Check(p) \/ Generate(p) \/ Certify(p) \/ AddAnchor(p)
    \/ Delete(p) \/ Anchor(p) \/ Unanchor(p) \/ Export(p) \/ Import(p) \/ Kill(p)

Forwarder ==
    \/ \E id \in Ids : LoadIdentity(id) \/ InitIdentity(id)
    \/ StoreIdentity \/ Ephemeral
    \/ LoadValidator
    \/ Restart

Next == (\E p \in Procs : Sec(p)) \/ Forwarder

Spec == Init /\ [][Next]_vars
-----------------------------------------------------------------------------
(* Properties *)

\* The names of the three stores agree, whichever commands ran at once, were killed
\* between two writes or imported an old bag over a newer key.  A certificate binds
\* the key pair filed under its name: also under the forwarder's name, where every
\* recovery generates another pair over the last, unless a kill, an export or an
\* import met it between its two writes.  An anchor is that certificate too, unless
\* it is the forwarder's and of an earlier generation (nothing removes the anchor
\* with the key; build_cert_name makes a name of every generation).
NamesAgree ==
    \A n \in Names :
        /\ {keys[n], certs[n], anchors[n]} \subseteq seen.made[n] \cup {NoKey}
        /\ n \notin seen.apart \cup Between => NoKey \in {keys[n], certs[n]} \/ keys[n] = certs[n]
        /\ \/ n[2] = Daemon /\ \E j, k \in seen.made[n] : j # k
           \/ \A j, k \in {keys[n], certs[n], anchors[n]} \ {NoKey} : j = k

\* keygen --skip-if-exists: two commands leave two keys of one identity only when
\* one looked while the other was about to write, or could not list the keys;
\* never because one was killed half way and run again.
SkipIsIdempotent ==
    \A p, q \in {r \in Procs : ~At(r, "idle")} :
        /\ p # q /\ proc[p].cmd.do = "keygen" /\ proc[q].cmd.do = "keygen"
        /\ proc[p].cmd.skip /\ proc[q].cmd.skip
        /\ {BuildCertName(p), BuildCertName(q)} \subseteq Filed(keys) \ seen.gone
        /\ proc[p].cmd.id = proc[q].cmd.id
        => p \in seen.live[q] \/ q \in seen.live[p] \/ {p, q} \cap seen.blind # {}

\* anchor remove: an identity that only ever had one name has no anchor left, nor
\* does the forwarder read one of it, until a command adds one again.
RemovedStaysOut ==
    \A i \in seen.removed \ seen.second : Filed(anchors) \cap Of(i) = {}

\* The three stores of a PIB under any commands: what is filed under one name belongs
\* together, and an anchor that was removed is gone.
StoresAgree == NamesAgree /\ RemovedStaysOut


\* What cmd_anchor_remove prints: "Removed <name> from trust anchors."
RemovedIsUntrusted ==
    \A i \in seen.removed : Filed(anchors) \cap Of(i) = {}
===============================================================================

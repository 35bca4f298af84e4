------------------------------- MODULE IdbPib -------------------------------
(***************************************************************************)
(* The browser's PIB over IndexedDB (crates/ndn-pib-idb/src/wasm.rs):      *)
(* three object stores shared by the tabs of one origin.  Every put, get,  *)
(* listing and clearing is a transaction of its own and is awaited, so     *)
(* tabs interleave between any two of them, and a tab may be closed there. *)
(*                                                                         *)
(* The callers are web applications outside this repository: a tab enrols  *)
(* (put_safebag, put_passphrase, put_anchor), builds a signer, builds a    *)
(* validator or clears the store.                                          *)
(***************************************************************************)
EXTENDS Naturals, FiniteSets, Sequences

CONSTANTS
    Tabs,       \* browser tabs of the origin
    Names,      \* key names, a set of naturals: keys are listed in their order
    Keys        \* key pairs; each has a passphrase of its own

Nil == "none"
Empty == [n \in Names |-> Nil]

\* Assumed by the module that instantiates this one.
IdbPibAssumption == Names \subseteq Nat /\ Nil \notin Keys

VARIABLES
    db,         \* store -> name -> what is filed: the key pair of a bag, of its
                \* passphrase, of an anchor
    tab,        \* tab -> what it is doing and what it has read
    torn        \* history: names whose rows two calls ever wrote at once, or whose
                \* enrolment ever stopped half way

idbVars == <<db, tab, torn>>

Idle == [at |-> "idle"]
Enrolling(n) == {t \in Tabs : tab[t].at \in {"bag", "pass"} /\ tab[t].name = n}
Clearing == {t \in Tabs : tab[t].at = "clear"}
Stored(store) == {n \in Names : db[store][n] # Nil}
First(S) == CHOOSE n \in S : \A k \in S : n <= k

IdbInit ==
    /\ db = [bags |-> Empty, passphrases |-> Empty, anchors |-> Empty]
    /\ tab = [t \in Tabs |-> Idle]
    /\ torn = {}

Goes(t, r) == tab' = [tab EXCEPT ![t] = r]
PutBytes(store, n, k) == db' = [db EXCEPT ![store][n] = k]

-----------------------------------------------------------------------------
(* An enrolment. *)

Enrol(t, n, k) ==
    /\ tab[t].at = "idle"
    /\ Goes(t, [at |-> "bag", name |-> n, key |-> k])
    /\ torn' = IF Enrolling(n) = {} /\ Clearing = {} THEN torn ELSE torn \cup {n}
    /\ UNCHANGED db

PutSafebag(t) ==
    /\ tab[t].at = "bag"
    /\ PutBytes("bags", tab[t].name, tab[t].key)
    /\ Goes(t, [tab[t] EXCEPT !.at = "pass"])
    /\ UNCHANGED torn

PutPassphrase(t) ==
    /\ tab[t].at = "pass"
    /\ PutBytes("passphrases", tab[t].name, tab[t].key)
    /\ Goes(t, [tab[t] EXCEPT !.at = "anchor"])
    /\ UNCHANGED torn

PutAnchor(t) ==
    /\ tab[t].at = "anchor"
    /\ PutBytes("anchors", tab[t].name, tab[t].key)
    /\ Goes(t, Idle)
    /\ UNCHANGED torn

-----------------------------------------------------------------------------
(* build_signer: the first name of the listing, its bag, its passphrase.   *)

ListSafebags(t) ==
    /\ tab[t].at = "idle"
    /\ Goes(t, IF Stored("bags") = {} THEN [at |-> "nosigner"]
               ELSE [at |-> "getbag", name |-> First(Stored("bags"))])
    /\ UNCHANGED <<db, torn>>

GetSafebag(t) ==
    /\ tab[t].at = "getbag"
    /\ LET k == db.bags[tab[t].name] IN
        Goes(t, IF k = Nil THEN [at |-> "nosigner"]
                ELSE [at |-> "getpass", name |-> tab[t].name, key |-> k])
    /\ UNCHANGED <<db, torn>>

\* A passphrase that is missing, or of another key, is an error.
BuildSigner(t) ==
    /\ tab[t].at = "getpass"
    /\ Goes(t, IF db.passphrases[tab[t].name] = tab[t].key
               THEN [at |-> "signer", key |-> tab[t].key]
               ELSE [at |-> "failed"])
    /\ UNCHANGED <<db, torn>>

-----------------------------------------------------------------------------
(* build_validator: the listing, then every anchor that is still there.    *)

ListAnchors(t) ==
    /\ tab[t].at = "idle"
    /\ Goes(t, IF Stored("anchors") = {} THEN [at |-> "validator", some |-> FALSE, keys |-> {}]
               ELSE [at |-> "getanchors", left |-> Stored("anchors"), keys |-> {}])
    /\ UNCHANGED <<db, torn>>

BuildValidator(t) ==
    /\ tab[t].at = "getanchors"
    /\ IF tab[t].left = {} THEN Goes(t, [at |-> "validator", some |-> TRUE, keys |-> tab[t].keys])
       ELSE LET n == First(tab[t].left) IN
            Goes(t, [tab[t] EXCEPT !.left = @ \ {n}, !.keys = @ \cup ({db.anchors[n]} \ {Nil})])
    /\ UNCHANGED <<db, torn>>

-----------------------------------------------------------------------------
(* clear: one store after the other. *)

\* Mutant of Stores: the passphrases go first.
StoresReversed == <<"passphrases", "bags", "anchors">>

Stores == <<"bags", "passphrases", "anchors">>

StartClear(t) ==
    /\ tab[t].at = "idle"
    /\ Goes(t, [at |-> "clear", next |-> 1])
    /\ torn' = torn \cup {n \in Names : Enrolling(n) # {}}
    /\ UNCHANGED db

Clear(t) ==
    /\ tab[t].at = "clear"
    /\ LET i == tab[t].next IN
        /\ db' = [db EXCEPT ![Stores[i]] = Empty]
        /\ Goes(t, IF i = Len(Stores) THEN Idle ELSE [at |-> "clear", next |-> i + 1])
    /\ UNCHANGED torn

\* The tab is closed or reloaded between two transactions.
CloseTab(t) ==
    /\ tab[t].at # "idle"
    /\ Goes(t, Idle)
    /\ torn' = IF tab[t].at = "pass" THEN torn \cup {tab[t].name} ELSE torn
    /\ UNCHANGED db

IdbNext ==
    \E t \in Tabs :
        \/ \E n \in Names, k \in Keys : Enrol(t, n, k)
        \/ PutSafebag(t) \/ PutPassphrase(t) \/ PutAnchor(t)
        \/ ListSafebags(t) \/ GetSafebag(t) \/ BuildSigner(t)
        \/ ListAnchors(t) \/ BuildValidator(t)
        \/ StartClear(t) \/ Clear(t) \/ CloseTab(t)

IdbSpec == IdbInit /\ [][IdbNext]_idbVars

-----------------------------------------------------------------------------
(* Properties *)

\* A bag without the passphrase that opens it stops every later build_signer.
\* Only an enrolment that is under way, stopped half way or ran against a clear
\* or another enrolment of the name leaves one: a clear that is interrupted,
\* after whichever store, does not.
BagsKeepPassphrase ==
    \A n \in Stored("bags") :
        db.passphrases[n] = db.bags[n] \/ n \in torn \/ Enrolling(n) # {}

\* build_signer's comment (wasm.rs:166): "Builds a Signer from the stored
\* SafeBags, if a key is available": it does not fail while an identity is whole.
SignerWhenAvailable ==
    [][\A t \in Tabs :
        tab[t].at = "getpass" /\ tab'[t].at = "failed"
            => \A n \in Stored("bags") : db.passphrases[n] # db.bags[n]]_idbVars
===============================================================================

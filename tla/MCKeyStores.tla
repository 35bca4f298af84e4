---------------------------- MODULE MCKeyStores ----------------------------
(***************************************************************************)
(* The two key stores on small instances: a forwarder's file PIB with the  *)
(* commands of ndn-sec, and a browser's PIB with its tabs.  They share no  *)
(* state, so a behaviour is of the one or of the other.                    *)
(***************************************************************************)
EXTENDS KeyStore, TLC

CONSTANTS Tabs, BagNames, Keys

VARIABLES store, db, tab, torn

Idb == INSTANCE IdbPib WITH Names <- BagNames

ASSUME IdbAssumption == Idb!IdbPibAssumption

\* Each command on the identity, keygen and import with an anchor.
CommandLines ==
    {[do |-> d, id |-> i, anchor |-> d \in {"keygen", "import"}, skip |-> d = "keygen"] :
        i \in Ids, d \in {"keygen", "delete", "anchor", "unanchor", "export", "import"}}

\* The command line of gen_identities.sh.
ScriptLines == {[do |-> "keygen", id |-> i, anchor |-> TRUE, skip |-> TRUE] : i \in Ids}

AnyOrder == Permutations(Procs) \cup Permutations(Fresh) \cup Permutations(Tabs)

MCInit == Init /\ Idb!IdbInit /\ store \in {"file", "browser"}

MCNext ==
    \/ store = "file" /\ Next /\ UNCHANGED <<store, db, tab, torn>>
    \/ store = "browser" /\ Idb!IdbNext /\ UNCHANGED <<store, vars>>

MCSpec == MCInit /\ [][MCNext]_<<store, vars, db, tab, torn>>

\* The browser store's properties, under the names the configurations use.
BagsKeepPassphrase == Idb!BagsKeepPassphrase
SignerWhenAvailable == Idb!SignerWhenAvailable
===============================================================================

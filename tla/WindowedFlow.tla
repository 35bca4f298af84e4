----------------------------- MODULE WindowedFlow -----------------------------
(***************************************************************************)
(* What a windowed NDN consumer promises about the names it asks for: a    *)
(* name is asked for at most once as something new, is settled (answered   *)
(* or abandoned) at most once and never comes back, at most Cap names are  *)
(* outstanding whenever a new one is asked for, and once the flow is       *)
(* closed nothing new is asked for.  ndn-iperf's forward client and its    *)
(* reverse consumer are shown to implement it, and so is ndn-peek's        *)
(* pipelined fetch.                                                        *)
(***************************************************************************)
EXTENDS FiniteSets, Naturals

CONSTANTS
    Names,  \* the names the flow may ask for
    Cap     \* the most names outstanding after a send

VARIABLES
    out,      \* asked for, not yet settled
    settled,  \* answered or abandoned
    open      \* new names may still be asked for

flowVars == <<out, settled, open>>

FlowInit ==
    /\ out = {}
    /\ settled = {}
    /\ open = TRUE

(***************************************************************************)
(* One turn of the consumer: it settles some outstanding names and, while  *)
(* it is open, asks for some it never asked for.                           *)
(***************************************************************************)
Turn(gone, fresh) ==
    /\ gone \subseteq out
    /\ fresh \cap (out \cup settled) = {}
    /\ fresh # {} => open /\ Cardinality((out \ gone) \cup fresh) <= Cap
    /\ out' = (out \ gone) \cup fresh
    /\ settled' = settled \cup gone
    /\ open' \in {open, FALSE}

FlowNext == \E gone \in SUBSET out, fresh \in SUBSET Names : Turn(gone, fresh)

FlowSpec == FlowInit /\ [][FlowNext]_flowVars
===============================================================================

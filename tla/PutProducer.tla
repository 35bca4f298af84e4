----------------------------- MODULE PutProducer -----------------------------
(***************************************************************************)
(* ndn-put, run_producer in crates/tooling/ndn-tools-core/src/put.rs: it   *)
(* serves the segments of one object under the name it registered until    *)
(* told to stop.  Whether to stop is only looked at between two receives.  *)
(***************************************************************************)
EXTENDS SegNet

VARIABLES
    prod,       \* "top" of the loop, in "recv", "stopped"
    version,    \* the run of ndn-put that serves, and its v= component
    stop        \* tx is closed or the timeout has elapsed

prodVars == <<prod, version, stop>>

ProdInit ==
    /\ prod = "top" /\ version = 1
    /\ stop = FALSE

\* The user cancels, or the --timeout elapses.
StopAsked ==
    /\ prod # "stopped" /\ ~stop
    /\ stop' = TRUE
    /\ UNCHANGED <<prod, version, netVars>>

\* The checks at the top of the loop.
TopOfLoop ==
    /\ prod = "top"
    /\ prod' = IF stop THEN "stopped" ELSE "recv"
    /\ UNCHANGED <<version, stop, netVars>>

\* Mutant of LastSeg: the index of the segment that is sent.
LastSegSent(seg) == seg

\* The FinalBlockId of a packet, last_seg of the whole object.
LastSeg(seg) == IF Counts[version] = 0 THEN 0 ELSE Counts[version] - 1

InRange(seg) == seg \in 0 .. Counts[version] - 1

(***************************************************************************)
(* An Interest arrives.  The segment it names is served under the          *)
(* Interest's own name, whichever version that is; an Interest that does   *)
(* not end in a segment gets segment 0 of this version; a segment out of   *)
(* range gets no answer.                                                   *)
(***************************************************************************)
Answer(i) ==
    LET seg == IF i.seg = Absent THEN 0 ELSE i.seg
    IN  IF InRange(seg)
        THEN {[ver |-> IF i.seg = Absent THEN version ELSE i.ver, seg |-> seg,
               from |-> version, last |-> LastSeg(seg)]}
        ELSE {}

Serve(i) ==
    /\ prod = "recv" /\ i \in interests
    /\ interests' = interests \ {i}
    /\ datas' = datas \cup Answer(i)
    /\ cached' = cached \cup Answer(i)
    /\ prod' = "top"
    /\ UNCHANGED <<version, stop, netLimits>>

\* The same for the Interest of another consumer: this one only finds the
\* Data in the content store.
ServeOther(i) ==
    /\ prod = "recv"
    /\ cached' = cached \cup Answer(i)
    /\ prod' = "top"
    /\ UNCHANGED <<version, stop, interests, datas, netLimits>>

\* The connection closes, or client.send fails.
Disconnected ==
    /\ prod = "recv"
    /\ prod' = "stopped"
    /\ UNCHANGED <<version, stop, netVars>>

\* The user ends this ndn-put and publishes the next version of the object.
NextVersion ==
    /\ version + 1 \in Versions
    /\ version' = version + 1
    /\ prod' = "top" /\ stop' = FALSE
    /\ UNCHANGED netVars

ProdNext ==
    \/ StopAsked \/ TopOfLoop \/ Disconnected \/ NextVersion
    \/ \E i \in interests : Serve(i)

ProdTypeOK ==
    /\ prod \in {"top", "recv", "stopped"}
    /\ version \in Versions
    /\ stop \in BOOLEAN
===============================================================================

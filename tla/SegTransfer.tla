----------------------------- MODULE SegTransfer -----------------------------
(***************************************************************************)
(* ndn-peek fetching, through a forwarder, an object that successive runs  *)
(* of ndn-put publish and other consumers fetched before.                  *)
(***************************************************************************)
EXTENDS SegFetch, PutProducer

vars == <<fetchVars, prodVars, netVars>>

Init == NetInit /\ FetchInit /\ ProdInit

Next ==
    \/ FetchNext /\ UNCHANGED prodVars
    \/ ProdNext /\ UNCHANGED fetchVars
    \/ \E i \in SegmentNames : /\ fetch = "starting"
                             /\ ServeOther(i)
                             /\ UNCHANGED fetchVars
    \/ \E i \in interests : CacheAnswers(i) /\ UNCHANGED <<fetchVars, prodVars>>
    \/ LosesPacket /\ UNCHANGED <<fetchVars, prodVars>>

Spec == Init /\ [][Next]_vars

\* The processes are scheduled and tokio's timers fire; the network delivers
\* what it does not lose.
FairSpec ==
    /\ Spec
    /\ WF_vars((Discover \/ AskAgain \/ DiscoveryTimesOut) /\ UNCHANGED prodVars)
    /\ WF_vars(TopOfLoop /\ UNCHANGED fetchVars)
    /\ WF_vars(\E i \in interests : Serve(i) /\ UNCHANGED fetchVars)
    /\ WF_vars(\E d \in datas : /\ RecvFirst(d) \/ RecvSegment(d)
                               /\ datas' = datas \ {d}
                               /\ UNCHANGED prodVars)

TypeOK ==
    /\ FetchTypeOK /\ ProdTypeOK
    /\ interests \subseteq {Discovery} \cup SegmentNames
    /\ datas \subseteq Packets /\ cached \subseteq Packets
    /\ setting \in Settings /\ losses \in 0 .. setting.losses

\* However Data is mixed, late and doubled, the pipeline's map of outstanding
\* segments, its counter and its window agree with what has arrived, a finished
\* fetch has no hole, and the vector of segments is only set up with a length or
\* an index that ends the program by foreign Data that contradicts itself or
\* promises more segments than there is room for.
PipelineInv ==
    TypeOK /\ MissingIsInFlight /\ ReceivedIsCount /\ WithinPipeline /\ NoHole /\ NoPanic

\* One run of ndn-put serves, and nothing but its Data is in the store.
OneProducer == version = 1 /\ setting.others = {}

\* As long as one run of ndn-put serves, what the fetch returns is the object
\* that run published.
WholeObject ==
    OneProducer /\ fetch = "done" => segments = [s \in 0 .. Counts[1] - 1 |-> 1]

\* As WindowedFlow: past the segment that answered the discovery Interest, each
\* segment is asked for as new once, received once and then never asked for
\* again, and the pipeline is never asked to hold more than it is deep.
InPipeline == {s \in DOMAIN in_flight : in_flight[s] > 0}
Flow == INSTANCE WindowedFlow WITH
            Names <- SegIndices,
            Cap <- Pipeline,
            out <- InPipeline,
            settled <- {s \in 0 .. next_seg - 1 : s # first} \ InPipeline,
            open <- fetch \in {"starting", "discovering", "fetching"}
ImplementsFlow == Flow!FlowSpec

\* However many packets are lost or doubled, as long as that ndn-put goes on
\* serving the fetch ends.
FetchEnds ==
    <>(fetch \in {"done", "failed"} \/ stop \/ prod = "stopped" \/ ~OneProducer)

\* put.rs: run_producer serves "until cancelled, disconnected, or the timeout
\* elapses".
ProducerStops == stop ~> prod = "stopped"

\* put.rs: "Segments are served under /<prefix>/v=<timestamp>/<seg>", the
\* timestamp being that of the run: what is served under a version's name is
\* that version.
ServedUnderOwnVersion == \A d \in datas : d.ver = d.from
===============================================================================

------------------------------- MODULE SegFetch -------------------------------
(***************************************************************************)
(* ndn-peek --pipeline, fetch_segmented in                                 *)
(* crates/tooling/ndn-tools-core/src/peek.rs: a discovery Interest learns  *)
(* the version and the number of segments from whatever Data comes first,  *)
(* then a pipeline of Interests fetches the rest.  A segment is accepted   *)
(* by its index alone.  Only lifetime + 500 ms without any packet makes    *)
(* the fetch ask again: everything in flight was then sent more than a     *)
(* lifetime ago, so all of it is asked for again, any number of times.     *)
(***************************************************************************)
EXTENDS SegNet

CONSTANT Pipeline

ASSUME PipelineAssumption == Pipeline \in Nat \ {0}

VARIABLES
    fetch,      \* where fetch_segmented is
    prefix,     \* the version of versioned_prefix
    segments,   \* index -> whose bytes were received, or Absent
    first,      \* seg0_idx
    in_flight,  \* index -> entries of the map in_flight with that index
    next_seg,
    received

fetchVars == <<fetch, prefix, segments, first, in_flight, next_seg, received>>

FetchInit ==
    /\ fetch = "starting"
    /\ prefix = Absent /\ first = Absent
    /\ segments = <<>> /\ in_flight = <<>>
    /\ next_seg = 0 /\ received = 0

Indices == DOMAIN segments
Flying(flights) ==
    Cardinality(UNION {{s} \X (1 .. flights[s]) : s \in DOMAIN flights})

\* Where next_seg stands once the pipeline has been filled up, given how much
\* of it is used: segment skip is already there.
Batch(next, total, skip, used) ==
    LET Asked(n) == (next .. n - 1) \ {skip}
    IN  CHOOSE n \in next .. total :
            /\ n = total \/ used + Cardinality(Asked(n)) >= Pipeline
            /\ \A m \in next .. n - 1 : used + Cardinality(Asked(m)) < Pipeline

\* The top of the loop: refill the pipeline, and leave when nothing is missing.
\* segs, flights and next are the state the loop body left.
Refill(ver, segs, flights, next, skip, count) ==
    LET total == Cardinality(DOMAIN segs)
        upto == Batch(next, total, skip, Flying(flights))
        asked == (next .. upto - 1) \ {skip}
    IN  /\ next_seg' = upto
        /\ in_flight' = [s \in DOMAIN flights |->
                            IF s \in asked THEN flights[s] + 1 ELSE flights[s]]
        /\ interests' = interests \cup {[ver |-> ver, seg |-> s] : s \in asked}
        /\ segments' = segs
        /\ received' = count
        /\ fetch' = IF count = total THEN "done" ELSE "fetching"

Discover ==
    /\ fetch = "starting"
    /\ fetch' = "discovering"
    /\ interests' = interests \cup {Discovery}
    /\ UNCHANGED <<prefix, segments, first, in_flight, next_seg, received,
                   datas, cached, netLimits>>

(***************************************************************************)
(* The first Data.  Without a segment component, without a FinalBlockId,   *)
(* or as the only segment it is the whole result.  `last + 1` is usize     *)
(* arithmetic (a build with overflow checks panics where it wraps to 0),   *)
(* `vec![None; total_segs]` needs room, and `segments[seg0_idx]` an index  *)
(* below the length: else the program panics or is aborted.                *)
(***************************************************************************)
RecvFirst(d) ==
    LET total == IF d.last = Absent THEN 1 ELSE (d.last + 1) % Word
        start == [s \in 0 .. total - 1 |-> IF s = d.seg THEN d.from ELSE Absent]
    IN  /\ fetch = "discovering"
        /\ Delivers(d)
        /\ prefix' = d.ver
        /\ first' = d.seg
        /\ IF d.seg = Absent \/ total = 1
           THEN /\ fetch' = "done" /\ segments' = [s \in {0} |-> d.from]
                /\ received' = 1
                /\ UNCHANGED <<in_flight, next_seg, interests>>
           ELSE IF total > Room \/ d.seg >= total
           THEN /\ fetch' = "panicked"
                /\ UNCHANGED <<segments, received, in_flight, next_seg, interests>>
           ELSE Refill(d.ver, start, [s \in DOMAIN start |-> 0],
                       IF d.seg = 0 THEN 1 ELSE 0, d.seg, 1)

\* A segment in range that is not there yet.
Accepts(d) == d.seg \in Indices /\ segments[d.seg] = Absent

\* Mutant of Cleared: the slot of an answered segment stays in use.
ClearedNot(s) == in_flight

\* in_flight.retain(..) once segment s has been received
Cleared(s) == [in_flight EXCEPT ![s] = 0]

RecvSegment(d) ==
    /\ fetch = "fetching"
    /\ Delivers(d)
    /\ IF Accepts(d)
       THEN Refill(prefix, [segments EXCEPT ![d.seg] = d.from], Cleared(d.seg),
                   next_seg, first, received + 1)
       ELSE Refill(prefix, segments, in_flight, next_seg, first, received)
    /\ UNCHANGED <<prefix, first>>

\* Mutant of AskAgain: what timed out is forgotten instead of asked for again.
AskAgainForgetting ==
    /\ fetch = "fetching"
    /\ Refill(prefix, segments, [s \in Indices |-> 0], next_seg, first, received)
    /\ UNCHANGED <<prefix, first, datas, cached, netLimits>>

AskAgain ==
    /\ fetch = "fetching"
    /\ interests' = interests \cup
            {[ver |-> prefix, seg |-> s] : s \in {t \in Indices : in_flight[t] > 0}}
    /\ UNCHANGED <<fetchVars, datas, cached, netLimits>>

\* lifetime + 500 ms without an answer to the discovery Interest, which is
\* not sent again.
DiscoveryTimesOut ==
    /\ fetch = "discovering"
    /\ fetch' = "failed"
    /\ UNCHANGED <<prefix, segments, first, in_flight, next_seg, received,
                   netVars>>

\* The connection closes or a send fails.
ConnectionFails ==
    /\ fetch \in {"discovering", "fetching"}
    /\ fetch' = "failed"
    /\ UNCHANGED <<prefix, segments, first, in_flight, next_seg, received,
                   netVars>>

FetchNext ==
    \/ Discover \/ AskAgain \/ DiscoveryTimesOut \/ ConnectionFails
    \/ \E d \in datas : RecvFirst(d) \/ RecvSegment(d)

(***************************************************************************)
(* Properties of the fetch.                                                *)
(***************************************************************************)
FetchTypeOK ==
    /\ fetch \in {"starting", "discovering", "fetching", "done", "failed",
                  "panicked"}
    /\ prefix \in {Absent} \cup Versions
    /\ first \in {Absent} \cup Numbers
    /\ segments \in [Indices -> {Absent} \cup Versions]
    /\ in_flight \in [DOMAIN in_flight -> Nat]
    /\ next_seg \in Nat
    /\ received \in Nat

\* Of the segments asked for so far exactly the missing ones are in flight,
\* each once, and one at least while the fetch runs: no segment is forgotten,
\* none is asked for while it is there, and the loop always waits for
\* something that it will ask for again.
MissingIsInFlight ==
    fetch = "fetching" =>
        /\ \A s \in Indices : in_flight[s] =
                IF s < next_seg /\ segments[s] = Absent THEN 1 ELSE 0
        /\ \E s \in Indices : in_flight[s] > 0

\* received, which ends the loop, counts the segments that are there.
ReceivedIsCount ==
    fetch \in {"fetching", "done"} =>
        received = Cardinality({s \in Indices : segments[s] # Absent})

\* Never more Interests outstanding than the pipeline is deep.
WithinPipeline == Flying(in_flight) <= Pipeline

\* What is handed to the caller has no hole: reassemble never bails out.
NoHole == fetch = "done" => \A s \in Indices : segments[s] # Absent

\* A Data packet that names a segment beyond its own FinalBlockId.
Beyond(d) == d.last # Absent /\ d.seg > d.last

\* A Data packet whose FinalBlockId promises more segments than a vector can
\* hold, or than a usize can count.
TooMany(d) == d.last # Absent /\ d.last + 1 > Room

\* Whatever answers the discovery Interest, setting up the vector of segments
\* with it ends the program only on such Data of another producer: no two runs
\* of ndn-put, whatever names they serve, make any.
NoPanic ==
    fetch = "panicked" => \E d \in setting.others : Beyond(d) \/ TooMany(d)
===============================================================================

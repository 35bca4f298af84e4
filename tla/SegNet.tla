-------------------------------- MODULE SegNet --------------------------------
(***************************************************************************)
(* What lies between a segmented fetch (ndn-peek) and the producer of the  *)
(* object (ndn-put): the forwarder.  It is outside this repository and is  *)
(* modelled by what the tools can see of it: Interests and Data that       *)
(* travel, in any order, may be lost or delivered twice, and a content     *)
(* store that may answer any Interest from Data it has seen.               *)
(***************************************************************************)
EXTENDS FiniteSets, Integers, Sequences

CONSTANTS
    Settings,   \* what is published and what the network does: see NetAssumption
    Word,       \* usize wraps here
    Room        \* the entries the longest vector has that can be allocated

Absent == -1  \* no segment component, no FinalBlockId, no content

\* A name component or a FinalBlockId holds any number; more than a usize is
\* decoded as no number at all.
Numbers == 0 .. Word - 1

\* One run of ndn-put publishes one version.
\* from is the version whose bytes a Data packet holds, last its FinalBlockId.
PacketsOf(counts) ==
    [ver : DOMAIN counts, seg : {Absent} \cup Numbers,
     from : DOMAIN counts, last : {Absent} \cup Numbers]

\* counts[v]   segment_count() of the object version v holds: no more than the
\*             fetching machine has room for
\* others      Data of other producers under the name, left in the store
\* losses      bound of the model: packets the network may lose
ASSUME NetAssumption ==
    /\ Word \in Nat /\ Room \in Nat /\ Room < Word
    /\ \A s \in Settings : /\ s.counts \in Seq(0 .. Room) \ {<<>>}
                           /\ s.others \subseteq PacketsOf(s.counts)
                           /\ s.losses \in Nat

VARIABLES
    setting,    \* the one of Settings that holds, from the start
    losses,     \* packets the network may still lose
    interests,  \* Interests travelling to the producer
    datas,      \* Data travelling to the consumer
    cached      \* what the content store may answer with

netLimits == <<setting, losses>>
netVars == <<interests, datas, cached, netLimits>>

Counts == setting.counts

Versions == DOMAIN Counts
SegIndices == 0 .. Room - 1
Packets == PacketsOf(Counts)

\* Names: the plain name a discovery Interest carries, and segments below a
\* version.
Discovery == [ver |-> 0, seg |-> Absent]
SegmentNames == [ver : Versions, seg : SegIndices]

NetInit ==
    /\ setting \in Settings
    /\ interests = {} /\ datas = {} /\ cached = setting.others
    /\ losses = setting.losses

Matches(d, i) == i = Discovery \/ (d.ver = i.ver /\ d.seg = i.seg)

CacheAnswers(i) ==
    /\ i \in interests
    /\ \E d \in cached : Matches(d, i) /\ datas' = datas \cup {d}
    /\ interests' = interests \ {i}
    /\ UNCHANGED <<cached, netLimits>>

LosesPacket ==
    /\ losses > 0 /\ losses' = losses - 1
    /\ \/ \E i \in interests : interests' = interests \ {i} /\ UNCHANGED datas
       \/ \E d \in datas : datas' = datas \ {d} /\ UNCHANGED interests
    /\ UNCHANGED <<cached, setting>>

\* A Data packet reaches the consumer; another copy may still travel.
Delivers(d) ==
    /\ d \in datas
    /\ datas' \in {datas, datas \ {d}}
    /\ UNCHANGED <<cached, netLimits>>
===============================================================================

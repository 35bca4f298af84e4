----------------------------- MODULE MCMonitors -----------------------------
(***************************************************************************)
(* What is watched of a forwarder, on small instances: the radio faces     *)
(* with their link watchers, the "forwarding" watcher over the face table, *)
(* and the bridge that takes the forwarder's spans to a collector.  The    *)
(* first two share the forwarder's token and nothing else, the bridge is a *)
(* process of its own: a behaviour follows one of them.                    *)
(***************************************************************************)
EXTENDS RadioFace

CONSTANTS Slots, MaxDrops, MaxTicks, Spans, BatchSize, MaxLost

VARIABLES follows, faces, drops, pc, left, sum, prev, entry, noticed,
          published, kept, stage, listed, seen, batch, exported, lost, posts, signal

Watcher == INSTANCE Monitors WITH Faces <- Slots
Bridge == INSTANCE OtelBridge WITH pc <- stage

ASSUME WatcherAssumption == Watcher!MonitorsAssumption
ASSUME SpansAssumption == Bridge!BridgeAssumption

watcherVars == <<faces, drops, pc, left, sum, prev, entry, noticed>>
bridgeVars == <<published, kept, stage, listed, seen, batch, exported, lost, posts, signal>>

\* A pinned dongle, an unpinned one that takes the first of the bus, and a face
\* with a kernel interface alone.
TwoRadioFaces ==
    <<<<[usb |-> TRUE, address |-> 2], [usb |-> TRUE, address |-> Unset]>>,
      <<[usb |-> FALSE, address |-> Unset]>>>>

TwoNames == {<<>>, <<"a">>}
TwoRoutes == [p \in TwoNames |-> IF p = <<>> THEN {1} ELSE {0}]

\* In a behaviour that follows the watcher the radio faces never start; in one
\* that follows the radios the watcher has ended.
MCInit ==
    /\ follows \in {"radios", "forwarding"}
    /\ Bridge!Init
    /\ IF follows = "radios"
       THEN /\ RadioInit
            /\ Watcher!Idle
       ELSE /\ Watcher!Init
            /\ NoRadios

MCNext ==
    \/ follows = "radios" /\ RadioNext /\ UNCHANGED <<follows, watcherVars, bridgeVars>>
    \/ follows = "forwarding" /\ Watcher!Next
        /\ UNCHANGED <<follows, phase, cur, thread, late, claim, face, tasks, cognition, watch,
                       bridgeVars>>

MCSpec ==
    /\ MCInit /\ [][MCNext]_<<follows, radioVars, watcherVars, bridgeVars>>
    /\ RadioFairness /\ Watcher!Fairness

\* The bridge alone, with a collector that answers.
BridgeInit == follows = "bridge" /\ NoRadios /\ Watcher!Idle /\ Bridge!Init
BridgeNext == Bridge!Next /\ UNCHANGED <<follows, radioVars, watcherVars>>
BridgeSpec ==
    /\ BridgeInit /\ [][BridgeNext]_<<follows, radioVars, watcherVars, bridgeVars>>
    /\ Bridge!Fairness /\ Bridge!Answering

\* The watcher's properties and the bridge's, under the names the configurations use.
TicksMeanDrops == Watcher!TicksMeanDrops
CancelStops == Watcher!CancelStops
DropFailsTick == Watcher!DropFailsTick
NoOtherDuplicates == Bridge!NoOtherDuplicates
BatchIsDelivered == Bridge!BatchIsDelivered
SignalEnds == Bridge!SignalEnds
=============================================================================

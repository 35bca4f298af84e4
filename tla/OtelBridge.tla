----------------------------- MODULE OtelBridge -----------------------------
(***************************************************************************)
(* ndn-otel-bridge: one task polls the forwarder's list of recent spans,    *)
(* fetches each span it has not seen, batches the bodies and POSTs the      *)
(* batch to a collector, until a shutdown signal.  The forwarder publishes  *)
(* and evicts spans meanwhile; a POST may be lost on its way or back.       *)
(***************************************************************************)
EXTENDS Naturals, Sequences

CONSTANTS Spans,      \* the spans ever published
          BatchSize,  \* --batch-size
          MaxLost     \* bound: POSTs taken by the collector and not confirmed

BridgeAssumption == BatchSize \in Nat \ {0} /\ MaxLost \in Nat

VARIABLES
  published,  \* spans published so far
  kept,       \* published spans the forwarder still lists and serves
  pc,         \* "select", "poll", "check", "post", "flush" (the last one), "ended"
  listed,     \* spans of the fetched list still to be looked at
  seen,       \* the bridge's seen set
  batch,      \* bodies waiting for a POST, a sequence
  exported,   \* span -> times the collector took it
  lost,       \* POSTs taken whose confirmation was lost
  posts,      \* history: the size of the POST under way or of the last one
  signal      \* SIGINT or SIGTERM has come

vars == <<published, kept, pc, listed, seen, batch, exported, lost, posts, signal>>

TypeOK ==
  /\ kept \subseteq published /\ published \subseteq Spans
  /\ pc \in {"select", "poll", "check", "post", "flush", "ended"}
  /\ listed \subseteq published
  /\ seen \subseteq published
  /\ batch \in Seq(seen)
  /\ exported \in [Spans -> Nat]
  /\ lost \in 0 .. MaxLost
  /\ posts \in Nat
  /\ signal \in BOOLEAN

Init ==
  /\ published = {} /\ kept = {}
  /\ pc = "select"
  /\ listed = {} /\ seen = {} /\ batch = <<>>
  /\ exported = [s \in Spans |-> 0]
  /\ lost = 0 /\ posts = 0
  /\ signal = FALSE

InBatch(s) == \E i \in 1 .. Len(batch) : batch[i] = s

-----------------------------------------------------------------------------
(* The environment. *)

Publish(s) ==
  /\ s \notin published
  /\ published' = published \union {s}
  /\ kept' = kept \union {s}
  /\ UNCHANGED <<pc, listed, seen, batch, exported, lost, posts, signal>>

Evict(s) ==
  /\ s \in kept
  /\ kept' = kept \ {s}
  /\ UNCHANGED <<published, pc, listed, seen, batch, exported, lost, posts, signal>>

Signal ==
  /\ ~signal
  /\ signal' = TRUE
  /\ UNCHANGED <<published, kept, pc, listed, seen, batch, exported, lost, posts>>

-----------------------------------------------------------------------------
(* poll_once. *)

\* The list of recent spans arrives, or the fetch fails.
PollRecent ==
  /\ pc = "select"
  /\ \/ pc' = "poll" /\ listed' = kept
     \/ pc' = "check" /\ UNCHANGED listed
  /\ UNCHANGED <<published, kept, seen, batch, exported, lost, posts, signal>>

\* Mutant of FetchSpan: the seen set is not asked.
FetchSpanAgain ==
  /\ pc = "poll"
  /\ \E s \in listed :
       /\ listed' = listed \ {s}
       /\ seen' = seen \union {s}
       /\ batch' \in {batch} \union (IF s \in kept THEN {Append(batch, s)} ELSE {})
  /\ UNCHANGED <<published, kept, pc, exported, lost, posts, signal>>

\* A span of the list: fetched once, and never again if that fails.
FetchSpan ==
  /\ pc = "poll"
  /\ \E s \in listed :
       /\ listed' = listed \ {s}
       /\ seen' = seen \union {s}
       /\ batch' \in {batch} \union
            (IF s \in kept /\ s \notin seen THEN {Append(batch, s)} ELSE {})
  /\ UNCHANGED <<published, kept, pc, exported, lost, posts, signal>>

PollEnds ==
  /\ pc = "poll" /\ listed = {}
  /\ pc' = "check"
  /\ UNCHANGED <<published, kept, listed, seen, batch, exported, lost, posts, signal>>

-----------------------------------------------------------------------------
(* The main loop and flush. *)

\* The batch is flushed if it is full, or not empty and batch_timeout has
\* passed.
Check ==
  /\ pc = "check"
  /\ \/ batch # <<>> /\ pc' = "post" /\ posts' = Len(batch)
     \/ Len(batch) < BatchSize /\ pc' = "select" /\ UNCHANGED posts
  /\ UNCHANGED <<published, kept, listed, seen, batch, exported, lost, signal>>

\* Where flush returns to: the loop, or out of the program.
Returns == pc' = IF pc = "flush" THEN "ended" ELSE "select"

Taken == exported' = [s \in Spans |-> exported[s] + (IF InBatch(s) THEN 1 ELSE 0)]

\* The collector takes the batch and says so.
Confirmed ==
  /\ pc \in {"post", "flush"} /\ batch # <<>>
  /\ Taken /\ Returns
  /\ batch' = <<>>
  /\ UNCHANGED <<published, kept, listed, seen, lost, posts, signal>>

\* Mutant of Failed: the batch is dropped with the error.
FailedDropping ==
  /\ pc \in {"post", "flush"} /\ batch # <<>>
  /\ \/ UNCHANGED <<exported, lost>>
     \/ lost < MaxLost /\ lost' = lost + 1 /\ Taken
  /\ Returns
  /\ batch' = <<>>
  /\ UNCHANGED <<published, kept, listed, seen, posts, signal>>

\* The POST fails, before or after the collector took the batch.
Failed ==
  /\ pc \in {"post", "flush"} /\ batch # <<>>
  /\ \/ UNCHANGED <<exported, lost>>
     \/ lost < MaxLost /\ lost' = lost + 1 /\ Taken
  /\ Returns
  /\ UNCHANGED <<published, kept, listed, seen, batch, posts, signal>>

\* Mutant of ShutDown: nothing to flush, nothing to do.
ShutDownToFlush ==
  /\ pc = "select" /\ signal /\ batch # <<>>
  /\ pc' = "flush"
  /\ posts' = Len(batch)
  /\ UNCHANGED <<published, kept, listed, seen, batch, exported, lost, signal>>

\* The select takes the signal: the last flush, or nothing to flush.
ShutDown ==
  /\ pc = "select" /\ signal
  /\ pc' = IF batch = <<>> THEN "ended" ELSE "flush"
  /\ posts' = Len(batch)
  /\ UNCHANGED <<published, kept, listed, seen, batch, exported, lost, signal>>

Next ==
  \/ \E s \in Spans : Publish(s) \/ Evict(s)
  \/ Signal
  \/ PollRecent \/ FetchSpan \/ PollEnds
  \/ Check \/ Confirmed \/ Failed \/ ShutDown

Spec == Init /\ [][Next]_vars

\* The task runs and every fetch ends (Consumer::fetch has a timeout); the
\* select polls its arms in random order.  A POST has no timeout.
Fairness ==
  /\ WF_vars(PollRecent) /\ WF_vars(FetchSpan) /\ WF_vars(PollEnds) /\ WF_vars(Check)
  /\ SF_vars(ShutDown)

FairSpec == Spec /\ Fairness

\* The collector answers every POST, sooner or later with a confirmation, and
\* batch_timeout passes.
Answering ==
  /\ WF_vars(Confirmed \/ Failed) /\ SF_vars(Confirmed)
  /\ SF_vars(Check /\ pc' = "post")

-----------------------------------------------------------------------------
(* A span reaches the collector once, and once more at most for each POST   *)
(* whose confirmation was lost (seen, batch.clear).                         *)
NoOtherDuplicates == \A s \in Spans : exported[s] <= 1 + lost

(* A batched span is not lost while the bridge runs: it is exported, or the *)
(* bridge has ended (flush keeps the batch on failure, "will retry on next  *)
(* batch").                                                                 *)
BatchIsDelivered ==
  \A s \in Spans : InBatch(s) ~> (exported[s] > 0 \/ pc = "ended")

(* A signal ends the bridge if the collector answers (the shutdown arm of   *)
(* main's select).                                                          *)
SignalEnds == signal ~> (pc = "ended")

(* README:44 and main.rs:39: --batch-size is "Max spans per OTLP POST".     *)
(* It is not: poll_once fetches the whole list before main looks.           *)
PostIsBounded == posts <= BatchSize

(* main.rs:58-61: with the SIGTERM arm the bridge flushes its batch and is  *)
(* not killed after the stop timeout.  It is when the collector leaves a    *)
(* POST open: the arm is only polled between two passes of the other.       *)
SignalAlwaysEnds == signal ~> (pc = "ended")
=============================================================================

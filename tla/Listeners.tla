------------------------------ MODULE Listeners ------------------------------
(***************************************************************************)
(* The accept loops of transport_listeners.rs: WebSocket, WebTransport,     *)
(* QUIC and WebRTC.  Each is a task that binds, then turns peers into faces *)
(* until the forwarder's token is cancelled.  (The BLE listener has a       *)
(* controller of its own: module BleControl.)                               *)
(*                                                                         *)
(* The engine is outside this repository.  It ends a face whose token is    *)
(* cancelled, and cancels the token of a face that ends: the second is what *)
(* face_provision.rs:130-136 builds on when it scopes a face to the token   *)
(* of its client's face "so it tears down with the client".                 *)
(***************************************************************************)
EXTENDS FiniteSets

CONSTANTS Listeners,  \* listener tasks; one per session id for WebRTC
          Kind,       \* Kind[l]: "ws", "wt", "quic" or "rtc"
          Peers       \* nodes that dial in

ASSUME ListenersAssumption ==
  Kind \in [Listeners -> {"ws", "wt", "quic", "rtc"}]

VARIABLES
  pc,       \* listener -> "cert", "bind", "accept", "shake", "pause", "stopped", "failed"
  peer,     \* peer -> Away, or at a listener: "knocking", "shaking", "linked" (has a face)
  status,   \* WT_CERT_STATUS: listeners with an entry
  root,     \* the forwarder's token is cancelled
  signal    \* a shutdown signal has come (main)

vars == <<pc, peer, status, root, signal>>

Away == [is |-> "away"]

First(l) == CASE Kind[l] \in {"wt", "quic"} -> "cert"
              [] Kind[l] = "ws"  -> "bind"
              [] Kind[l] = "rtc" -> "accept"

Starting(at) ==
  /\ pc = at
  /\ peer = [p \in Peers |-> Away]
  /\ status = {}
  /\ root = FALSE /\ signal = FALSE

Init == Starting([l \in Listeners |-> First(l)])

\* A forwarder without listeners.
NoListener == Starting([l \in Listeners |-> "failed"])

Goto(l, label) == pc' = [pc EXCEPT ![l] = label]
Becomes(p, s) == peer' = [peer EXCEPT ![p].is = s]
Leaves(p) == peer' = [peer EXCEPT ![p] = Away]
IsAt(p, s, l) == peer[p] = [is |-> s, at |-> l]
Linked(p) == peer[p].is = "linked"

-----------------------------------------------------------------------------
(* Starting. *)

\* The certificate is resolved, or the task ends; a WebTransport listener
\* publishes its status if the chain can be read.
ResolveCert(l) ==
  /\ pc[l] = "cert"
  /\ \/ /\ status' \in {status} \union (IF Kind[l] = "wt" THEN {status \union {l}} ELSE {})
        /\ Goto(l, "bind")
     \/ /\ Goto(l, "failed")
        /\ UNCHANGED status
  /\ UNCHANGED <<peer, root, signal>>

Bind(l) ==
  /\ pc[l] = "bind"
  /\ Goto(l, "accept") \/ Goto(l, "failed")
  /\ UNCHANGED <<peer, status, root, signal>>

-----------------------------------------------------------------------------
(* The peers. *)

Knock(p, l) ==
  /\ peer[p] = Away
  /\ pc[l] \in {"accept", "shake", "pause"}
  /\ peer' = [peer EXCEPT ![p] = [is |-> "knocking", at |-> l]]
  /\ UNCHANGED <<pc, status, root, signal>>

HangUp(p) ==
  /\ peer[p].is = "knocking"
  /\ Leaves(p)
  /\ UNCHANGED <<pc, status, root, signal>>

-----------------------------------------------------------------------------
(* The accept loops.  An accept that fails changes nothing but for WebRTC.  *)

\* WebTransport, QUIC: the session is set up inside the select.
Accept(l) ==
  /\ pc[l] = "accept" /\ Kind[l] \in {"wt", "quic"}
  /\ \E p \in Peers : IsAt(p, "knocking", l) /\ Becomes(p, "linked")
  /\ UNCHANGED <<pc, status, root, signal>>

\* WebSocket: the connection is accepted in the select, the handshake awaited
\* after it.
AcceptTcp(l) ==
  /\ pc[l] = "accept" /\ Kind[l] = "ws"
  /\ \E p \in Peers : IsAt(p, "knocking", l) /\ Becomes(p, "shaking")
  /\ Goto(l, "shake")
  /\ UNCHANGED <<status, root, signal>>

\* The handshake completes or fails.
Shaken(l) ==
  /\ pc[l] = "shake"
  /\ \E p \in Peers :
        /\ IsAt(p, "shaking", l)
        /\ Becomes(p, "linked") \/ Leaves(p)
  /\ Goto(l, "accept")
  /\ UNCHANGED <<status, root, signal>>

\* WebRTC: a biased select, the token first; the offer is answered, or the
\* accept fails or times out.
AcceptOffer(l) ==
  /\ pc[l] = "accept" /\ Kind[l] = "rtc" /\ ~root
  /\ \/ \E p \in Peers : IsAt(p, "knocking", l) /\ Becomes(p, "linked")
     \/ UNCHANGED peer
  /\ Goto(l, "pause")
  /\ UNCHANGED <<status, root, signal>>

\* WebRTC: the sleep before the next accept, and the loop's head.
Resume(l) ==
  /\ pc[l] = "pause"
  /\ Goto(l, IF root THEN "stopped" ELSE "accept")
  /\ UNCHANGED <<peer, status, root, signal>>

\* Mutant of StopAccepting: the select is biased towards the peers.
StopAcceptingLast(l) ==
  /\ pc[l] = "accept" /\ root
  /\ \A p \in Peers : ~IsAt(p, "knocking", l)
  /\ Goto(l, "stopped")
  /\ UNCHANGED <<peer, status, root, signal>>

\* cancel.cancelled() in the select.
StopAccepting(l) ==
  /\ pc[l] = "accept" /\ root
  /\ Goto(l, "stopped")
  /\ UNCHANGED <<peer, status, root, signal>>

-----------------------------------------------------------------------------
(* Tokens and faces. *)

\* The token of p's face: a child of the forwarder's, or for WebRTC that
\* token itself.
TokenCancelled(p) == root
SharesRoot(p) == Kind[peer[p].at] = "rtc"

\* The peer goes, the face is destroyed, or its token is cancelled: the
\* engine takes the face out and cancels its token.
FaceEnds(p) ==
  /\ Linked(p)
  /\ Leaves(p)
  /\ root' = (root \/ SharesRoot(p))
  /\ UNCHANGED <<pc, status, signal>>

Shutdown ==
  /\ ~signal
  /\ signal' = TRUE
  /\ root' = TRUE
  /\ UNCHANGED <<pc, peer, status>>

Listen(l) ==
  ResolveCert(l) \/ Bind(l) \/ Accept(l) \/ AcceptTcp(l) \/ Shaken(l)
    \/ AcceptOffer(l) \/ Resume(l) \/ StopAccepting(l)

Next ==
  \/ \E l \in Listeners : Listen(l)
  \/ \E p \in Peers : HangUp(p) \/ FaceEnds(p) \/ \E l \in Listeners : Knock(p, l)
  \/ Shutdown

Spec == Init /\ [][Next]_vars

\* Tasks run; an unbiased select polls its branches in random order, so it
\* does not pass over a cancelled token for ever; the engine ends a face whose
\* token is cancelled.  Nothing makes a peer finish its handshake.
Fairness ==
  /\ \A l \in Listeners :
        /\ WF_vars(ResolveCert(l)) /\ WF_vars(Bind(l)) /\ WF_vars(Resume(l))
        /\ SF_vars(StopAccepting(l))
  /\ \A p \in Peers : WF_vars(Linked(p) /\ TokenCancelled(p) /\ FaceEnds(p))

-----------------------------------------------------------------------------
(* Once the forwarder's token is cancelled there comes a time after which   *)
(* no accepted peer has a face, whatever handshakes were under way (the     *)
(* child tokens given to add_face), and every accept loop has ended, though *)
(* peers keep dialling, but for a WebSocket listener held by a peer that    *)
(* never finishes its handshake (the selects of the run_*_listener          *)
(* functions).                                                              *)
ListenersStop ==
  root ~> [](/\ \A p \in Peers : ~Linked(p)
             /\ \A l \in Listeners : pc[l] \in {"stopped", "failed", "shake"})

(* transport_listeners.rs:14: WT_CERT_STATUS is the "Live TLS cert status   *)
(* of each running WebTransport listener".  The entry is pushed before the  *)
(* bind and never taken out.                                                *)
StatusIsOfRunning ==
  \A l \in status : pc[l] \notin {"failed", "stopped"}

(* transport_listeners.rs:63-65: a session's loop "registers the resulting  *)
(* face, then re-accepts".  It does not: the face holds the forwarder's own *)
(* token, which ends with the peer.                                         *)
SessionReaccepts ==
  \A l \in Listeners : Kind[l] = "rtc" /\ pc[l] = "stopped" => signal
=============================================================================

---------------------------- MODULE WsPortForward ----------------------------
(***************************************************************************)
(* Port forwarding over a websocket (run_ws): one loop for all the ports   *)
(* of the session.  A port has a data channel and an error channel; its    *)
(* target is dialed at the first data of the client, in the network        *)
(* namespace of the sandbox if it has one.  While the loop dials, or       *)
(* writes to a target, it does nothing else.  Bytes are counted.           *)
(***************************************************************************)
EXTENDS Integers, Sequences, SequencesExt

CONSTANTS
  NPorts,      \* how many ports are asked for
  PfRoom,      \* capacity of a socket towards the target
  PfMaxBytes,  \* bound on what a target writes in one connection
  PfMaxFrames  \* bound on what the client sends

\* Up to 128 ports: a channel is one byte, and a port has two.
PfConstants ==
  /\ NPorts \in 0..128
  /\ PfRoom \in Nat \ {0} /\ PfMaxBytes \in Nat /\ PfMaxFrames \in Nat

Index == 1..NPorts
Close == 0

VARIABLES
  pf_loop,     \* "announce", "select", "dial", "write", "done"
  pf_at,       \* in "dial" and "write", the port the client's data is for
  pf_order,    \* the order in which the map of connections is walked
  pf_up,       \* ports whose target is connected
  pf_failed,   \* ports whose client has been told "dial failed"
  pf_unread,   \* per port: bytes the target has not read yet
  pf_half,     \* ports whose target has been sent end of file
  pf_made,     \* per port: bytes the target has written, in this connection
  pf_back,     \* per port: how many of those went to the client
  pf_fin,      \* ports whose target has closed its side
  pf_inbox,    \* frames on their way from the client: the index of a port, or Close
  pf_budget,   \* how many more it may send
  pf_client    \* "reading", "stalled", "gone"

pfvars == <<pf_loop, pf_at, pf_order, pf_up, pf_failed, pf_unread, pf_half,
            pf_made, pf_back, pf_fin, pf_inbox, pf_budget, pf_client>>
target == <<pf_unread, pf_made, pf_fin>>
peer == <<pf_inbox, pf_budget, pf_client>>
NoPort == 0

Init ==
  /\ pf_loop = "announce" /\ pf_at = NoPort
  /\ pf_order \in {s \in [Index -> Index] : IsInjective(s)}
  /\ pf_up = {} /\ pf_failed = {} /\ pf_half = {} /\ pf_fin = {}
  /\ pf_unread = [i \in Index |-> 0] /\ pf_made = pf_unread /\ pf_back = pf_unread
  /\ pf_inbox = <<>> /\ pf_budget = PfMaxFrames /\ pf_client = "reading"
-----------------------------------------------------------------------------
(* Targets and client.                                                     *)

TargetWrites(i) ==
  /\ i \in pf_up \ pf_fin /\ pf_made[i] < PfMaxBytes
  /\ pf_made' = [pf_made EXCEPT ![i] = @ + 1]
  /\ UNCHANGED <<pf_loop, pf_at, pf_order, pf_up, pf_failed, pf_unread, pf_half, pf_back, pf_fin,
                 peer>>

TargetReads(i) ==
  /\ pf_unread[i] > 0 /\ pf_unread' = [pf_unread EXCEPT ![i] = @ - 1]
  /\ UNCHANGED <<pf_loop, pf_at, pf_order, pf_up, pf_failed, pf_half, pf_made, pf_back, pf_fin,
                 peer>>

TargetCloses(i) ==
  /\ i \in pf_up \ pf_fin /\ pf_fin' = pf_fin \cup {i}
  /\ UNCHANGED <<pf_loop, pf_at, pf_order, pf_up, pf_failed, pf_unread, pf_half, pf_made, pf_back,
                 peer>>

ClientSend(f) ==
  /\ pf_client = "reading" /\ pf_budget > 0
  /\ pf_inbox' = Append(pf_inbox, f) /\ pf_budget' = pf_budget - 1
  /\ UNCHANGED <<pf_loop, pf_at, pf_order, pf_up, pf_failed, pf_half, pf_back, target, pf_client>>

ClientTurns(how) ==
  /\ pf_client \in {"reading", "stalled"} /\ how # pf_client /\ pf_client' = how
  /\ UNCHANGED <<pf_loop, pf_at, pf_order, pf_up, pf_failed, pf_half, pf_back, target, pf_inbox,
                 pf_budget>>
-----------------------------------------------------------------------------
(* The session.                                                            *)

\* The port prefix on both channels of every port; a session without ports is closed at once.
Announce ==
  /\ pf_loop = "announce"
  /\ pf_loop' = IF NPorts = 0 THEN "done" ELSE "select"
  /\ UNCHANGED <<pf_at, pf_order, pf_up, pf_failed, pf_half, pf_back, target, peer>>

\* Data for a port.
Receive ==
  LET i == Head(pf_inbox) IN
  /\ pf_loop = "select" /\ pf_inbox # <<>> /\ i # Close
  /\ pf_inbox' = Tail(pf_inbox)
  /\ pf_at' = i /\ pf_loop' = IF i \in pf_up THEN "write" ELSE "dial"
  /\ UNCHANGED <<pf_order, pf_up, pf_failed, pf_half, pf_back, target, pf_budget, pf_client>>

\* A new connection, also for a port whose target has closed an earlier one.
Dial ==
  /\ pf_loop = "dial" /\ pf_loop' = "write"
  /\ pf_up' = pf_up \cup {pf_at}
  /\ pf_unread' = [pf_unread EXCEPT ![pf_at] = 0]
  /\ pf_made' = [pf_made EXCEPT ![pf_at] = 0]
  /\ pf_back' = [pf_back EXCEPT ![pf_at] = 0]
  /\ pf_fin' = pf_fin \ {pf_at} /\ pf_half' = pf_half \ {pf_at}
  /\ UNCHANGED <<pf_at, pf_order, pf_failed, peer>>

DialFails ==
  /\ pf_loop = "dial" /\ pf_client # "stalled"
  /\ pf_failed' = pf_failed \cup {pf_at} /\ pf_loop' = "select" /\ pf_at' = NoPort
  /\ UNCHANGED <<pf_order, pf_up, pf_half, pf_back, target, peer>>

Write ==
  /\ pf_loop = "write" /\ pf_unread[pf_at] < PfRoom
  /\ pf_unread' = [pf_unread EXCEPT ![pf_at] = @ + 1]
  /\ pf_loop' = "select" /\ pf_at' = NoPort
  /\ UNCHANGED <<pf_order, pf_up, pf_failed, pf_half, pf_made, pf_back, pf_fin, peer>>

\* The target is gone: the connection is dropped, and the client not told.
WriteFails ==
  /\ pf_loop = "write" /\ pf_at \in pf_fin
  /\ pf_up' = pf_up \ {pf_at} /\ pf_loop' = "select" /\ pf_at' = NoPort
  /\ UNCHANGED <<pf_order, pf_failed, pf_half, pf_back, target, peer>>

\* read_any waits for the first connection of the map, and for that one only.
Connected == SelectSeq(pf_order, LAMBDA i : i \in pf_up)
Polled == IF Connected = <<>> THEN {} ELSE {Head(Connected)}

\* The send of a frame to a client that has gone ends the session.
Forward(i) ==
  /\ pf_loop = "select" /\ i \in Polled /\ pf_back[i] < pf_made[i] /\ pf_client # "stalled"
  /\ \/ pf_back' = [pf_back EXCEPT ![i] = @ + 1] /\ UNCHANGED pf_loop
     \/ pf_client = "gone" /\ pf_loop' = "done" /\ UNCHANGED pf_back
  /\ UNCHANGED <<pf_at, pf_order, pf_up, pf_failed, pf_half, target, peer>>

Eof(i) ==
  /\ pf_loop = "select" /\ i \in Polled /\ pf_back[i] = pf_made[i] /\ i \in pf_fin
  /\ pf_up' = pf_up \ {i}
  /\ UNCHANGED <<pf_loop, pf_at, pf_order, pf_failed, pf_half, pf_back, target, peer>>

\* The client closes or is gone: every target gets end of file, then the sockets are
\* dropped.
Hangup ==
  /\ pf_loop = "select"
  /\ IF pf_inbox = <<>> THEN pf_client = "gone" ELSE Head(pf_inbox) = Close
  /\ pf_half' = pf_half \cup pf_up /\ pf_loop' = "done"
  /\ UNCHANGED <<pf_at, pf_order, pf_up, pf_failed, pf_back, target, peer>>

LoopStep ==
  \/ Announce \/ Receive \/ Dial \/ DialFails \/ Write \/ WriteFails \/ Hangup
  \/ \E i \in Index : Forward(i) \/ Eof(i)

Next ==
  \/ LoopStep
  \/ \E i \in Index : TargetWrites(i) \/ TargetReads(i) \/ TargetCloses(i)
  \/ \E f \in Index \cup {Close} : ClientSend(f)
  \/ \E how \in {"stalled", "gone"} : ClientTurns(how)

Spec == Init /\ [][Next]_pfvars

\* The runtime polls the task and select! is fair to its branches.
FairSpec ==
  /\ Spec /\ WF_pfvars(LoopStep)
  /\ \A i \in Index : SF_pfvars(Forward(i)) /\ SF_pfvars(Eof(i))
-----------------------------------------------------------------------------
Waiting(i) == i \in pf_up /\ (pf_back[i] < pf_made[i] \/ i \in pf_fin)
Held == pf_loop \in {"write", "done"} \/ pf_client = "stalled"

\* "Poll all connected TCP streams" (portforward.rs:68): what the target of a port has sent
\* comes through, however quiet the others are.
ForwardsAll == \A i \in Index : Waiting(i) ~> (~Waiting(i) \/ Held)

\* So it does when no port earlier in the map is connected, unless the loop is kept by a
\* target or a client that does not read.
ForwardsFirst == \A i \in Index : Waiting(i) ~> (~Waiting(i) \/ Held \/ Polled # {i})
=============================================================================

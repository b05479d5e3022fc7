--------------------------- MODULE SpdyPortForward ---------------------------
(***************************************************************************)
(* Port forwarding over SPDY (run_portforward).  The client opens a pair   *)
(* of streams per connection, "error" and "data", tied by a requestID or,  *)
(* where the client sends none, by their port: such connections to one     *)
(* port share what the loop keeps of a pair.  The loop dials at the data   *)
(* stream and writes the client's data to the target, a pump per           *)
(* connection copies what the target sends.  When the loop is over the     *)
(* pumps have a deadline to finish.  Bytes are counted.                    *)
(***************************************************************************)
EXTENDS Integers, Sequences

CONSTANTS
  Conns,       \* connections of the client: pairs of streams
  PortOf,      \* the port of each
  Namings,     \* sets of connections that may be those that carry a requestID, each its own
  SpRoom,      \* capacity of a socket towards a target
  SpMaxBytes,  \* bound on what a target writes
  SpMaxFrames  \* bound on what the client sends

Nobody == "none"

SpConstants ==
  /\ Nobody \notin Conns /\ PortOf \in [Conns -> Nat] /\ Namings \subseteq SUBSET Conns
  /\ SpRoom \in Nat \ {0} /\ SpMaxBytes \in Nat /\ SpMaxFrames \in Nat

\* What the client may send; data may carry FLAG_FIN.
Frames ==
  [op : {"syn"}, conn : Conns, stream : {"error", "data"}]
    \cup [op : {"data"}, conn : Conns, fin : BOOLEAN]
    \cup [op : {"rst"}]

VARIABLES
  sp_named,    \* the connections whose streams carry a requestID
  sp_loop,     \* "read", "write" (to a target), "drain", "done"
  sp_frame,    \* in "write", the frame
  sp_errors,   \* per key: the connection whose error stream it has, or Nobody
  sp_tcp,      \* per key: the connection that dialed the write half it has, or Nobody
  sp_routed,   \* connections whose data stream is in data_route
  sp_refused,  \* connections whose dial failed
  sp_told,     \* connections told "dial failed" on their error stream
  sp_reset,    \* streams reset by the server
  sp_unread,   \* per target: bytes it has not read
  sp_from,     \* per target: the connections whose data it got
  sp_half,     \* targets that were sent end of file
  sp_made,     \* per target: bytes it has written
  sp_closed,   \* targets that have closed their side
  sp_pump,     \* per connection: "none", "run", "done"
  sp_back,     \* per connection: bytes sent to the client
  sp_fin,      \* data streams that carried FLAG_FIN to the client
  sp_inbox,    \* frames on their way
  sp_opened,   \* streams the client has opened
  sp_budget,   \* how many frames it may still send
  sp_client    \* "reading", "stalled", "gone"

spvars == <<sp_named, sp_loop, sp_frame, sp_errors, sp_tcp, sp_routed, sp_refused, sp_told,
            sp_reset, sp_unread, sp_from, sp_half, sp_made, sp_closed, sp_pump, sp_back, sp_fin,
            sp_inbox, sp_opened, sp_budget, sp_client>>
pairs == <<sp_named, sp_errors, sp_tcp, sp_routed, sp_refused, sp_told, sp_reset>>
targets == <<sp_unread, sp_from, sp_half, sp_made, sp_closed>>
pumps == <<sp_pump, sp_back, sp_fin>>
peer == <<sp_inbox, sp_opened, sp_budget, sp_client>>

\* Mutant: every pair goes by its port.
Bug_KeyOf(c) == <<"port", PortOf[c]>>

\* requestID, or "port-{port}".
KeyOf(c) == IF c \in sp_named THEN <<"requestID", c>> ELSE <<"port", PortOf[c]>>
Keys == {KeyOf(c) : c \in Conns}

Init ==
  /\ sp_named \in Namings /\ sp_loop = "read" /\ sp_frame = [op |-> "none"]
  /\ sp_errors = [k \in Keys |-> Nobody] /\ sp_tcp = sp_errors
  /\ sp_routed = {} /\ sp_refused = {} /\ sp_told = {} /\ sp_reset = {}
  /\ sp_unread = [c \in Conns |-> 0] /\ sp_from = [c \in Conns |-> {}]
  /\ sp_half = {} /\ sp_made = sp_unread /\ sp_closed = {}
  /\ sp_pump = [c \in Conns |-> "none"] /\ sp_back = sp_unread /\ sp_fin = {}
  /\ sp_inbox = <<>> /\ sp_opened = {} /\ sp_budget = SpMaxFrames /\ sp_client = "reading"
-----------------------------------------------------------------------------
(* Targets and client.                                                     *)

Connected == {c \in Conns : sp_pump[c] # "none"}

TargetWrites(c) ==
  /\ c \in Connected \ sp_closed /\ sp_made[c] < SpMaxBytes
  /\ sp_made' = [sp_made EXCEPT ![c] = @ + 1]
  /\ UNCHANGED <<sp_loop, sp_frame, pairs, sp_unread, sp_from, sp_half, sp_closed, pumps, peer>>

TargetReads(c) ==
  /\ sp_unread[c] > 0 /\ sp_unread' = [sp_unread EXCEPT ![c] = @ - 1]
  /\ UNCHANGED <<sp_loop, sp_frame, pairs, sp_from, sp_half, sp_made, sp_closed, pumps, peer>>

TargetCloses(c) ==
  /\ c \in Connected \ sp_closed /\ sp_closed' = sp_closed \cup {c}
  /\ UNCHANGED <<sp_loop, sp_frame, pairs, sp_unread, sp_from, sp_half, sp_made, pumps, peer>>

\* Like client-go, it opens the error stream first and sends data on open streams.
ClientSend(f) ==
  /\ sp_client = "reading" /\ sp_budget > 0
  /\ f.op = "syn" => /\ <<f.conn, f.stream>> \notin sp_opened
                     /\ f.stream = "data" => <<f.conn, "error">> \in sp_opened
  /\ f.op = "data" => <<f.conn, "data">> \in sp_opened
  /\ sp_opened' = IF f.op = "syn" THEN sp_opened \cup {<<f.conn, f.stream>>} ELSE sp_opened
  /\ sp_inbox' = Append(sp_inbox, f) /\ sp_budget' = sp_budget - 1
  /\ UNCHANGED <<sp_loop, sp_frame, pairs, targets, pumps, sp_client>>

ClientTurns(how) ==
  /\ sp_client \in {"reading", "stalled"} /\ how # sp_client /\ sp_client' = how
  /\ UNCHANGED <<sp_loop, sp_frame, pairs, targets, pumps, sp_inbox, sp_opened, sp_budget>>
-----------------------------------------------------------------------------
(* The loop.  A SYN_STREAM is answered and a pump sends data behind the    *)
(* lock of the one writer: a client that stalls stops them all.            *)

Received == Head(sp_inbox)
Take(op) ==
  /\ sp_loop = "read" /\ sp_inbox # <<>> /\ Received.op = op
  /\ sp_inbox' = Tail(sp_inbox) /\ UNCHANGED <<sp_opened, sp_budget, sp_client>>

Writable == sp_client # "stalled"

OpenError ==
  /\ Take("syn") /\ Received.stream = "error" /\ Writable
  /\ sp_errors' = [sp_errors EXCEPT ![KeyOf(Received.conn)] = Received.conn]
  /\ UNCHANGED <<sp_named, sp_loop, sp_frame, sp_tcp, sp_routed, sp_refused, sp_told, sp_reset, targets,
                 pumps>>

OpenData ==
  LET c == Received.conn  old == sp_tcp[KeyOf(c)] IN
  /\ Take("syn") /\ Received.stream = "data" /\ Writable
  /\ sp_routed' = sp_routed \cup {c}
  /\ sp_tcp' = [sp_tcp EXCEPT ![KeyOf(c)] = c]
  /\ sp_half' = sp_half \cup ({old} \ {Nobody})
  /\ sp_pump' = [sp_pump EXCEPT ![c] = "run"]
  /\ UNCHANGED <<sp_named, sp_loop, sp_frame, sp_errors, sp_refused, sp_told, sp_reset, sp_unread,
                 sp_from, sp_made, sp_closed, sp_back, sp_fin>>

\* Mutant: only the data stream is reset.
Bug_RefuseData ==
  LET c == Received.conn  e == sp_errors[KeyOf(c)] IN
  /\ Take("syn") /\ Received.stream = "data" /\ Writable
  /\ sp_routed' = sp_routed \cup {c} /\ sp_refused' = sp_refused \cup {c}
  /\ sp_told' = sp_told \cup ({e} \ {Nobody})
  /\ sp_reset' = sp_reset \cup {<<c, "data">>}
  /\ UNCHANGED <<sp_named, sp_loop, sp_frame, sp_errors, sp_tcp, targets, pumps>>

\* The failure is told on the error stream, if there is one, and both streams are reset.
RefuseData ==
  LET c == Received.conn  e == sp_errors[KeyOf(c)] IN
  /\ Take("syn") /\ Received.stream = "data" /\ Writable
  /\ sp_routed' = sp_routed \cup {c} /\ sp_refused' = sp_refused \cup {c}
  /\ sp_told' = sp_told \cup ({e} \ {Nobody})
  /\ sp_reset' = sp_reset \cup {<<c, "data">>} \cup ({<<e, "error">>} \ {<<Nobody, "error">>})
  /\ UNCHANGED <<sp_named, sp_loop, sp_frame, sp_errors, sp_tcp, targets, pumps>>

Data ==
  LET c == Received.conn IN
  /\ Take("data")
  /\ IF c \in sp_routed /\ sp_tcp[KeyOf(c)] # Nobody
     THEN sp_loop' = "write" /\ sp_frame' = Received
     ELSE UNCHANGED <<sp_loop, sp_frame>>
  /\ UNCHANGED <<pairs, targets, pumps>>

\* The bytes, then a half-close for FLAG_FIN; what the target no longer takes is dropped.
Write ==
  LET t == sp_tcp[KeyOf(sp_frame.conn)] IN
  /\ sp_loop = "write" /\ (sp_unread[t] < SpRoom \/ t \in sp_half \cup sp_closed)
  /\ IF t \in sp_half THEN UNCHANGED <<sp_unread, sp_from>>
     ELSE /\ sp_unread' = [sp_unread EXCEPT ![t] = IF @ < SpRoom THEN @ + 1 ELSE @]
          /\ sp_from' = [sp_from EXCEPT ![t] = @ \cup {sp_frame.conn}]
  /\ sp_half' = IF sp_frame.fin THEN sp_half \cup {t} ELSE sp_half
  /\ sp_loop' = "read" /\ sp_frame' = [op |-> "none"]
  /\ UNCHANGED <<pairs, sp_made, sp_closed, pumps, peer>>

\* A reset of any stream ends the session, as the end of the connection does.
Hangup ==
  /\ \/ Take("rst")
     \/ sp_loop = "read" /\ sp_inbox = <<>> /\ sp_client = "gone" /\ UNCHANGED peer
  /\ sp_loop' = "drain"
  /\ UNCHANGED <<sp_frame, pairs, targets, pumps>>

Pump(c) ==
  /\ sp_loop # "done" /\ sp_pump[c] = "run" /\ Writable
  /\ \/ /\ sp_back[c] < sp_made[c] /\ sp_back' = [sp_back EXCEPT ![c] = @ + 1]
        /\ UNCHANGED <<sp_pump, sp_fin>>
     \/ /\ sp_back[c] < sp_made[c] /\ sp_client = "gone"
        /\ sp_pump' = [sp_pump EXCEPT ![c] = "done"] /\ UNCHANGED <<sp_back, sp_fin>>
     \/ /\ sp_back[c] = sp_made[c] /\ c \in sp_closed
        /\ sp_pump' = [sp_pump EXCEPT ![c] = "done"]
        /\ sp_fin' = sp_fin \cup {c} /\ UNCHANGED sp_back
  /\ UNCHANGED <<sp_loop, sp_frame, pairs, targets, peer>>

Drained ==
  /\ sp_loop = "drain" /\ \A c \in Conns : sp_pump[c] # "run"
  /\ sp_loop' = "done" /\ sp_half' = sp_half \cup Connected
  /\ UNCHANGED <<sp_frame, pairs, sp_unread, sp_from, sp_made, sp_closed, pumps, peer>>

\* Mutant: the drain has no deadline.
Bug_DrainExpires == FALSE

\* The deadline of three seconds: pumps still running are aborted, the sockets dropped.
DrainExpires ==
  /\ sp_loop = "drain" /\ \E c \in Conns : sp_pump[c] = "run"
  /\ sp_pump' = [c \in Conns |-> IF sp_pump[c] = "run" THEN "done" ELSE sp_pump[c]]
  /\ sp_loop' = "done" /\ sp_half' = sp_half \cup Connected
  /\ UNCHANGED <<sp_frame, pairs, sp_unread, sp_from, sp_made, sp_closed, sp_back, sp_fin, peer>>

LoopStep ==
  OpenError \/ OpenData \/ RefuseData \/ Data \/ Write \/ Hangup \/ Drained \/ DrainExpires

Next ==
  \/ LoopStep
  \/ \E c \in Conns : Pump(c) \/ TargetWrites(c) \/ TargetReads(c) \/ TargetCloses(c)
  \/ \E f \in Frames : ClientSend(f)
  \/ \E how \in {"stalled", "gone"} : ClientTurns(how)

Spec == Init /\ [][Next]_spvars

\* The runtime polls the loop and the pumps, and the clock reaches the deadline.
FairSpec == Spec /\ WF_spvars(LoopStep) /\ \A c \in Conns : WF_spvars(Pump(c))
-----------------------------------------------------------------------------
\* The fallback: of two connections to one port neither has a requestID.
MayMix(c, d) == c = d \/ ({c, d} \cap sp_named = {} /\ PortOf[c] = PortOf[d])

\* Two connections to one port do not mix, unless neither has a requestID: a target gets the
\* data of the connection that dialed it and of no other; and a data stream ends (FLAG_FIN)
\* after all that its target sent.
OwnTarget ==
  /\ \A c \in Conns : \A d \in sp_from[c] : MayMix(c, d)
  /\ \A c \in sp_fin : sp_back[c] = sp_made[c] /\ c \in sp_closed

\* "RST both on dial failure" (conn.rs:733): a refused client that opened the error stream
\* first is told, its streams are reset, and nobody else is told or reset; without a requestID
\* it may be another connection to its port that is told on, and loses, its error stream.
RefusalIsTold ==
  /\ \A c \in sp_refused : \E d \in sp_told : MayMix(c, d)
  /\ \A d \in sp_told : \E c \in sp_refused : MayMix(c, d)
  /\ sp_reset = (sp_refused \X {"data"}) \cup (sp_told \X {"error"})
  /\ \A c \in sp_refused : sp_pump[c] = "none"

Over == sp_client = "gone"
Ended == sp_loop \in {"done", "write"}

\* A client that leaves ends the session, unless the loop is stuck in a write to a target
\* that does not read.
SpdyPfEnds == Over ~> Ended
=============================================================================

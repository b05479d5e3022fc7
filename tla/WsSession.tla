------------------------------ MODULE WsSession ------------------------------
(***************************************************************************)
(* One exec or attach session over a websocket (run_session).  A single    *)
(* loop serves the client and both outputs: while it writes input to the   *)
(* process, or a frame to the client, it does nothing else.  Unlike the    *)
(* SPDY session it then waits for the waiter the backend gave it, however  *)
(* long that takes: of an exec it waits for the process, of an attach on   *)
(* pipes for the container's record to leave Running, of an attach on a    *)
(* pty for nothing.                                                        *)
(*                                                                         *)
(* Output is counted.  A frame of the client is "input" (the stdin         *)
(* channel), "other" (resize, ping, one that does not decode, a channel    *)
(* the server does not read) or "close".                                   *)
(***************************************************************************)
EXTENDS Integers, Sequences

CONSTANTS
  WsSessions,   \* what open_session may give: its outputs, whether it has a stdin, its waiter
  WsCodes,      \* exit codes
  WsPipeRoom,   \* capacity of a pipe
  WsMaxBytes,   \* session -> bound on what the process writes to one output
  WsMaxFrames   \* session -> bound on what its client sends

Outputs == {"stdout", "stderr"}
Frames == {"input", "other", "close"}
Waiters == {"child", "record", "none"}
Guesses == {137, 143}   \* what a stop records of a container whose process it has no pid of

WsConstants ==
  /\ WsSessions \subseteq [outputs : SUBSET Outputs \ {{}}, stdin : BOOLEAN, waiter : Waiters]
  /\ WsCodes \subseteq Nat
  /\ WsPipeRoom \in Nat \ {0}
  /\ WsMaxBytes \in [WsSessions -> Nat] /\ WsMaxFrames \in [WsSessions -> Nat]

VARIABLES
  ws_session,   \* the session it opens
  ws_loop,      \* "opening", "select", "input" (in a write to stdin), "wait", "done"
  ws_why,       \* what ended the loop: "none", "output", "client", "stdin"
  ws_open,      \* stdout_open, stderr_open
  ws_proc,      \* [is |-> "none"], [is |-> "running"], [is |-> "exited", code |-> c]
  ws_writers,   \* outputs that have a write end open, of the process or of a helper it left
  ws_made,      \* per output: how much was written to it
  ws_sent,      \* per output: how much of that went to the client
  ws_stdin,     \* bytes in the stdin pipe
  ws_reader,    \* is its read end open?
  ws_recorded,  \* the exit code in the container's record, {} while that is Running
  ws_gone,      \* is the record removed?
  ws_inbox,     \* frames of the client on their way
  ws_budget,    \* how many more it may send
  ws_client,    \* "reading", "stalled", "gone"
  ws_said       \* the last word on the error channel: "none", "error", "status"

wsvars == <<ws_session, ws_loop, ws_why, ws_open, ws_proc, ws_writers, ws_made, ws_sent,
            ws_stdin, ws_reader, ws_recorded, ws_gone, ws_inbox, ws_budget, ws_client, ws_said>>
record == <<ws_recorded, ws_gone>>
loop == <<ws_session, ws_loop, ws_why, ws_open, ws_sent, ws_said>>
proc == <<ws_proc, ws_writers, ws_made, ws_stdin, ws_reader, record>>
peer == <<ws_inbox, ws_budget, ws_client>>

Buffered(o) == ws_made[o] - ws_sent[o]

\* exit_status_json: Success exactly for 0, the code in the cause of a Failure.
StatusOf(c) == [is |-> "status", success |-> c = 0, cause |-> IF c = 0 THEN {} ELSE {c}]
Exited == ws_proc.is = "exited"
Failed == -1   \* the code for a waiter that fails

Init ==
  /\ ws_session \in WsSessions
  /\ ws_loop = "opening" /\ ws_why = "none" /\ ws_open = {} /\ ws_said = [is |-> "none"]
  /\ ws_proc = [is |-> "none"] /\ ws_writers = {}
  /\ ws_made = [o \in Outputs |-> 0] /\ ws_sent = ws_made
  /\ ws_stdin = 0 /\ ws_reader = FALSE
  /\ ws_recorded = {} /\ ws_gone = FALSE
  /\ ws_inbox = <<>> /\ ws_budget = WsMaxFrames[ws_session] /\ ws_client = "reading"
-----------------------------------------------------------------------------
(* The process, and the client.                                            *)

Produce(o) ==
  /\ o \in ws_writers /\ Buffered(o) < WsPipeRoom /\ ws_made[o] < WsMaxBytes[ws_session]
  /\ ws_made' = [ws_made EXCEPT ![o] = @ + 1]
  /\ UNCHANGED <<loop, peer, ws_proc, ws_writers, ws_stdin, ws_reader, record>>

CloseOutput(o) ==
  /\ o \in ws_writers /\ ws_writers' = ws_writers \ {o}
  /\ UNCHANGED <<loop, peer, ws_proc, ws_made, ws_stdin, ws_reader, record>>

ReadInput ==
  /\ ws_reader /\ ws_stdin > 0 /\ ws_stdin' = ws_stdin - 1
  /\ UNCHANGED <<loop, peer, ws_proc, ws_writers, ws_made, ws_reader, record>>

CloseInput ==
  /\ ws_reader /\ ws_reader' = FALSE
  /\ UNCHANGED <<loop, peer, ws_proc, ws_writers, ws_made, ws_stdin, record>>

\* Its outputs close too, unless a helper holds them.
Exit(c) ==
  /\ ws_proc.is = "running" /\ ws_proc' = [is |-> "exited", code |-> c] /\ ws_reader' = FALSE
  /\ ws_writers' \in SUBSET ws_writers
  /\ UNCHANGED <<loop, peer, ws_made, ws_stdin, record>>

(* The container's record, for the waiter of an attach on pipes.           *)

\* The reaper of the container records how its process ended, or that it could not wait.
RecordExit ==
  /\ ws_session.waiter = "record" /\ Exited /\ ws_recorded = {} /\ ~ws_gone
  /\ \E c \in {ws_proc.code, Failed} : ws_recorded' = {c}
  /\ UNCHANGED <<loop, peer, ws_proc, ws_writers, ws_made, ws_stdin, ws_reader, ws_gone>>

\* A stop that came before the start had recorded the pid.
RecordGuess(g) ==
  /\ ws_session.waiter = "record" /\ ws_proc.is # "none" /\ ws_recorded = {} /\ ~ws_gone
  /\ ws_recorded' = {g}
  /\ UNCHANGED <<loop, peer, ws_proc, ws_writers, ws_made, ws_stdin, ws_reader, ws_gone>>

RecordGone ==
  /\ ws_session.waiter = "record" /\ ws_proc.is # "none" /\ ~ws_gone /\ ws_gone' = TRUE
  /\ UNCHANGED <<loop, peer, ws_proc, ws_writers, ws_made, ws_stdin, ws_reader, ws_recorded>>

ClientSend(f) ==
  /\ ws_client = "reading" /\ ws_budget > 0
  /\ ws_inbox' = Append(ws_inbox, f) /\ ws_budget' = ws_budget - 1
  /\ UNCHANGED <<loop, proc, ws_client>>

ClientStalls ==
  /\ ws_client = "reading" /\ ws_client' = "stalled"
  /\ UNCHANGED <<loop, proc, ws_inbox, ws_budget>>

ClientLeaves ==
  /\ ws_client # "gone" /\ ws_client' = "gone"
  /\ UNCHANGED <<loop, proc, ws_inbox, ws_budget>>
-----------------------------------------------------------------------------
(* The session.                                                            *)

\* With the initial empty frame on the lowest writable channel.
Open ==
  /\ ws_loop = "opening" /\ ws_loop' = "select"
  /\ ws_open' = ws_session.outputs /\ ws_writers' = ws_session.outputs
  /\ ws_proc' = [is |-> "running"] /\ ws_reader' = ws_session.stdin
  /\ UNCHANGED <<ws_session, ws_why, ws_sent, ws_said, ws_made, ws_stdin, record, peer>>

OpenFails ==
  /\ ws_loop = "opening" /\ ws_loop' = "done" /\ ws_said' = [is |-> "error"]
  /\ UNCHANGED <<ws_session, ws_why, ws_open, ws_sent, proc, peer>>

Ends(why) == ws_loop' = "wait" /\ ws_why' = why

\* A frame that cannot be sent is dropped without a word; a client that does not read
\* holds the loop.
SendOutput(o) ==
  /\ ws_loop = "select" /\ o \in ws_open /\ Buffered(o) > 0 /\ ws_client # "stalled"
  /\ ws_sent' = [ws_sent EXCEPT ![o] = @ + 1]
  /\ UNCHANGED <<ws_session, ws_loop, ws_why, ws_open, ws_said, proc, peer>>

\* Mutant: the loop ends with the first output that ends.
Bug_OutputEnds(o) ==
  /\ ws_loop = "select" /\ o \in ws_open /\ Buffered(o) = 0 /\ o \notin ws_writers
  /\ ws_open' = ws_open \ {o} /\ Ends("output")
  /\ UNCHANGED <<ws_session, ws_sent, ws_said, proc, peer>>

OutputEnds(o) ==
  /\ ws_loop = "select" /\ o \in ws_open /\ Buffered(o) = 0 /\ o \notin ws_writers
  /\ ws_open' = ws_open \ {o}
  /\ IF ws_open' = {} THEN Ends("output") ELSE UNCHANGED <<ws_loop, ws_why>>
  /\ UNCHANGED <<ws_session, ws_sent, ws_said, proc, peer>>

\* Input for a session without stdin (one with a tty has none) is dropped.
Receive ==
  /\ ws_loop = "select" /\ ws_inbox # <<>>
  /\ ws_inbox' = Tail(ws_inbox)
  /\ \/ /\ Head(ws_inbox) = "close" /\ Ends("client")
     \/ /\ Head(ws_inbox) = "input" /\ ws_session.stdin
        /\ ws_loop' = "input" /\ UNCHANGED ws_why
     \/ /\ Head(ws_inbox) = "other" \/ (Head(ws_inbox) = "input" /\ ~ws_session.stdin)
        /\ UNCHANGED <<ws_loop, ws_why>>
  /\ UNCHANGED <<ws_session, ws_open, ws_sent, ws_said, proc, ws_budget, ws_client>>

ReceiveEnd ==
  /\ ws_loop = "select" /\ ws_inbox = <<>> /\ ws_client = "gone"
  /\ Ends("client")
  /\ UNCHANGED <<ws_session, ws_open, ws_sent, ws_said, proc, peer>>

WriteInput ==
  /\ ws_loop = "input" /\ ws_reader /\ ws_stdin < WsPipeRoom
  /\ ws_stdin' = ws_stdin + 1 /\ ws_loop' = "select"
  /\ UNCHANGED <<ws_session, ws_why, ws_open, ws_sent, ws_said, ws_proc, ws_writers, ws_made,
                 ws_reader, record, peer>>

WriteInputFails ==
  /\ ws_loop = "input" /\ ~ws_reader /\ Ends("stdin")
  /\ UNCHANGED <<ws_session, ws_open, ws_sent, ws_said, proc, peer>>

\* What the waiter may answer.  That of a record looks at it every 50 ms: it may have seen
\* the code before the record went.
Answers ==
  CASE ws_session.waiter = "child" -> IF Exited THEN {ws_proc.code} ELSE {}
    [] ws_session.waiter = "record" -> ws_recorded \cup IF ws_gone THEN {0} ELSE {}
    [] ws_session.waiter = "none" -> {0}

\* The status on the error channel, close 1000.
Says(c) ==
  /\ ws_loop = "wait" /\ ws_client # "stalled"
  /\ ws_said' = StatusOf(c) /\ ws_loop' = "done"
  /\ UNCHANGED <<ws_session, ws_why, ws_open, ws_sent, proc, peer>>

Finish == \E c \in Answers : Says(c)

\* The wait returns an error, or panics.
WaiterFails == ws_session.waiter # "none" /\ Says(Failed)

LoopStep ==
  \/ Open \/ OpenFails \/ Receive \/ ReceiveEnd \/ WriteInput \/ WriteInputFails \/ Finish
  \/ \E o \in Outputs : SendOutput(o) \/ OutputEnds(o)

Environment ==
  \/ \E o \in Outputs : Produce(o) \/ CloseOutput(o)
  \/ \E c \in WsCodes : Exit(c)
  \/ \E f \in Frames : ClientSend(f)
  \/ \E g \in Guesses : RecordGuess(g)
  \/ ReadInput \/ CloseInput \/ RecordExit \/ RecordGone \/ ClientStalls \/ ClientLeaves

Next == LoopStep \/ WaiterFails \/ Environment

Spec == Init /\ [][Next]_wsvars

\* The runtime polls the task; nothing is asked of the process or of the client.
FairSpec == Spec /\ WF_wsvars(LoopStep)
-----------------------------------------------------------------------------
\* The status is the exit the process had, but for a waiter that failed and, of an attach: on
\* a pty, where it is always Success; on pipes, after a removal (Success too) or a stop that
\* guessed.  A client still there has got all the output before it; not so when the client
\* closed, or when the process no longer took input: the loop then leaves what is in the pipes.
StatusIsLast ==
  ws_said.is = "status" =>
    /\ \/ Exited /\ ws_said = StatusOf(ws_proc.code)
       \/ ws_session.waiter # "none" /\ ws_said = StatusOf(Failed)
       \/ ws_session.waiter = "none" /\ ws_said = StatusOf(0)
       \/ ws_session.waiter = "record" /\ ws_gone /\ ws_said = StatusOf(0)
       \/ \E g \in Guesses \cap ws_recorded :
            ws_session.waiter = "record" /\ ws_said = StatusOf(g)
    /\ ws_why = "output" =>
         \A o \in ws_session.outputs : ws_sent[o] = ws_made[o] /\ o \notin ws_writers

\* Nothing is left to wait for: of an attach on pipes, the record has left Running as well.
Over == Exited /\ ws_writers = {} /\ (ws_session.waiter = "record" => ws_gone \/ ws_recorded # {})
Ended == ws_loop = "done" \/ ws_client = "stalled"

\* A session whose process is gone, with the write ends of its outputs and what its waiter
\* waits for, comes to its end, unless the client stays without reading.
WsEnds == Over ~> Ended
=============================================================================

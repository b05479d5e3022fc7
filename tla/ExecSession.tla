----------------------------- MODULE ExecSession -----------------------------
(***************************************************************************)
(* One SPDY exec or attach session: run_exec of                            *)
(* crates/lightr-cri-stream/src/spdy/conn.rs.                              *)
(*                                                                         *)
(* Four kinds of task share the connection: the read loop, which learns    *)
(* the stream ids as the client opens streams and spawns a pump per output *)
(* stream; the pump, from a pipe of the process to DATA frames; the       *)
(* reaper; and run_exec itself, which must put the exit Status on the wire *)
(* after all the output, although the process may be gone before the       *)
(* client has opened its streams.  The session cap, which is unset outside *)
(* of tests (server.rs:23-27), is left out.                                *)
(*                                                                         *)
(* Frames of the client are read in the order they were sent, each         *)
(* whenever it arrives: an action of the client is the read of its frame.  *)
(***************************************************************************)
EXTENDS Naturals, FiniteSets

CONSTANTS
  Requests,       \* requests, each with what the backend has to offer it
  Codes,          \* exit codes of processes
  Success,        \* 0, what an attach reports
  Unknown,        \* no exit code, no Status yet
  PipeRoom,       \* chunks a pipe holds
  Openings        \* the sets of streams the client may have open (bound)

VARIABLES
  req,            \* the request of this session
  files,          \* what the backend session offers of stdin, stdout, stderr
  proc,           \* exit code of the process, Unknown while it runs
  unread,         \* output -> chunks in its pipe
  eof,            \* outputs whose last writer is gone
  inbuf,          \* chunks in the stdin pipe
  closed,         \* of the client's frames only the close is left to read
  hearing,        \* the client still reads
  stdin_open,     \* the read loop has not dropped stdin
  by_role,        \* roles of the streams opened
  loop,           \* where the read loop stands
  role,           \* the role of the stream it is opening, or "none"
  pump,           \* output -> where its pump stands
  output_tasks,   \* outputs whose pump is in the drain list
  cp,             \* where run_exec stands
  detached,       \* the armed detach signal has fired
  late,           \* a 5 s wait for streams or pumps ran out     (history)
  taken,          \* outputs whose pump the drain waits for
  ids,            \* by_role as the completion saw it
  exit,           \* the exit code for the Status
  fin,            \* outputs with a FIN on the wire
  status          \* the code of the Status on the wire

process    == <<proc, eof>>
client     == <<closed, hearing>>
reader     == <<loop, role, by_role, stdin_open>>
completion == <<detached, late, taken, ids, exit>>
wire       == <<fin, status>>
vars == <<req, files, process, unread, inbuf, client, reader, pump, output_tasks, cp,
          completion, wire>>

-----------------------------------------------------------------------------
Outputs == {"stdout", "stderr"}
Roles   == Outputs \cup {"stdin", "error"}

exec   == req.verb = "exec"
attach == req.verb = "attach"

(* What open_exec, and open_attach of a pty or a pipe container, hand back.  A pty has
   neither a stdin nor a stderr of its own.                                             *)
Sessions(verb, tty, stdin) ==
  IF verb = "exec"
  THEN {{"stdout"} \cup {f \in {"stderr", "stdin"} : ~tty /\ (f = "stdin" => stdin)}}
  ELSE {{"stdout"}, Outputs, Outputs \cup {"stdin"}}

RequestsOK ==
  /\ Requests \subseteq [verb : {"exec", "attach"}, tty : BOOLEAN, stdin : BOOLEAN,
                         offers : SUBSET Roles]
  /\ \A q \in Requests : q.offers \in Sessions(q.verb, q.tty, q.stdin)
ASSUME SessionConstantsOK ==
  /\ RequestsOK /\ Unknown \notin Codes \cup {Success}
  /\ PipeRoom \in Nat /\ Openings \subseteq SUBSET Roles

\* The streams a conforming client opens, and the pumps that will then be spawned.
ExpectedRoles ==
  {r \in Roles : (r = "stdin" => req.stdin) /\ (r = "stderr" => ~req.tty)}
ExpectedPumps == Outputs \cap files \cap ExpectedRoles

Init ==
  /\ req \in Requests
  /\ files = {}
  /\ proc = Unknown
  /\ unread = [s \in Outputs |-> 0] /\ eof = {}
  /\ inbuf = 0
  /\ closed = FALSE /\ hearing = TRUE
  /\ stdin_open = TRUE /\ by_role = {}
  /\ loop = "unborn" /\ role = "none"
  /\ pump = [s \in Outputs |-> "none"]
  /\ output_tasks = {}
  /\ cp = "opening"
  /\ detached = FALSE /\ late = FALSE
  /\ taken = {} /\ ids = {} /\ exit = Unknown
  /\ fin = {} /\ status = Unknown

-----------------------------------------------------------------------------
(* The process (or the container attached to) and the client.                           *)

Exits(code) ==
  /\ files # {} /\ proc = Unknown
  /\ proc' = code
  /\ UNCHANGED <<req, files, unread, eof, inbuf, client, reader, pump, output_tasks, cp,
                 completion, wire>>

\* A descendant may hold the pipe after the process has gone.
Writes(s) ==
  /\ s \in files /\ s \notin eof /\ unread[s] < PipeRoom
  /\ unread' = [unread EXCEPT ![s] = @ + 1]
  /\ UNCHANGED <<req, files, process, inbuf, client, reader, pump, output_tasks, cp,
                 completion, wire>>

ClosesOutput(s) ==
  /\ s \in files /\ s \notin eof
  /\ eof' = eof \cup {s}
  /\ UNCHANGED <<req, files, proc, unread, inbuf, client, reader, pump, output_tasks, cp,
                 completion, wire>>

ReadsStdin ==
  /\ proc = Unknown /\ inbuf > 0
  /\ inbuf' = inbuf - 1
  /\ UNCHANGED <<req, files, process, unread, client, reader, pump, output_tasks, cp,
                 completion, wire>>

\* It closes its write half, or is gone altogether.
ClientCloses ==
  /\ hearing
  /\ \/ ~closed /\ UNCHANGED hearing
     \/ hearing' = FALSE
  /\ closed' = TRUE
  /\ UNCHANGED <<req, files, process, unread, inbuf, reader, pump, output_tasks, cp,
                 completion, wire>>

-----------------------------------------------------------------------------
(* The read loop.  What it holds of the writer lock and of by_role is released within a
   step; the completion holds the lock from the first FIN to the Status.                *)

LockFree == cp \notin {"finErr", "status"}

Armed == cp \notin {"opening", "arming"}

\* notify_waiters reaches the completion only once its future exists.
Signal == detached' = (detached \/ Armed)

ReadSyn(r) ==
  /\ loop = "read" /\ ~closed /\ r \notin by_role /\ by_role \cup {r} \in Openings
  /\ loop' = "reply" /\ role' = r
  /\ UNCHANGED <<req, files, process, unread, inbuf, client, by_role, stdin_open, pump,
                 output_tasks, cp, completion, wire>>

\* SYN_REPLY, then the insert that the barrier waits for.
Reply ==
  /\ loop = "reply" /\ LockFree
  /\ by_role' = by_role \cup {role}
  /\ \/ role \in Outputs \cap files /\ loop' = "spawn" /\ UNCHANGED role
     \/ role \notin Outputs \cap files /\ loop' = "read" /\ role' = "none"
  /\ UNCHANGED <<req, files, process, unread, inbuf, client, stdin_open, pump,
                 output_tasks, cp, completion, wire>>

\* Spawned and put on the abort list.
Spawn ==
  /\ loop = "spawn"
  /\ pump' = [pump EXCEPT ![role] = "idle"]
  /\ loop' = "register"
  /\ UNCHANGED <<req, files, process, unread, inbuf, client, role, by_role, stdin_open,
                 output_tasks, cp, completion, wire>>

Register ==
  /\ loop = "register"
  /\ output_tasks' = output_tasks \cup {role}
  /\ loop' = "read" /\ role' = "none"
  /\ UNCHANGED <<req, files, process, unread, inbuf, client, by_role, stdin_open, pump,
                 cp, completion, wire>>

\* DATA on stdin.  Without a stdin to write to it is dropped.
ReadInput ==
  /\ loop = "read" /\ ~closed /\ "stdin" \in by_role /\ stdin_open /\ "stdin" \in files
  /\ loop' = "write"
  /\ UNCHANGED <<req, files, process, unread, inbuf, client, role, by_role, stdin_open,
                 pump, output_tasks, cp, completion, wire>>

\* The read loop waits here for room, or for the process to go (EPIPE, ignored).
WriteStdin ==
  /\ loop = "write" /\ (inbuf < PipeRoom \/ proc # Unknown)
  /\ inbuf' = IF proc = Unknown THEN inbuf + 1 ELSE inbuf
  /\ loop' = "read"
  /\ UNCHANGED <<req, files, process, unread, client, role, by_role, stdin_open, pump,
                 output_tasks, cp, completion, wire>>

ReadFin(r) ==
  /\ loop = "read" /\ ~closed /\ r \in by_role
  /\ stdin_open' = (stdin_open /\ r # "stdin")
  /\ IF attach THEN Signal ELSE UNCHANGED detached
  /\ UNCHANGED <<req, files, process, unread, inbuf, client, loop, role, by_role, pump,
                 output_tasks, cp, late, taken, ids, exit, wire>>

\* End of file, RST_STREAM or GOAWAY.
ReadClose ==
  /\ loop = "read" /\ closed
  /\ loop' = "ended"
  /\ Signal
  /\ UNCHANGED <<req, files, process, unread, inbuf, client, role, by_role, stdin_open,
                 pump, output_tasks, cp, late, taken, ids, exit, wire>>

-----------------------------------------------------------------------------
(* The pumps. *)

PumpRead(s) ==
  /\ pump[s] = "idle" /\ unread[s] > 0
  /\ pump' = [pump EXCEPT ![s] = "holding"]
  /\ unread' = [unread EXCEPT ![s] = @ - 1]
  /\ UNCHANGED <<req, files, process, inbuf, client, reader, output_tasks, cp, completion,
                 wire>>

\* A pump whose client is gone gives up at the first write that fails.
PumpWrite(s) ==
  /\ pump[s] = "holding" /\ LockFree
  /\ \/ pump' = [pump EXCEPT ![s] = "idle"]
     \/ ~hearing /\ pump' = [pump EXCEPT ![s] = "done"]
  /\ UNCHANGED <<req, files, process, unread, inbuf, client, reader, output_tasks, cp,
                 completion, wire>>

PumpEnds(s) ==
  /\ pump[s] = "idle" /\ unread[s] = 0 /\ s \in eof
  /\ pump' = [pump EXCEPT ![s] = "done"]
  /\ UNCHANGED <<req, files, process, unread, inbuf, client, reader, output_tasks, cp,
                 completion, wire>>

Live(s) == pump[s] \in {"idle", "holding"}

Bug_Guarded == {}

\* What the guard's drop aborts, besides the read loop and the reaper.
Guarded == {s \in Outputs : pump[s] # "none"}

\* An abort takes effect at the task's next await: it may take steps before.
PumpAborts(s) ==
  /\ cp = "done" /\ s \in Guarded /\ Live(s)
  /\ pump' = [pump EXCEPT ![s] = "done"]
  /\ UNCHANGED <<req, files, process, unread, inbuf, client, reader, output_tasks, cp,
                 completion, wire>>

-----------------------------------------------------------------------------
(* run_exec. *)

Open ==
  /\ cp = "opening"
  /\ files' = req.offers
  /\ cp' = "arming" /\ loop' = "read"
  /\ UNCHANGED <<req, process, unread, inbuf, client, role, by_role, stdin_open, pump,
                 output_tasks, completion, wire>>

\* Without a session there is no completion: only the wait for the client's close.
OpenFails ==
  /\ cp = "opening"
  /\ cp' = "grace" /\ loop' = "read"
  /\ UNCHANGED <<req, files, process, unread, inbuf, client, role, by_role, stdin_open,
                 pump, output_tasks, completion, wire>>

Goto(next) ==
  /\ cp' = next
  /\ UNCHANGED <<req, files, process, unread, inbuf, client, reader, pump, wire>>

Arm ==
  /\ cp = "arming"
  /\ Goto("barrier") /\ UNCHANGED <<output_tasks, completion>>

Bug_Barrier ==
  /\ cp = "barrier" /\ ExpectedRoles \subseteq by_role
  /\ Goto("gate") /\ UNCHANGED <<output_tasks, completion>>

\* The fast-exit barrier: the streams are open, or 5 s have passed.
Barrier ==
  /\ cp = "barrier"
  /\ late' = (late \/ ~(ExpectedRoles \subseteq by_role))
  /\ Goto("gate") /\ UNCHANGED <<output_tasks, detached, taken, ids, exit>>

Bug_Gate ==
  /\ cp = "gate"
  /\ taken' = output_tasks /\ output_tasks' = {}
  /\ Goto("select") /\ UNCHANGED <<detached, late, ids, exit>>

\* The pump gate, and the drain list as the select first polls it.
Gate ==
  /\ cp = "gate"
  /\ late' = (late \/ Cardinality(output_tasks) < Cardinality(ExpectedPumps))
  /\ taken' = output_tasks /\ output_tasks' = {}
  /\ Goto("select") /\ UNCHANGED <<detached, ids, exit>>

\* Only an attach leaves on the detach signal, from any of the three waits.
Detach ==
  /\ attach /\ detached /\ cp \in {"barrier", "gate", "select"}
  /\ Goto("reap") /\ UNCHANGED <<output_tasks, completion>>

Drained == \A s \in taken : pump[s] = "done"

SelectDrain ==
  /\ cp = "select" /\ Drained
  /\ Goto("reap") /\ UNCHANGED <<output_tasks, completion>>

\* An exec that was reaped, or whose client half-closed, still drains its output.
SelectOther ==
  /\ exec /\ cp = "select" /\ (proc # Unknown \/ detached)
  /\ Goto("drain") /\ UNCHANGED <<output_tasks, completion>>

DrainEnds ==
  /\ cp = "drain" /\ Drained
  /\ Goto("reap") /\ UNCHANGED <<output_tasks, completion>>

Bug_ReapForAttach ==
  /\ cp = "reap" /\ proc # Unknown
  /\ exit' = IF exec THEN proc ELSE Success
  /\ ids' = by_role
  /\ Goto("finOut") /\ UNCHANGED <<output_tasks, detached, late, taken>>
Bug_ReapForNobody ==
  /\ cp = "reap"
  /\ exit' = IF exec /\ proc # Unknown THEN proc ELSE Success
  /\ ids' = by_role
  /\ Goto("finOut") /\ UNCHANGED <<output_tasks, detached, late, taken>>

\* The reaper's answer for an exec; an attach does not wait for it.
Reap ==
  /\ cp = "reap" /\ (exec => proc # Unknown)
  /\ exit' = IF exec THEN proc ELSE Success
  /\ ids' = by_role
  /\ Goto("finOut") /\ UNCHANGED <<output_tasks, detached, late, taken>>

SendFin(s, at, next) ==
  /\ cp = at
  /\ fin' = fin \cup ({s} \cap ids)
  /\ cp' = next
  /\ UNCHANGED <<req, files, process, unread, inbuf, client, reader, pump, output_tasks,
                 completion, status>>

SendStatus ==
  /\ cp = "status"
  /\ status' = IF "error" \in ids THEN exit ELSE status
  /\ cp' = "grace"
  /\ UNCHANGED <<req, files, process, unread, inbuf, client, reader, pump, output_tasks,
                 completion, fin>>

\* The client has closed, or 5 s have passed and the read loop is aborted and awaited.
Grace ==
  /\ cp = "grace" /\ loop # "spawn"
  /\ loop' = "ended"
  /\ cp' = "done"
  /\ UNCHANGED <<req, files, process, unread, inbuf, client, role, by_role, stdin_open,
                 pump, output_tasks, completion, wire>>

-----------------------------------------------------------------------------
Over == cp = "done"

\* What process and client do after the end of the session is left out.
Environment ==
  /\ ~Over
  /\ \/ \E code \in Codes : Exits(code)
     \/ \E s \in Outputs : Writes(s) \/ ClosesOutput(s)
     \/ ReadsStdin
     \/ ClientCloses

Frame == \E r \in Roles : ReadSyn(r) \/ ReadFin(r)

ReadLoop ==
  \/ Reply \/ Spawn \/ Register \/ WriteStdin
  \/ ReadClose

Pump(s) == PumpRead(s) \/ PumpWrite(s) \/ PumpEnds(s) \/ PumpAborts(s)

RunExec ==
  \/ Open \/ OpenFails
  \/ Arm \/ Barrier \/ Gate \/ Detach
  \/ SelectDrain \/ SelectOther \/ DrainEnds \/ Reap
  \/ SendFin("stdout", "finOut", "finErr") \/ SendFin("stderr", "finErr", "status")
  \/ SendStatus \/ Grace

Next ==
  \/ Environment
  \/ Frame \/ ReadInput \/ ReadLoop
  \/ \E s \in Outputs : Pump(s)
  \/ RunExec

Spec == Init /\ [][Next]_vars

(* The runtime polls every task that is ready and every timer fires.  A client reads what
   it is sent or is gone; it owes no frame, and the process owes nothing.               *)
Fairness ==
  /\ WF_vars(ReadLoop) /\ WF_vars(RunExec)
  /\ \A s \in Outputs : WF_vars(Pump(s))
FairSpec == Spec /\ Fairness

-----------------------------------------------------------------------------
(* Properties *)

\* Every variable holds what run_exec can put there.
TypeOK ==
  /\ req \in Requests /\ files \subseteq Outputs \cup {"stdin"}
  /\ proc \in Codes \cup {Unknown}
  /\ unread \in [Outputs -> 0..PipeRoom]
  /\ eof \subseteq Outputs
  /\ inbuf \in 0..PipeRoom
  /\ closed \in BOOLEAN /\ hearing \in BOOLEAN
  /\ stdin_open \in BOOLEAN /\ by_role \subseteq Roles
  /\ loop \in {"unborn", "read", "reply", "spawn", "register", "write", "ended"}
  /\ role \in Roles \cup {"none"}
  /\ (loop = "reply" => role \in Roles) /\ (loop \in {"spawn", "register"} => role \in Outputs)
  /\ pump \in [Outputs -> {"none", "idle", "holding", "done"}]
  /\ output_tasks \subseteq Outputs /\ taken \subseteq Outputs
  /\ cp \in {"opening", "arming", "barrier", "gate", "select", "drain", "reap", "finOut",
            "finErr", "status", "grace", "done"}
  /\ detached \in BOOLEAN /\ late \in BOOLEAN
  /\ ids \subseteq Roles /\ exit \in Codes \cup {Success, Unknown}
  /\ fin \subseteq Outputs /\ status \in Codes \cup {Success, Unknown}

Conforming == by_role \subseteq ExpectedRoles

\* No byte is cut off: the Status follows the last of the output, for an exec whose
\* process is gone before its streams are open, whose client half-closed, and for an
\* attach that was not detached.  (The client opens the streams of its request, in any
\* order, within 5 s, and still reads.)
StatusAfterOutput ==
  status # Unknown /\ hearing /\ ~late /\ Conforming /\ (attach => ~detached) =>
    \A s \in ExpectedPumps : s \in eof /\ unread[s] = 0 /\ ~Live(s)

\* The Status of an exec carries the exit code of its process, whichever of reaper, drain
\* and half-close came first.
StatusIsExit == exec /\ status # Unknown => status = proc

\* A session whose process has ended and let go of its outputs comes to its end, whatever
\* streams the client opened and wherever the read loop is stuck.
Completes ==
  /\ exec /\ proc # Unknown /\ files \cap Outputs \subseteq eof
  ~> Over

\* An attach ends on detach although its container lives on.
DetachCompletes == attach /\ detached ~> Over

\* When run_exec returns, nothing of the session is left running to hold the socket.
TearsDown == cp = "done" ~> loop = "ended" /\ \A s \in Outputs : ~Live(s)
=============================================================================

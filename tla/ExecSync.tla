------------------------------ MODULE ExecSync ------------------------------
(***************************************************************************)
(* exec_sync: a command spawned in its own process group, its output read  *)
(* into memory, a deadline when the request has a timeout.  The command    *)
(* may leave a helper behind, a process that outlives it, that may or may  *)
(* not hold its output pipe and be in its group.  Output is counted, not   *)
(* spelled out.  The checks before the spawn (container Running, command   *)
(* not empty) and the namespaces it joins are SandboxNetwork's.            *)
(***************************************************************************)
EXTENDS Integers

CONSTANTS
  PipeRoom,    \* capacity of a pipe
  MaxOutput,   \* bound on what the command writes
  Statuses     \* exit statuses: <<"code", n>> and <<"signal", n>>

ExecSyncConstants ==
  /\ PipeRoom \in Nat \ {0} /\ MaxOutput \in Nat
  /\ Statuses \subseteq {"code", "signal"} \X Nat

VARIABLES
  timed,     \* timeout_seconds > 0
  expired,   \* has the deadline passed?
  child,     \* "running", "zombie", "reaped"
  status,    \* how it ended
  plan,      \* how much the command has to write
  wrote,     \* how much it has written
  buffer,    \* bytes in the output pipe
  helper,    \* the process it may leave behind
  server,    \* step of the call
  output,    \* what the call has read
  result     \* what it returns

xvars == <<timed, expired, child, status, plan, wrote, buffer, helper, server, output, result>>
request == <<timed, plan>>
world == <<child, status, wrote, helper>>

NoHelper == [alive |-> FALSE, holds |-> FALSE, grouped |-> FALSE]
Helpers == {NoHelper} \cup [alive : {TRUE}, holds : BOOLEAN, grouped : BOOLEAN]
Pending == [kind |-> "pending"]
Ended(c) == c # "running"
Held == helper.alive /\ helper.holds
Eof == buffer = 0 /\ Ended(child) /\ ~Held

\* exit_code_from_status
ExitCode(st) == IF st[1] = "signal" THEN 128 + st[2] ELSE st[2]

Init ==
  /\ timed \in BOOLEAN /\ plan \in 0..MaxOutput
  /\ expired = FALSE /\ child = "running" /\ status = <<"code", 0>>
  /\ wrote = 0 /\ buffer = 0 /\ helper = NoHelper /\ output = 0
  /\ server = IF timed THEN "poll" ELSE "collect"
  /\ result = Pending
-----------------------------------------------------------------------------
(* The command and its helper.                                             *)

Write ==
  /\ child = "running" /\ wrote < plan /\ buffer < PipeRoom
  /\ wrote' = wrote + 1 /\ buffer' = buffer + 1
  /\ UNCHANGED <<request, expired, child, status, helper, server, output, result>>

Fork ==
  /\ child = "running" /\ ~helper.alive
  /\ helper' \in Helpers \ {NoHelper}
  /\ UNCHANGED <<request, expired, child, status, wrote, buffer, server, output, result>>

\* A command that exits has written what it had to write; a signal may come before.
Finish(st) ==
  /\ child = "running" /\ (wrote = plan \/ st[1] = "signal")
  /\ child' = "zombie" /\ status' = st
  /\ UNCHANGED <<request, expired, wrote, buffer, helper, server, output, result>>

HelperEnds ==
  /\ helper.alive /\ helper' = NoHelper
  /\ UNCHANGED <<request, expired, child, status, wrote, buffer, server, output, result>>

Expire ==
  /\ timed /\ ~expired /\ expired' = TRUE
  /\ UNCHANGED <<request, world, buffer, server, output, result>>
-----------------------------------------------------------------------------
(* The call.  With a timeout it polls, and reads only after the exit;      *)
(* without one wait_with_output reads from the start.                      *)

Read ==
  /\ server \in {"drain", "collect"} /\ buffer > 0
  /\ output' = output + buffer /\ buffer' = 0
  /\ UNCHANGED <<request, expired, world, server, result>>

PollExit ==
  /\ server = "poll" /\ child = "zombie"
  /\ child' = "reaped" /\ server' = "drain"
  /\ UNCHANGED <<request, expired, status, wrote, buffer, helper, output, result>>

\* The child found running is killed, then its group, and reaped.
PollExpired ==
  /\ server = "poll" /\ child = "running" /\ expired
  /\ server' = "kill"
  /\ UNCHANGED <<request, expired, world, buffer, output, result>>

\* Mutant: only the command is killed, not its group.
Bug_Kill ==
  /\ server = "kill"
  /\ status' = IF child = "running" THEN <<"signal", 9>> ELSE status
  /\ child' = "reaped" /\ result' = [kind |-> "timeout"] /\ server' = "done"
  /\ UNCHANGED <<request, expired, wrote, buffer, helper, output>>

Kill ==
  /\ server = "kill"
  /\ status' = IF child = "running" THEN <<"signal", 9>> ELSE status
  /\ child' = "reaped"
  /\ helper' = IF helper.grouped THEN NoHelper ELSE helper
  /\ result' = [kind |-> "timeout"] /\ server' = "done"
  /\ UNCHANGED <<request, expired, wrote, buffer, output>>

\* read_child_output ends with the pipe.
Drained ==
  /\ server = "drain" /\ Eof
  /\ result' = [kind |-> "ok", code |-> ExitCode(status), bytes |-> output]
  /\ server' = "done"
  /\ UNCHANGED <<request, expired, world, buffer, output>>

Collected ==
  /\ server = "collect" /\ Eof /\ child = "zombie"
  /\ child' = "reaped"
  /\ result' = [kind |-> "ok", code |-> ExitCode(status), bytes |-> output]
  /\ server' = "done"
  /\ UNCHANGED <<request, expired, status, wrote, buffer, helper, output>>

ServerStep == Read \/ PollExit \/ PollExpired \/ Kill \/ Drained \/ Collected

Next ==
  \/ Write \/ Fork \/ HelperEnds \/ Expire \/ ServerStep
  \/ \E st \in Statuses : Finish(st)

Spec == Init /\ [][Next]_xvars

\* The thread of the call runs and time passes; a command that can write writes.
FairSpec ==
  /\ Spec /\ WF_xvars(ServerStep) /\ WF_xvars(Expire) /\ WF_xvars(Write)
  /\ WF_xvars(\E st \in Statuses : Finish(st))
-----------------------------------------------------------------------------
\* A result is the command's own: its exit as the shell encodes it, all it wrote, and it
\* has been reaped; a timeout kills it and everybody in its group (the comment at
\* lib.rs:1430: nobody may survive).
ResultIsWhole ==
  /\ result.kind = "ok" =>
       child = "reaped" /\ result.bytes = wrote /\ result.code = ExitCode(status)
  /\ result.kind = "timeout" => child = "reaped" /\ ~(helper.alive /\ helper.grouped)

Returned == result.kind # "pending"

\* The call comes back, with the result or at its deadline, unless a helper holds the
\* output pipe: no deadline covers the reads after the exit.
ExecSyncReturns == <>(Returned \/ Held)
=============================================================================

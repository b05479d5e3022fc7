-------------------------- MODULE ExecSessionProofs --------------------------
(***************************************************************************)
(* What a SPDY session promises for every set of requests, exit codes and  *)
(* opening orders, and pipes of any size: types, the exit code of the      *)
(* Status, and the Status after the last of the output.                    *)
(***************************************************************************)
EXTENDS ExecSession, FiniteSetTheorems, TLAPS

-----------------------------------------------------------------------------
(* Types *)

LEMMA Streams == "stdout" \in Outputs /\ "stderr" \in Outputs /\ Outputs \subseteq Roles
BY DEF Outputs, Roles

LEMMA TypedInit == ASSUME Init PROVE TypeOK
<1>1. unread \in [Outputs -> 0..PipeRoom] /\ inbuf \in 0..PipeRoom
  BY SessionConstantsOK DEF Init
<1>2. /\ pump \in [Outputs -> {"none", "idle", "holding", "done"}]
      /\ loop = "unborn" /\ cp = "opening" /\ role = "none"
  BY DEF Init
<1>3. /\ closed \in BOOLEAN /\ hearing \in BOOLEAN /\ stdin_open \in BOOLEAN
      /\ detached \in BOOLEAN /\ late \in BOOLEAN
  BY Zenon DEF Init
<1>4. /\ req \in Requests /\ files = {} /\ proc = Unknown /\ eof = {} /\ by_role = {}
      /\ output_tasks = {} /\ taken = {} /\ ids = {} /\ fin = {}
      /\ exit = Unknown /\ status = Unknown
  BY DEF Init
<1>. QED
  BY <1>1, <1>2, <1>3, <1>4 DEF TypeOK

LEMMA TypedEnvironment == ASSUME TypeOK, Environment PROVE TypeOK'
<1> USE SessionConstantsOK DEF TypeOK, process, client, reader, completion, wire
<1>1. ASSUME NEW code \in Codes, Exits(code) PROVE TypeOK'
  BY <1>1 DEF Exits
<1>2. ASSUME NEW s \in Outputs, Writes(s) PROVE TypeOK'
  BY <1>2 DEF Writes
<1>3. ASSUME NEW s \in Outputs, ClosesOutput(s) PROVE TypeOK'
  BY <1>3 DEF ClosesOutput
<1>4. CASE ReadsStdin
  BY <1>4 DEF ReadsStdin
<1>5. CASE ClientCloses
  <2>1. closed' \in BOOLEAN /\ hearing' \in BOOLEAN
    BY <1>5, Zenon DEF ClientCloses
  <2>2. UNCHANGED <<req, files, process, unread, inbuf, reader, pump, output_tasks, cp,
                    completion, wire>>
    BY <1>5 DEF ClientCloses
  <2>. QED
    BY <2>1, <2>2
<1>. QED
  BY <1>1, <1>2, <1>3, <1>4, <1>5 DEF Environment

LEMMA TypedReader ==
  ASSUME TypeOK, Frame \/ ReadInput \/ ReadLoop PROVE TypeOK'
<1> USE SessionConstantsOK DEF TypeOK, process, client, reader, completion, wire
<1>1. ASSUME NEW r \in Roles, ReadSyn(r) PROVE TypeOK'
  BY <1>1 DEF ReadSyn
<1>2. ASSUME NEW r \in Roles, ReadFin(r) PROVE TypeOK'
  <2>1. stdin_open' \in BOOLEAN /\ detached' \in BOOLEAN
    BY <1>2, Zenon DEF ReadFin, Signal, Armed
  <2>2. UNCHANGED <<req, files, proc, eof, unread, inbuf, closed, hearing, loop, role, by_role,
                    pump, output_tasks, cp, late, taken, ids, exit, fin, status>>
    BY <1>2 DEF ReadFin
  <2>. QED
    BY <2>1, <2>2
<1>3. CASE ReadInput
  BY <1>3 DEF ReadInput
<1>4. CASE Reply
  BY <1>4, Streams DEF Reply
<1>5. CASE Spawn
  BY <1>5 DEF Spawn
<1>6. CASE Register
  BY <1>6 DEF Register
<1>7. CASE WriteStdin
  BY <1>7 DEF WriteStdin
<1>8. CASE ReadClose
  <2>1. detached' \in BOOLEAN
    BY <1>8, Zenon DEF ReadClose, Signal, Armed
  <2>2. /\ loop' = "ended"
        /\ UNCHANGED <<req, files, proc, eof, unread, inbuf, closed, hearing, stdin_open, role,
                       by_role, pump, output_tasks, cp, late, taken, ids, exit, fin, status>>
    BY <1>8 DEF ReadClose
  <2>. QED
    BY <2>1, <2>2
<1>. QED
  BY <1>1, <1>2, <1>3, <1>4, <1>5, <1>6, <1>7, <1>8 DEF Frame, ReadLoop

LEMMA TypedPump == ASSUME TypeOK, NEW s \in Outputs, Pump(s) PROVE TypeOK'
<1> USE SessionConstantsOK DEF TypeOK, process, client, reader, completion, wire
<1>1. CASE PumpRead(s)
  BY <1>1 DEF PumpRead
<1>2. CASE PumpWrite(s)
  BY <1>2 DEF PumpWrite
<1>3. CASE PumpEnds(s)
  BY <1>3 DEF PumpEnds
<1>4. CASE PumpAborts(s)
  BY <1>4 DEF PumpAborts
<1>. QED
  BY <1>1, <1>2, <1>3, <1>4 DEF Pump

LEMMA TypedRun == ASSUME TypeOK, RunExec PROVE TypeOK'
<1> USE SessionConstantsOK DEF TypeOK, process, client, reader, completion, wire, Goto
<1>1. CASE Open
  <2>1. req.offers \subseteq Outputs \cup {"stdin"}
    BY ZenonT(60) DEF RequestsOK, Sessions, Outputs
  <2>. QED
    BY <1>1, <2>1 DEF Open
<1>2. CASE OpenFails
  BY <1>2 DEF OpenFails
<1>3. CASE Arm
  BY <1>3 DEF Arm
<1>4. CASE Barrier
  BY <1>4 DEF Barrier
<1>5. CASE Gate
  BY <1>5 DEF Gate
<1>6. CASE Detach
  BY <1>6 DEF Detach
<1>7. CASE SelectDrain
  BY <1>7 DEF SelectDrain
<1>8. CASE SelectOther
  BY <1>8 DEF SelectOther
<1>9. CASE DrainEnds
  BY <1>9 DEF DrainEnds
<1>10. CASE Reap
  BY <1>10 DEF Reap
<1>11. CASE SendFin("stdout", "finOut", "finErr")
  BY <1>11, Streams DEF SendFin
<1>12. CASE SendFin("stderr", "finErr", "status")
  BY <1>12, Streams DEF SendFin
<1>13. CASE SendStatus
  BY <1>13 DEF SendStatus
<1>14. CASE Grace
  BY <1>14 DEF Grace
<1>. QED
  BY <1>1, <1>2, <1>3, <1>4, <1>5, <1>6, <1>7, <1>8, <1>9, <1>10, <1>11, <1>12, <1>13,
     <1>14 DEF RunExec

LEMMA TypedStep == ASSUME TypeOK, [Next]_vars PROVE TypeOK'
<1>1. CASE UNCHANGED vars
  BY <1>1 DEF TypeOK, vars, process, client, reader, completion, wire
<1>. QED
  BY <1>1, TypedEnvironment, TypedReader, TypedPump, TypedRun DEF Next

\* Every variable holds what run_exec can put there, for all requests and pipe sizes.
THEOREM SessionTyped == Spec => []TypeOK
BY TypedInit, TypedStep, PTL DEF Spec

-----------------------------------------------------------------------------
(* The exit code *)

ExitLaw ==
  /\ exec /\ cp \in {"finOut", "finErr", "status"} => proc # Unknown /\ exit = proc
  /\ StatusIsExit

LEMMA ExitStep == ASSUME TypeOK, ExitLaw, [Next]_vars PROVE ExitLaw'
<1> USE DEF ExitLaw, StatusIsExit, exec, attach, process, completion, wire
<1>1. ASSUME UNCHANGED <<req, cp, proc, exit, status>> PROVE ExitLaw'
  BY <1>1
<1>2. CASE Environment
  <2>1. ASSUME NEW code \in Codes, Exits(code) PROVE ExitLaw'
    BY <2>1, SessionConstantsOK DEF Exits
  <2>. QED
    BY <1>1, <1>2, <2>1
    DEF Environment, Writes, ClosesOutput, ReadsStdin, ClientCloses
<1>3. CASE Frame \/ ReadInput \/ ReadLoop
  BY <1>1, <1>3
  DEF Frame, ReadLoop, ReadSyn, ReadFin, ReadInput, Reply, Spawn, Register, WriteStdin,
      ReadClose
<1>4. CASE \E s \in Outputs : Pump(s)
  BY <1>1, <1>4 DEF Pump, PumpRead, PumpWrite, PumpEnds, PumpAborts
<1>5. CASE RunExec
  <2>1. CASE Open \/ OpenFails
    BY <2>1 DEF Open, OpenFails
  <2>2. CASE Arm \/ Barrier \/ Gate \/ Detach \/ SelectDrain \/ SelectOther \/ DrainEnds
    BY <2>2 DEF Arm, Barrier, Gate, Detach, SelectDrain, SelectOther, DrainEnds, Goto
  <2>3. CASE Reap
    BY <2>3 DEF Reap, Goto
  <2>4. CASE SendFin("stdout", "finOut", "finErr") \/ SendFin("stderr", "finErr", "status")
    BY <2>4 DEF SendFin
  <2>5. CASE SendStatus
    BY <2>5 DEF SendStatus
  <2>6. CASE Grace
    BY <2>6 DEF Grace
  <2>. QED
    BY <1>5, <2>1, <2>2, <2>3, <2>4, <2>5, <2>6 DEF RunExec
<1>6. CASE UNCHANGED vars
  BY <1>1, <1>6 DEF vars
<1>. QED
  BY <1>2, <1>3, <1>4, <1>5, <1>6 DEF Next

\* The Status of an exec carries the exit code of its process: the step that composes it
\* waits for the reaper, whichever arm of the select came first.
THEOREM ExitIsReal == Spec => []StatusIsExit
<1>1. Init => ExitLaw
  BY DEF Init, ExitLaw, StatusIsExit
<1>2. ExitLaw => StatusIsExit
  BY DEF ExitLaw
<1>. QED
  BY <1>1, <1>2, ExitStep, SessionTyped, PTL DEF Spec

-----------------------------------------------------------------------------
(* The Status after the output *)

Quiet == hearing /\ ~late /\ Conforming /\ (attach => ~detached)

Emptied(s) == s \in eof /\ unread[s] = 0 /\ pump[s] = "done"

Composing == cp \in {"reap", "finOut", "finErr", "status"} \/ status # Unknown

\* Pumps exist for streams that are open, one each.
PumpLaw ==
  /\ cp = "opening" => loop = "unborn" /\ files = {}
  /\ loop = "reply" => role \notin by_role
  /\ loop \in {"spawn", "register"} => role \in files \cap by_role
  /\ loop = "spawn" => pump[role] = "none"
  /\ \A s \in Outputs : pump[s] # "none" => s \in files \cap by_role
  /\ output_tasks \subseteq files \cap by_role

\* A pump ends with its output; the drain waits for all of them, and the completion goes on
\* only when they have ended.
OutputLaw ==
  /\ hearing /\ cp # "done" =>
       \A s \in Outputs : pump[s] = "done" => s \in eof /\ unread[s] = 0
  /\ cp \in {"select", "drain"} /\ Quiet => ExpectedPumps \subseteq taken
  /\ Composing /\ Quiet => \A s \in ExpectedPumps : Emptied(s)
  /\ status # Unknown => cp \in {"grace", "done"}

LEMMA PumpStep == ASSUME TypeOK, PumpLaw, [Next]_vars PROVE PumpLaw'
<1> USE DEF TypeOK, PumpLaw, process, client, reader, completion, wire
<1>1. ASSUME UNCHANGED <<files, by_role, loop, role, pump, output_tasks, cp>> PROVE PumpLaw'
  BY <1>1
<1>2. CASE Environment
  BY <1>1, <1>2
  DEF Environment, Exits, Writes, ClosesOutput, ReadsStdin, ClientCloses
<1>3. ASSUME NEW r \in Roles, ReadSyn(r) PROVE PumpLaw'
  BY <1>3 DEF ReadSyn
<1>4. ASSUME NEW r \in Roles, ReadFin(r) PROVE PumpLaw'
  BY <1>1, <1>4 DEF ReadFin
<1>5. CASE ReadInput
  BY <1>5 DEF ReadInput
<1>6. CASE Reply
  <2>1. CASE role \in Outputs \cap files
    BY <1>6, <2>1 DEF Reply
  <2>2. CASE role \notin Outputs \cap files
    BY <1>6, <2>2 DEF Reply
  <2>. QED
    BY <2>1, <2>2
<1>7. CASE Spawn
  BY <1>7 DEF Spawn
<1>8. CASE Register
  BY <1>8 DEF Register
<1>9. CASE WriteStdin
  BY <1>9 DEF WriteStdin
<1>10. CASE ReadClose
  BY <1>10 DEF ReadClose
<1>11. ASSUME NEW s \in Outputs, Pump(s) PROVE PumpLaw'
  <2>1. /\ UNCHANGED <<files, by_role, loop, role, output_tasks, cp>>
        /\ pump[s] \in {"idle", "holding"}
        /\ \E next \in {"idle", "holding", "done"} : pump' = [pump EXCEPT ![s] = next]
    BY <1>11 DEF Pump, PumpRead, PumpWrite, PumpEnds, PumpAborts, Live
  <2>. QED
    BY <2>1
<1>12. CASE RunExec
  <2>1. CASE Open \/ OpenFails
    BY <2>1 DEF Open, OpenFails
  <2>2. CASE Arm \/ Barrier \/ Gate \/ Detach \/ SelectDrain \/ SelectOther \/ DrainEnds
             \/ Reap
    BY <2>2 DEF Arm, Barrier, Gate, Detach, SelectDrain, SelectOther, DrainEnds, Reap, Goto
  <2>3. CASE SendFin("stdout", "finOut", "finErr") \/ SendFin("stderr", "finErr", "status")
    BY <2>3 DEF SendFin
  <2>4. CASE SendStatus \/ Grace
    BY <2>4 DEF SendStatus, Grace
  <2>. QED
    BY <1>12, <2>1, <2>2, <2>3, <2>4 DEF RunExec
<1>13. CASE UNCHANGED vars
  BY <1>1, <1>13 DEF vars
<1>. QED
  BY <1>2, <1>3, <1>4, <1>5, <1>6, <1>7, <1>8, <1>9, <1>10, <1>11, <1>12, <1>13
  DEF Next, Frame, ReadLoop

\* What no step takes back.
Grows ==
  /\ req' = req /\ by_role \subseteq by_role'
  /\ (hearing' => hearing) /\ (late => late') /\ (detached => detached')

LEMMA StepGrows == ASSUME [Next]_vars PROVE Grows
<1> USE DEF Grows
<1> USE DEF process, client, reader, completion, wire
<1>1. CASE Environment
  <2>1. ASSUME NEW code \in Codes, Exits(code) PROVE Grows
    BY <2>1 DEF Exits
  <2>2. ASSUME NEW s \in Outputs, Writes(s) \/ ClosesOutput(s) PROVE Grows
    BY <2>2 DEF Writes, ClosesOutput
  <2>3. CASE ReadsStdin
    BY <2>3 DEF ReadsStdin
  <2>4. CASE ClientCloses
    BY <2>4 DEF ClientCloses
  <2>. QED
    BY <1>1, <2>1, <2>2, <2>3, <2>4 DEF Environment
<1>2. CASE Frame \/ ReadInput \/ ReadLoop
  <2>1. ASSUME NEW r \in Roles, ReadSyn(r) PROVE Grows
    BY <2>1 DEF ReadSyn
  <2>2. CASE ReadInput \/ WriteStdin
    BY <2>2 DEF ReadInput, WriteStdin
  <2>3. CASE Reply
    BY <2>3 DEF Reply
  <2>4. CASE Spawn \/ Register
    BY <2>4 DEF Spawn, Register
  <2>5. ASSUME NEW r \in Roles, ReadFin(r) PROVE Grows
    <3>1. detached => detached'
      BY <2>5, Zenon DEF ReadFin, Signal
    <3>2. UNCHANGED <<req, by_role, client, late>>
      BY <2>5 DEF ReadFin
    <3>. QED
      BY <3>1, <3>2
  <2>6. CASE ReadClose
    <3>1. detached => detached'
      BY <2>6, Zenon DEF ReadClose, Signal
    <3>2. UNCHANGED <<req, by_role, client, late>>
      BY <2>6 DEF ReadClose
    <3>. QED
      BY <3>1, <3>2
  <2>. QED
    BY <1>2, <2>1, <2>2, <2>3, <2>4, <2>5, <2>6 DEF Frame, ReadLoop
<1>3. CASE \E s \in Outputs : Pump(s)
  BY <1>3 DEF Pump, PumpRead, PumpWrite, PumpEnds, PumpAborts
<1>4. CASE RunExec
  <2>1. CASE Open \/ OpenFails \/ Grace
    BY <2>1 DEF Open, OpenFails, Grace
  <2>2. CASE Barrier
    BY <2>2 DEF Barrier, Goto
  <2>3. CASE Gate
    BY <2>3 DEF Gate, Goto
  <2>4. CASE Arm \/ Detach \/ SelectDrain \/ SelectOther \/ DrainEnds \/ Reap
    BY <2>4 DEF Arm, Detach, SelectDrain, SelectOther, DrainEnds, Reap, Goto
  <2>5. CASE SendFin("stdout", "finOut", "finErr") \/ SendFin("stderr", "finErr", "status")
             \/ SendStatus
    BY <2>5 DEF SendFin, SendStatus
  <2>. QED
    BY <1>4, <2>1, <2>2, <2>3, <2>4, <2>5 DEF RunExec
<1>5. CASE UNCHANGED vars
  BY <1>5 DEF vars
<1>. QED
  BY <1>1, <1>2, <1>3, <1>4, <1>5 DEF Next

\* A session that is no longer quiet never is again.
LEMMA QuietFalls == ASSUME [Next]_vars, Quiet' PROVE Quiet
<1>1. Grows
  BY StepGrows
<1>2. ExpectedRoles' = ExpectedRoles /\ attach' = attach
  BY <1>1 DEF Grows, ExpectedRoles, attach
<1>. QED
  BY <1>1, <1>2 DEF Grows, Quiet, Conforming

LEMMA FinitePair == IsFiniteSet(Outputs)
<1>1. IsFiniteSet({"stdout"})
  BY FS_Singleton
<1>2. Outputs = {"stdout"} \cup {"stderr"}
  BY DEF Outputs
<1>. QED
  BY <1>1, <1>2, FS_AddElement

LEMMA OutputStep ==
  ASSUME TypeOK, TypeOK', PumpLaw, OutputLaw, [Next]_vars PROVE OutputLaw'
<1> USE DEF OutputLaw, Composing, process, client, reader, completion, wire
<1>0. (Quiet' => Quiet) /\ req' = req
  BY QuietFalls, StepGrows DEF Grows
<1>1. ASSUME cp' = cp, status' = status, taken' = taken, files' = files, hearing' => hearing,
             \A s \in Outputs : pump'[s] = "done" <=> pump[s] = "done",
             \A s \in Outputs : pump[s] = "done" =>
               (s \in eof => s \in eof') /\ (unread[s] = 0 => unread'[s] = 0)
      PROVE  OutputLaw'
  <2>1. ExpectedPumps' = ExpectedPumps /\ ExpectedPumps \subseteq Outputs
    BY <1>0, <1>1 DEF ExpectedPumps, ExpectedRoles
  <2>2. \A s \in Outputs : Emptied(s) => Emptied(s)'
    BY <1>1 DEF Emptied
  <2>. QED
    BY <1>0, <1>1, <2>1, <2>2

<1>2. CASE Environment
  <2>1. ASSUME NEW code \in Codes, Exits(code) PROVE OutputLaw'
    BY <1>1, <2>1 DEF Exits
  <2>2. ASSUME NEW s \in Outputs, Writes(s) PROVE OutputLaw'
    <3>1. unread \in [Outputs -> Nat] /\ s \notin eof
      BY <2>2, SessionConstantsOK DEF Writes, TypeOK
    <3>2. hearing /\ cp # "done" => pump[s] # "done"
      BY <3>1
    <3>3. ASSUME NEW x \in Outputs, Emptied(x) PROVE Emptied(x)'
      BY <2>2, <3>1, <3>3 DEF Writes, Emptied
    <3>4. ExpectedPumps' = ExpectedPumps /\ ExpectedPumps \subseteq Outputs
      BY <1>0, <2>2 DEF Writes, ExpectedPumps, ExpectedRoles
    <3>5. \A x \in Outputs : x # s => unread'[x] = unread[x]
      BY <2>2, <3>1 DEF Writes
    <3>. QED
      BY <1>0, <2>2, <3>2, <3>3, <3>4, <3>5 DEF Writes
  <2>3. ASSUME NEW s \in Outputs, ClosesOutput(s) PROVE OutputLaw'
    BY <1>1, <2>3 DEF ClosesOutput
  <2>4. CASE ReadsStdin
    BY <1>1, <2>4 DEF ReadsStdin
  <2>5. CASE ClientCloses
    BY <1>1, <2>5 DEF ClientCloses
  <2>. QED
    BY <1>2, <2>1, <2>2, <2>3, <2>4, <2>5 DEF Environment
<1>3. CASE Frame \/ ReadInput \/ ReadLoop
  <2>1. ASSUME NEW r \in Roles, ReadSyn(r) \/ ReadFin(r) PROVE OutputLaw'
    BY <1>1, <2>1 DEF ReadSyn, ReadFin
  <2>2. CASE ReadInput \/ WriteStdin \/ ReadClose
    BY <1>1, <2>2 DEF ReadInput, WriteStdin, ReadClose
  <2>3. CASE Reply \/ Register
    BY <1>1, <2>3 DEF Reply, Register
  <2>4. CASE Spawn
    BY <1>1, <2>4 DEF Spawn, PumpLaw, TypeOK
  <2>. QED
    BY <1>3, <2>1, <2>2, <2>3, <2>4 DEF Frame, ReadLoop
<1>4. ASSUME NEW s \in Outputs, Pump(s) PROVE OutputLaw'
  <2>0. pump \in [Outputs -> {"none", "idle", "holding", "done"}] /\ unread \in [Outputs -> Nat]
    BY SessionConstantsOK DEF TypeOK
  <2>1. CASE PumpRead(s)
    BY <1>1, <2>0, <2>1 DEF PumpRead
  <2>2. CASE PumpWrite(s) /\ pump' = [pump EXCEPT ![s] = "idle"]
    BY <1>1, <2>0, <2>2 DEF PumpWrite
  <2>3. CASE PumpWrite(s) /\ ~hearing
    <3>1. ~hearing' /\ ~Quiet' /\ UNCHANGED <<cp, status>>
      BY <2>3 DEF PumpWrite, Quiet
    <3>. QED
      BY <3>1
  <2>4. CASE PumpEnds(s)
    <3>1. ExpectedPumps' = ExpectedPumps /\ ExpectedPumps \subseteq Outputs
      BY <1>0, <2>4 DEF PumpEnds, ExpectedPumps, ExpectedRoles
    <3>2. \A x \in Outputs : Emptied(x) => Emptied(x)'
      BY <2>0, <2>4 DEF PumpEnds, Emptied
    <3>3. \A x \in Outputs : pump'[x] = "done" => pump[x] = "done" \/ x = s
      BY <2>0, <2>4 DEF PumpEnds
    <3>. QED
      BY <1>0, <2>4, <3>1, <3>2, <3>3 DEF PumpEnds
  <2>5. CASE PumpAborts(s)
    <3>1. ExpectedPumps' = ExpectedPumps /\ ExpectedPumps \subseteq Outputs
      BY <1>0, <2>5 DEF PumpAborts, ExpectedPumps, ExpectedRoles
    <3>2. \A x \in Outputs : Emptied(x) => Emptied(x)'
      BY <2>0, <2>5 DEF PumpAborts, Emptied, Live
    <3>. QED
      BY <1>0, <2>5, <3>1, <3>2 DEF PumpAborts
  <2>. QED
    BY <1>4, <2>1, <2>2, <2>3, <2>4, <2>5 DEF Pump, PumpWrite
<1>5. CASE RunExec
  <2>1. CASE Open \/ OpenFails
    BY <2>1 DEF Open, OpenFails
  <2>2. CASE Arm \/ Barrier
    BY <2>2 DEF Arm, Barrier, Goto
  <2>3. CASE Gate
    <3>1. ~late' => Cardinality(output_tasks) >= Cardinality(ExpectedPumps)
      <4>1. output_tasks \subseteq Outputs /\ IsFiniteSet(Outputs)
        BY FinitePair DEF TypeOK
      <4>2. Cardinality(output_tasks) \in Nat /\ Cardinality(ExpectedPumps) \in Nat
        BY <4>1, FS_Subset, FS_CardinalityType DEF ExpectedPumps
      <4>3. ~late' => ~(Cardinality(output_tasks) < Cardinality(ExpectedPumps))
        BY <2>3, Zenon DEF Gate
      <4>. QED
        BY <4>2, <4>3
    <3>2. Quiet' => output_tasks \subseteq ExpectedPumps
      BY <1>0 DEF Quiet, Conforming, PumpLaw, ExpectedPumps, TypeOK
    <3>3. Quiet' => output_tasks = ExpectedPumps
      <4>1. IsFiniteSet(ExpectedPumps)
        BY FinitePair, FS_Subset DEF ExpectedPumps
      <4>. QED
        BY <3>1, <3>2, <4>1, FS_Subset, FS_CardinalityType DEF Quiet
    <3>4. ExpectedPumps' = ExpectedPumps
      BY <1>0, <2>3 DEF Gate, Goto, ExpectedPumps, ExpectedRoles
    <3>. QED
      BY <2>3, <3>3, <3>4 DEF Gate, Goto
  <2>4. CASE Detach
    <3>1. ~Quiet'
      BY <1>0, <2>4 DEF Detach, Goto, Quiet, attach
    <3>. QED
      BY <2>4, <3>1 DEF Detach, Goto
  <2>5. CASE SelectDrain \/ DrainEnds
    <3>1. ExpectedPumps' = ExpectedPumps /\ ExpectedPumps \subseteq Outputs
      BY <1>0, <2>5 DEF SelectDrain, DrainEnds, Goto, ExpectedPumps, ExpectedRoles
    <3>2. Quiet' => \A x \in ExpectedPumps : Emptied(x)
      BY <1>0, <2>5, <3>1 DEF SelectDrain, DrainEnds, Drained, Emptied, Quiet
    <3>3. \A x \in Outputs : Emptied(x)' = Emptied(x)
      BY <2>5 DEF SelectDrain, DrainEnds, Goto, Emptied
    <3>. QED
      BY <2>5, <3>1, <3>2, <3>3 DEF SelectDrain, DrainEnds, Goto
  <2>6. CASE SelectOther
    BY <1>0, <2>6 DEF SelectOther, Goto, ExpectedPumps, ExpectedRoles
  <2>7. CASE Reap \/ SendFin("stdout", "finOut", "finErr")
             \/ SendFin("stderr", "finErr", "status") \/ SendStatus \/ Grace
    <3>1. UNCHANGED <<files, unread, eof, pump, taken, hearing>> /\ (Composing' => Composing)
      BY <2>7 DEF Reap, Goto, SendFin, SendStatus, Grace
    <3>2. ExpectedPumps' = ExpectedPumps /\ \A x \in ExpectedPumps : Emptied(x)' = Emptied(x)
      BY <1>0, <3>1 DEF ExpectedPumps, ExpectedRoles, Emptied
    <3>. QED
      BY <1>0, <2>7, <3>1, <3>2 DEF Reap, Goto, SendFin, SendStatus, Grace
  <2>. QED
    BY <1>5, <2>1, <2>2, <2>3, <2>4, <2>5, <2>6, <2>7 DEF RunExec
<1>6. CASE UNCHANGED vars
  BY <1>1, <1>6 DEF vars
<1>. QED
  BY <1>2, <1>3, <1>4, <1>5, <1>6 DEF Next

\* No byte is cut off, for every request, order of opening and size of pipe: the Status of a
\* session that no timer hurried and no detach ended follows the last of its output.
THEOREM StatusComesLast == Spec => []StatusAfterOutput
<1>1. Init => PumpLaw /\ OutputLaw
  <2>1. ASSUME Init PROVE PumpLaw
    BY <2>1 DEF Init, PumpLaw
  <2>2. ASSUME Init PROVE OutputLaw
    BY <2>2 DEF Init, OutputLaw, Composing
  <2>. QED
    BY <2>1, <2>2
<1>2. OutputLaw => StatusAfterOutput
  BY DEF OutputLaw, Composing, StatusAfterOutput, Quiet, Emptied, Live
<1>. QED
  BY <1>1, <1>2, PumpStep, OutputStep, SessionTyped, PTL DEF Spec

=============================================================================

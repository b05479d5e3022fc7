----------------------------- MODULE PartsProofs -----------------------------
(***************************************************************************)
(* Theorems about the parts that serve one request or connection, for      *)
(* pipes and sockets of every size and however much is written: exec_sync, *)
(* a websocket session, port forwarding over SPDY.  Each has an invariant  *)
(* of its own, which its own steps keep and those of the others leave.     *)
(* Then the dates of the log, on every day, and what the gRPC handlers     *)
(* tell their clients.                                                     *)
(***************************************************************************)
EXTENDS CriParts, SequenceTheorems, TLAPS

-----------------------------------------------------------------------------
(* exec_sync.  What the call has read and what is in the pipe is what the  *)
(* command wrote; the call reaps the command before it answers, and looks  *)
(* at the answer no more.                                                  *)

Counted ==
  /\ wrote \in Nat /\ buffer \in Nat /\ output \in Nat
  /\ output + buffer = wrote

Reaps ==
  /\ server \in {"drain", "done"} => child = "reaped"
  /\ server \in {"poll", "collect"} => child # "reaped"
  /\ server # "done" => result = Es!Pending

ExecSyncInv == Counted /\ Reaps /\ helper \in Es!Helpers /\ Es!ResultIsWhole

\* The call begins with nothing written, nothing read and no answer.
LEMMA ExecSyncStarts ==
  ASSUME Es!Init
  PROVE  ExecSyncInv
  BY DEF Es!Init, ExecSyncInv, Counted, Reaps, Es!Helpers, Es!Pending, Es!ResultIsWhole

\* Bytes move from the command into the pipe and from the pipe into the output.
LEMMA BytesAreCounted ==
  ASSUME ExecSyncInv, Es!Next
  PROVE  Counted'
<1> USE DEF Es!request, Es!world
<1>0. Counted
  BY DEF ExecSyncInv
<1>1. CASE Es!Write
  BY <1>0, <1>1 DEF Counted, Es!Write
<1>2. CASE Es!Read
  BY <1>0, <1>2 DEF Counted, Es!Read
<1>3. CASE UNCHANGED <<wrote, buffer, output>>
  BY <1>0, <1>3 DEF Counted
<1>4. QED
  BY <1>1, <1>2, <1>3
     DEF Es!Next, Es!Fork, Es!HelperEnds, Es!Expire, Es!ServerStep, Es!PollExit, Es!PollExpired,
         Es!Kill, Es!Drained, Es!Collected, Es!Finish

\* Every step of the command, its helper, the clock and the call keeps the invariant.
LEMMA ExecSyncSteps ==
  ASSUME ExecSyncInv, Es!Next
  PROVE  ExecSyncInv'
<1> USE DEF Es!request, Es!world
<1>0. Reaps /\ helper \in Es!Helpers /\ Es!ResultIsWhole /\ Counted
  BY DEF ExecSyncInv
<1>a. Counted'
  BY BytesAreCounted
<1>b. Es!NoHelper \in Es!Helpers /\ Es!NoHelper.alive = FALSE /\ Es!Pending.kind = "pending"
  BY DEF Es!Helpers, Es!NoHelper, Es!Pending
<1>1. CASE Es!Write
  BY <1>0, <1>1, <1>a, <1>b DEF Es!Write, ExecSyncInv, Reaps, Es!ResultIsWhole
<1>2. CASE Es!Fork
  BY <1>0, <1>2, <1>a, <1>b DEF Es!Fork, ExecSyncInv, Reaps, Es!ResultIsWhole
<1>3. CASE Es!HelperEnds
  BY <1>0, <1>3, <1>a, <1>b DEF Es!HelperEnds, ExecSyncInv, Reaps, Es!ResultIsWhole
<1>4. CASE Es!Expire
  BY <1>0, <1>4, <1>a DEF Es!Expire, ExecSyncInv, Reaps, Es!ResultIsWhole, Es!ExitCode
<1>5. ASSUME NEW st \in Statuses, Es!Finish(st) PROVE ExecSyncInv'
  BY <1>0, <1>5, <1>a, <1>b DEF Es!Finish, ExecSyncInv, Reaps, Es!ResultIsWhole
<1>6. CASE Es!Read
  BY <1>0, <1>6, <1>a, <1>b DEF Es!Read, ExecSyncInv, Reaps, Es!ResultIsWhole
<1>7. CASE Es!PollExit
  BY <1>0, <1>7, <1>a, <1>b DEF Es!PollExit, ExecSyncInv, Reaps, Es!ResultIsWhole
<1>8. CASE Es!PollExpired
  BY <1>0, <1>8, <1>a, <1>b DEF Es!PollExpired, ExecSyncInv, Reaps, Es!ResultIsWhole
<1>9. CASE Es!Kill
  <2>1. /\ child' = "reaped" /\ server' = "done" /\ result' = [kind |-> "timeout"]
        /\ helper' = IF helper.grouped THEN Es!NoHelper ELSE helper
    BY <1>9 DEF Es!Kill
  <2>2. helper' \in Es!Helpers /\ ~(helper'.alive /\ helper'.grouped)
    BY <1>0, <1>b, <2>1
  <2>3. QED
    BY <1>a, <2>1, <2>2 DEF ExecSyncInv, Reaps, Es!ResultIsWhole
<1>10. CASE Es!Drained \/ Es!Collected
  <2>1. /\ server' = "done" /\ child' = "reaped" /\ buffer = 0
        /\ result' = [kind |-> "ok", code |-> Es!ExitCode(status), bytes |-> output]
        /\ UNCHANGED <<status, wrote, output, helper>>
    BY <1>0, <1>10 DEF Es!Drained, Es!Collected, Es!Eof, Reaps
  <2>2. output = wrote
    BY <1>0, <2>1 DEF Counted
  <2>3. QED
    BY <1>0, <1>a, <2>1, <2>2 DEF ExecSyncInv, Reaps, Es!ResultIsWhole, Es!ExitCode
<1>11. QED
  BY <1>1, <1>2, <1>3, <1>4, <1>5, <1>6, <1>7, <1>8, <1>9, <1>10 DEF Es!Next, Es!ServerStep

\* exec_sync's invariant, in every behavior of the parts.
LEMMA ExecSyncHolds == FairSpec => []ExecSyncInv
<1>1. Init => ExecSyncInv
  BY ExecSyncStarts DEF Init
<1>2. ExecSyncInv /\ UNCHANGED es => ExecSyncInv'
  BY DEF es, ExecSyncInv, Counted, Reaps, Es!ResultIsWhole, Es!ExitCode
<1>3. ExecSyncInv /\ [Next]_vars => ExecSyncInv'
  BY <1>2, ExecSyncSteps
     DEF vars, Next, ExecSyncStep, WsStep, WsPortsStep, SpdyPortsStep, CodecStep, VectorsStep,
         ImagesStep, ShellStep
<1>4. QED
  BY <1>1, <1>3, PTL DEF FairSpec

\* However much the command writes, through a pipe of any size, and whatever its helper does:
\* an Ok of exec_sync carries all of the output and the command's own exit; after a timeout the
\* command is reaped and nobody of its group is alive.
THEOREM ExecSyncIsWhole == FairSpec => []ResultIsWhole
<1>1. ExecSyncInv => ResultIsWhole
  BY DEF ExecSyncInv, ResultIsWhole
<1>2. QED
  BY <1>1, ExecSyncHolds, PTL

-----------------------------------------------------------------------------
(* A websocket session.  An output the loop is done with has nothing in    *)
(* its pipe and nobody left to write to it; the loop ends once, for one    *)
(* reason, and the status is its last word.                                *)

WsTyped ==
  /\ ws_session \in WsSessions /\ ws_open \subseteq ws_session.outputs
  /\ ws_made \in [Ws!Outputs -> Nat] /\ ws_sent \in [Ws!Outputs -> Nat]

\* Before the session is open there is no process and no output.
Opening ==
  /\ ws_loop = "opening" => ws_open = {} /\ ws_writers = {} /\ ws_proc.is = "none"
  /\ ws_loop \in {"select", "input", "wait"} => ws_proc.is # "none"

\* An output that has ended is empty for good.
EndedOutputs ==
  ws_proc.is # "none" =>
    \A o \in ws_session.outputs \ ws_open : ws_sent[o] = ws_made[o] /\ o \notin ws_writers

\* While the loop runs it has no reason to be over, and the status comes after it.
Reasons ==
  /\ ws_loop \in {"opening", "select", "input"} => ws_why = "none"
  /\ ws_why = "output" => ws_open = {}
  /\ ws_said.is = "status" => ws_loop = "done" /\ ws_proc.is # "none"

\* What the record holds is the exit, that there was none to be had, or a guess.
Record ==
  \A c \in ws_recorded :
    /\ ws_session.waiter = "record"
    /\ c \in Ws!Guesses \/ c = Ws!Failed \/ (Ws!Exited /\ c = ws_proc.code)

\* The codes that StatusIsLast allows.
Allowed(c) ==
  \/ Ws!Exited /\ c = ws_proc.code
  \/ ws_session.waiter # "none" /\ c = Ws!Failed
  \/ ws_session.waiter = "none" /\ c = 0
  \/ ws_session.waiter = "record" /\ ws_gone /\ c = 0
  \/ ws_session.waiter = "record" /\ c \in Ws!Guesses \cap ws_recorded

\* The status is of one of them.
Said == ws_said.is = "status" => \E c : Allowed(c) /\ ws_said = Ws!StatusOf(c)

WsInv == WsTyped /\ Opening /\ EndedOutputs /\ Reasons /\ Record /\ Said

\* The outputs of a session are outputs.
LEMMA WsOutputs ==
  ASSUME WsTyped
  PROVE  ws_session.outputs \subseteq Ws!Outputs
  BY PartsConstantsOK DEF WsTyped, Ws!WsConstants

\* A session begins unopened.
LEMMA WsStarts ==
  ASSUME Ws!Init
  PROVE  WsInv
<1>1. WsTyped
  BY DEF Ws!Init, WsTyped, Ws!Outputs
<1>2. ws_said.is = "none" /\ ws_recorded = {}
  BY DEF Ws!Init
<1>3. QED
  BY <1>1, <1>2 DEF Ws!Init, WsInv, Opening, EndedOutputs, Reasons, Record, Said

\* Process, record and client do not touch what the loop keeps.
LEMMA WsEnvironment ==
  ASSUME WsInv, Ws!Environment
  PROVE  WsTyped' /\ Opening' /\ EndedOutputs' /\ Reasons'
<1> USE DEF Ws!loop, Ws!peer, Ws!proc, Ws!record
<1>0. WsTyped /\ Opening /\ EndedOutputs /\ Reasons
  BY DEF WsInv
<1>1. UNCHANGED <<ws_session, ws_loop, ws_why, ws_open, ws_sent, ws_said>>
  BY DEF Ws!Environment, Ws!Produce, Ws!CloseOutput, Ws!Exit, Ws!ClientSend, Ws!ReadInput,
         Ws!CloseInput, Ws!RecordExit, Ws!RecordGuess, Ws!RecordGone, Ws!ClientStalls,
         Ws!ClientLeaves
<1>2. ws_writers' \subseteq ws_writers
  BY DEF Ws!Environment, Ws!Produce, Ws!CloseOutput, Ws!Exit, Ws!ClientSend, Ws!ReadInput,
         Ws!CloseInput, Ws!RecordExit, Ws!RecordGuess, Ws!RecordGone, Ws!ClientStalls,
         Ws!ClientLeaves
<1>3. \/ UNCHANGED ws_proc
      \/ ws_proc.is = "running" /\ \E c \in WsCodes : ws_proc' = [is |-> "exited", code |-> c]
  BY DEF Ws!Environment, Ws!Produce, Ws!CloseOutput, Ws!Exit, Ws!ClientSend, Ws!ReadInput,
         Ws!CloseInput, Ws!RecordExit, Ws!RecordGuess, Ws!RecordGone, Ws!ClientStalls,
         Ws!ClientLeaves
<1>4. /\ ws_made' \in [Ws!Outputs -> Nat]
      /\ \A o \in Ws!Outputs \ ws_writers : ws_made'[o] = ws_made[o]
  <2>1. CASE UNCHANGED ws_made
    BY <1>0, <2>1 DEF WsTyped
  <2>2. ASSUME NEW o \in Ws!Outputs, Ws!Produce(o)
        PROVE  /\ ws_made' \in [Ws!Outputs -> Nat]
               /\ \A q \in Ws!Outputs \ ws_writers : ws_made'[q] = ws_made[q]
    BY <1>0, <2>2 DEF WsTyped, Ws!Produce
  <2>3. QED
    BY <2>1, <2>2
       DEF Ws!Environment, Ws!CloseOutput, Ws!Exit, Ws!ClientSend, Ws!ReadInput, Ws!CloseInput,
           Ws!RecordExit, Ws!RecordGuess, Ws!RecordGone, Ws!ClientStalls, Ws!ClientLeaves
<1>5. WsTyped' /\ Opening'
  BY <1>0, <1>1, <1>2, <1>3, <1>4 DEF WsTyped, Opening
<1>6. EndedOutputs'
  <2>1. ws_proc'.is # "none" => ws_proc.is # "none"
    BY <1>3
  <2>2. QED
    BY <1>0, <1>1, <1>2, <1>4, <2>1, WsOutputs DEF EndedOutputs
<1>7. Reasons'
  BY <1>0, <1>1, <1>3 DEF Reasons
<1>8. QED
  BY <1>5, <1>6, <1>7

\* What the record says it keeps saying, and it says nothing of a process but its exit.
LEMMA RecordStays ==
  ASSUME WsInv, Ws!Environment
  PROVE  /\ UNCHANGED ws_session /\ Record' /\ (ws_gone => ws_gone')
         /\ ws_recorded \subseteq ws_recorded' /\ (Ws!Exited => UNCHANGED ws_proc)
<1> USE DEF Ws!loop, Ws!peer, Ws!proc, Ws!record
<1>0. Record
  BY DEF WsInv
<1>1. CASE Ws!RecordExit
  <2>1. PICK c \in {ws_proc.code, Ws!Failed} : ws_recorded' = {c}
    BY <1>1 DEF Ws!RecordExit
  <2>2. /\ Ws!Exited /\ ws_session.waiter = "record" /\ ws_recorded = {}
        /\ UNCHANGED <<ws_session, ws_proc, ws_gone>>
    BY <1>1 DEF Ws!RecordExit
  <2>3. QED
    BY <2>1, <2>2 DEF Record, Ws!Exited
<1>2. ASSUME NEW g \in Ws!Guesses, Ws!RecordGuess(g)
      PROVE  /\ UNCHANGED <<ws_session, ws_proc, ws_gone>> /\ Record'
             /\ ws_recorded \subseteq ws_recorded'
  BY <1>2 DEF Ws!RecordGuess, Record
<1>3. CASE Ws!RecordGone
  BY <1>0, <1>3 DEF Ws!RecordGone, Record, Ws!Exited
<1>4. ASSUME NEW c \in WsCodes, Ws!Exit(c)
      PROVE  UNCHANGED <<ws_session, ws_gone, ws_recorded>> /\ ~Ws!Exited /\ Record'
  <2>1. ws_proc.is = "running" /\ UNCHANGED <<ws_session, ws_gone, ws_recorded>>
    BY <1>4 DEF Ws!Exit
  <2>2. QED
    BY <1>0, <2>1 DEF Record, Ws!Exited
<1>5. CASE UNCHANGED <<ws_session, ws_proc, ws_gone, ws_recorded>>
  BY <1>0, <1>5 DEF Record, Ws!Exited
<1>6. QED
  BY <1>1, <1>2, <1>3, <1>4, <1>5
     DEF Ws!Environment, Ws!Produce, Ws!CloseOutput, Ws!ClientSend, Ws!ReadInput, Ws!CloseInput,
         Ws!ClientStalls, Ws!ClientLeaves

\* A status that was allowed stays so.
LEMMA SaidStays ==
  ASSUME WsInv, UNCHANGED <<ws_session, ws_said>>, ws_gone => ws_gone',
         ws_recorded \subseteq ws_recorded', Ws!Exited => UNCHANGED ws_proc
  PROVE  Said'
<1>1. ASSUME NEW c, Allowed(c) PROVE Allowed(c)'
  BY <1>1 DEF Allowed, Ws!Exited
<1>2. QED
  BY <1>1 DEF WsInv, Said, Ws!StatusOf

\* The loop opens the session, moves one byte or frame, ends an output, or comes to its end.
LEMMA WsLoop ==
  ASSUME WsInv, Ws!LoopStep \/ Ws!WaiterFails
  PROVE  WsTyped' /\ Opening' /\ EndedOutputs' /\ Reasons'
<1> USE DEF Ws!peer, Ws!proc
<1>0. WsTyped /\ Opening /\ EndedOutputs /\ Reasons
  BY DEF WsInv
<1>1. CASE Ws!Open
  <2>1. /\ ws_loop = "opening" /\ ws_loop' = "select" /\ ws_open' = ws_session.outputs
        /\ ws_proc'.is = "running" /\ UNCHANGED <<ws_session, ws_why, ws_made, ws_sent, ws_said>>
    BY <1>1 DEF Ws!Open
  <2>2. QED
    BY <1>0, <2>1 DEF WsTyped, Opening, EndedOutputs, Reasons
<1>2. CASE Ws!OpenFails
  <2>1. /\ ws_loop = "opening" /\ ws_loop' = "done" /\ ws_said'.is = "error"
        /\ UNCHANGED <<ws_session, ws_why, ws_open, ws_made, ws_sent, ws_proc, ws_writers>>
    BY <1>2 DEF Ws!OpenFails
  <2>2. QED
    BY <1>0, <2>1 DEF WsTyped, Opening, EndedOutputs, Reasons
<1>3. ASSUME NEW o \in Ws!Outputs, Ws!SendOutput(o) PROVE WsTyped' /\ Opening' /\ EndedOutputs' /\ Reasons'
  <2>1. /\ o \in ws_open /\ ws_sent' = [ws_sent EXCEPT ![o] = @ + 1]
        /\ UNCHANGED <<ws_session, ws_loop, ws_why, ws_open, ws_made, ws_said, ws_proc, ws_writers>>
    BY <1>3 DEF Ws!SendOutput
  <2>2. ws_sent' \in [Ws!Outputs -> Nat] /\ \A q \in Ws!Outputs \ {o} : ws_sent'[q] = ws_sent[q]
    BY <1>0, <2>1 DEF WsTyped
  <2>3. WsTyped' /\ Opening' /\ Reasons'
    BY <1>0, <2>1, <2>2 DEF WsTyped, Opening, Reasons
  <2>4. EndedOutputs'
    BY <1>0, <2>1, <2>2, WsOutputs DEF EndedOutputs
  <2>5. QED
    BY <2>3, <2>4
<1>4. ASSUME NEW o \in Ws!Outputs, Ws!OutputEnds(o) PROVE WsTyped' /\ Opening' /\ EndedOutputs' /\ Reasons'
  <2>1. /\ ws_loop = "select" /\ ws_made[o] - ws_sent[o] = 0 /\ o \notin ws_writers
        /\ ws_open' = ws_open \ {o}
        /\ UNCHANGED <<ws_session, ws_made, ws_sent, ws_said, ws_proc, ws_writers>>
    BY <1>4 DEF Ws!OutputEnds, Ws!Buffered
  <2>2. \/ ws_open' = {} /\ ws_loop' = "wait" /\ ws_why' = "output"
        \/ UNCHANGED <<ws_loop, ws_why>>
    BY <1>4 DEF Ws!OutputEnds, Ws!Ends
  <2>3. ws_sent[o] = ws_made[o]
    BY <1>0, <2>1 DEF WsTyped
  <2>4. WsTyped' /\ Opening' /\ Reasons'
    BY <1>0, <2>1, <2>2 DEF WsTyped, Opening, Reasons
  <2>5. EndedOutputs'
    BY <1>0, <2>1, <2>3 DEF EndedOutputs
  <2>6. QED
    BY <2>4, <2>5
<1>5. CASE Ws!Receive \/ Ws!ReceiveEnd \/ Ws!WriteInput \/ Ws!WriteInputFails
  <2>1. /\ ws_loop \in {"select", "input"}
        /\ UNCHANGED <<ws_session, ws_open, ws_made, ws_sent, ws_said, ws_proc, ws_writers>>
    BY <1>5 DEF Ws!Receive, Ws!ReceiveEnd, Ws!WriteInput, Ws!WriteInputFails
  <2>2. \/ ws_loop' \in {"select", "input"} /\ ws_why' = ws_why
        \/ ws_loop' = "wait" /\ ws_why' \in {"client", "stdin"}
    BY <1>5 DEF Ws!Receive, Ws!ReceiveEnd, Ws!WriteInput, Ws!WriteInputFails, Ws!Ends
  <2>3. QED
    BY <1>0, <2>1, <2>2 DEF WsTyped, Opening, EndedOutputs, Reasons
<1>6. ASSUME NEW c, Ws!Says(c) PROVE WsTyped' /\ Opening' /\ EndedOutputs' /\ Reasons'
  <2>1. /\ ws_loop = "wait" /\ ws_loop' = "done"
        /\ UNCHANGED <<ws_session, ws_why, ws_open, ws_made, ws_sent, ws_proc, ws_writers>>
    BY <1>6 DEF Ws!Says
  <2>2. QED
    BY <1>0, <2>1 DEF WsTyped, Opening, EndedOutputs, Reasons
<1>7. QED
  BY <1>1, <1>2, <1>3, <1>4, <1>5, <1>6 DEF Ws!LoopStep, Ws!Finish, Ws!WaiterFails

\* The waiter answers with an allowed code, and nothing else of the loop says one.
LEMMA WaiterAnswers ==
  ASSUME WsInv, Ws!LoopStep \/ Ws!WaiterFails
  PROVE  Record' /\ Said'
<1> USE DEF Ws!peer, Ws!proc, Ws!record
<1>0. Record /\ Said /\ Opening /\ WsTyped
  BY DEF WsInv
<1>1. CASE Ws!Open \/ Ws!OpenFails
  <2>1. ws_proc.is = "none" /\ UNCHANGED <<ws_session, ws_gone, ws_recorded>>
    BY <1>0, <1>1 DEF Ws!Open, Ws!OpenFails, Opening
  <2>2. UNCHANGED ws_said \/ ws_said'.is = "error"
    BY <1>1 DEF Ws!Open, Ws!OpenFails
  <2>3. Said'
    BY <2>1, <2>2, SaidStays DEF Said, Ws!Exited
  <2>4. QED
    BY <1>0, <2>1, <2>3 DEF Record, Ws!Exited
<1>2. ASSUME NEW c, Allowed(c), Ws!Says(c) PROVE Record' /\ Said'
  <2>1. /\ ws_said' = Ws!StatusOf(c)
        /\ UNCHANGED <<ws_session, ws_proc, ws_gone, ws_recorded>>
    BY <1>2 DEF Ws!Says
  <2>2. Allowed(c)'
    BY <1>2, <2>1 DEF Allowed, Ws!Exited
  <2>3. Ws!StatusOf(c)' = Ws!StatusOf(c)
    BY DEF Ws!StatusOf
  <2>4. Said'
    BY <2>1, <2>2, <2>3 DEF Said
  <2>5. QED
    BY <1>0, <2>1, <2>4 DEF Record, Ws!Exited
<1>3. ASSUME NEW c \in Ws!Answers PROVE Allowed(c)
  <2>1. ws_session.waiter \in {"child", "record", "none"}
    BY <1>0, PartsConstantsOK DEF WsTyped, Ws!WsConstants, Ws!Waiters
  <2>2. CASE ws_session.waiter = "child"
    BY <1>3, <2>2 DEF Ws!Answers, Allowed
  <2>3. CASE ws_session.waiter = "none"
    BY <1>3, <2>3 DEF Ws!Answers, Allowed
  <2>4. CASE ws_session.waiter = "record"
    BY <1>0, <1>3, <2>4 DEF Ws!Answers, Allowed, Record
  <2>5. QED
    BY <2>1, <2>2, <2>3, <2>4
<1>4. CASE Ws!WaiterFails
  <2>1. Allowed(Ws!Failed) /\ Ws!Says(Ws!Failed)
    BY <1>4 DEF Ws!WaiterFails, Allowed
  <2>2. QED
    BY <1>2, <2>1
<1>5. CASE Ws!Finish
  BY <1>2, <1>3, <1>5 DEF Ws!Finish
<1>6. CASE UNCHANGED <<ws_session, ws_said, ws_proc, ws_gone, ws_recorded>>
  BY <1>0, <1>6, SaidStays DEF Record, Ws!Exited
<1>7. QED
  BY <1>1, <1>4, <1>5, <1>6
     DEF Ws!LoopStep, Ws!Receive, Ws!ReceiveEnd, Ws!WriteInput, Ws!WriteInputFails,
         Ws!SendOutput, Ws!OutputEnds

\* Every step of a session keeps its invariant.
LEMMA WsSteps ==
  ASSUME WsInv, Ws!Next
  PROVE  WsInv'
<1>1. CASE Ws!LoopStep \/ Ws!WaiterFails
  BY <1>1, WsLoop, WaiterAnswers DEF WsInv
<1>2. CASE Ws!Environment
  <2>1. UNCHANGED ws_said
    BY <1>2 DEF Ws!Environment, Ws!Produce, Ws!CloseOutput, Ws!Exit, Ws!ClientSend,
         Ws!ReadInput, Ws!CloseInput, Ws!RecordExit, Ws!RecordGuess, Ws!RecordGone,
         Ws!ClientStalls, Ws!ClientLeaves, Ws!loop
  <2>2. Record' /\ Said'
    BY <1>2, <2>1, RecordStays, SaidStays
  <2>3. QED
    BY <1>2, <2>2, WsEnvironment DEF WsInv
<1>3. QED
  BY <1>1, <1>2 DEF Ws!Next

\* The session's invariant, in every behavior of the parts.
LEMMA WsHolds == FairSpec => []WsInv
<1>1. Init => WsInv
  BY WsStarts DEF Init
<1>2. WsInv /\ UNCHANGED ws => WsInv'
  BY DEF ws, WsInv, WsTyped, Opening, EndedOutputs, Reasons, Record, Said, Allowed, Ws!Exited,
         Ws!StatusOf
<1>3. WsInv /\ [Next]_vars => WsInv'
  BY <1>2, WsSteps
     DEF vars, Next, ExecSyncStep, WsStep, WsPortsStep, SpdyPortsStep, CodecStep, VectorsStep,
         ImagesStep, ShellStep
<1>4. QED
  BY <1>1, <1>3, PTL DEF FairSpec

\* Over pipes of any size and however many frames the client sends: the status a websocket
\* session ends with is the exit of its process, but for a waiter that failed, an attach to a
\* pty and one whose container was removed or stopped with a guess; and a loop that ended with
\* its outputs has sent every byte of them before it.
THEOREM StatusComesLast == FairSpec => []StatusIsLast
<1>1. WsInv => StatusIsLast
  <2> SUFFICES ASSUME WsInv, ws_said.is = "status" PROVE Ws!StatusIsLast
    BY DEF StatusIsLast, Ws!StatusIsLast
  <2>1. PICK c : Allowed(c) /\ ws_said = Ws!StatusOf(c)
    BY DEF WsInv, Said
  <2>2. ws_why = "output" =>
          \A o \in ws_session.outputs : ws_sent[o] = ws_made[o] /\ o \notin ws_writers
    BY DEF WsInv, Reasons, EndedOutputs
  <2>3. QED
    BY <2>1, <2>2 DEF Ws!StatusIsLast, Allowed
<1>2. QED
  BY <1>1, WsHolds, PTL

-----------------------------------------------------------------------------
(* Port forwarding over SPDY: the types.                                   *)

SpTyped ==
  /\ sp_inbox \in Seq(Sp!Frames)
  /\ sp_errors \in [Sp!Keys -> Conns \cup {Sp!Nobody}]
  /\ sp_tcp \in [Sp!Keys -> Conns \cup {Sp!Nobody}]
  /\ sp_from \in [Conns -> SUBSET Conns]
  /\ sp_made \in [Conns -> Nat] /\ sp_back \in [Conns -> Nat]
  /\ sp_pump \in [Conns -> {"none", "run", "done"}]
  /\ sp_routed \subseteq Conns /\ sp_refused \subseteq Conns /\ sp_fin \subseteq Conns

\* What a step does to the frames on their way: takes the first one, adds one, or leaves them.
Takes ==
  /\ sp_inbox # <<>> /\ Head(sp_inbox) \in Sp!Frames
  /\ sp_inbox' \in Seq(Sp!Frames) /\ Len(sp_inbox') = Len(sp_inbox) - 1
  /\ Head(sp_inbox) = sp_inbox[1] /\ 1 \in DOMAIN sp_inbox
  /\ \A i \in DOMAIN sp_inbox' : i + 1 \in DOMAIN sp_inbox /\ sp_inbox'[i] = sp_inbox[i + 1]
  /\ \A i \in DOMAIN sp_inbox : i # 1 => i - 1 \in DOMAIN sp_inbox'
  /\ UNCHANGED sp_opened

\* Taking the first frame moves the others up by one.
LEMMA TakeTakes ==
  ASSUME SpTyped, NEW op, Sp!Take(op)
  PROVE  Takes /\ Head(sp_inbox).op = op
<1>1. /\ sp_inbox \in Seq(Sp!Frames) /\ sp_inbox # <<>> /\ sp_inbox' = Tail(sp_inbox)
      /\ Head(sp_inbox).op = op /\ UNCHANGED sp_opened
  BY DEF SpTyped, Sp!Take, Sp!Received
<1>2. /\ Head(sp_inbox) \in Sp!Frames /\ Tail(sp_inbox) \in Seq(Sp!Frames)
      /\ Head(sp_inbox) = sp_inbox[1] /\ Len(sp_inbox) \in Nat \ {0}
      /\ DOMAIN sp_inbox = 1..Len(sp_inbox)
  BY <1>1, HeadTailProperties, EmptySeq, LenProperties
<1>3. /\ Len(Tail(sp_inbox)) = Len(sp_inbox) - 1
      /\ \A i \in 1..Len(Tail(sp_inbox)) : Tail(sp_inbox)[i] = sp_inbox[i + 1]
      /\ DOMAIN Tail(sp_inbox) = 1..Len(Tail(sp_inbox))
  BY <1>1, <1>2, HeadTailProperties, LenProperties
<1>4. QED
  BY <1>1, <1>2, <1>3 DEF Takes

\* The frames a client may send, by what they are.
LEMMA FrameFields ==
  ASSUME NEW f \in Sp!Frames
  PROVE  /\ f.op = "syn" => f.conn \in Conns /\ f.stream \in {"error", "data"}
         /\ f.op = "data" => f.conn \in Conns
  BY DEF Sp!Frames

\* Connections have one key if, and only if, neither carries a requestID and they are to one port.
LEMMA KeysMix ==
  /\ \A c \in Conns : Sp!KeyOf(c) \in Sp!Keys /\ c # Sp!Nobody
  /\ \A c, d \in Conns : Sp!KeyOf(c) = Sp!KeyOf(d) <=> Sp!MayMix(c, d)
<1>1. \A c \in Conns : Sp!KeyOf(c) \in Sp!Keys /\ c # Sp!Nobody
  BY PartsConstantsOK DEF Sp!Keys, Sp!SpConstants
<1>2. ASSUME NEW c \in Conns, NEW d \in Conns
      PROVE  Sp!KeyOf(c) = Sp!KeyOf(d) <=> Sp!MayMix(c, d)
  BY DEF Sp!KeyOf, Sp!MayMix
<1>3. QED
  BY <1>1, <1>2

-----------------------------------------------------------------------------
(* The target of a connection is its own, or of one it may mix with: what  *)
(* is written goes to whom the key dialed, and connections have their key  *)
(* in common only if they may mix.                                         *)

\* A pair keeps the streams and the target of connections that have its key.
PairsOwn ==
  \A k \in Sp!Keys :
    /\ sp_errors[k] # Sp!Nobody => Sp!KeyOf(sp_errors[k]) = k
    /\ sp_tcp[k] # Sp!Nobody => Sp!KeyOf(sp_tcp[k]) = k

\* A frame is held for a target that is dialed.
HeldFrame ==
  sp_loop = "write" => sp_frame.conn \in Conns /\ sp_tcp[Sp!KeyOf(sp_frame.conn)] # Sp!Nobody

SpOwn == PairsOwn /\ HeldFrame /\ Sp!OwnTarget

\* Which connections carry a requestID does not change, nor do the keys.
LEMMA KeysStay ==
  ASSUME UNCHANGED sp_named
  PROVE  /\ Sp!Keys' = Sp!Keys /\ Sp!Frames' = Sp!Frames
         /\ \A d : Sp!KeyOf(d)' = Sp!KeyOf(d)
         /\ \A d, e : Sp!MayMix(d, e)' <=> Sp!MayMix(d, e)
  BY DEF Sp!Keys, Sp!KeyOf, Sp!MayMix, Sp!Frames

\* A step that leaves the pairs alone and takes no frame to hold.
LEMMA PairsStay ==
  ASSUME SpOwn, UNCHANGED <<sp_named, sp_errors, sp_tcp>>,
         sp_loop' = "write" => UNCHANGED <<sp_loop, sp_frame>>
  PROVE  PairsOwn' /\ HeldFrame'
<1>1. PairsOwn'
  BY KeysStay DEF SpOwn, PairsOwn, Sp!Nobody
<1>2. HeldFrame'
  BY KeysStay DEF SpOwn, HeldFrame, Sp!Nobody
<1>3. QED
  BY <1>1, <1>2

\* A step that writes to no target and ends a data stream, if it does, after all of it.
LEMMA TargetsStay ==
  ASSUME SpOwn, UNCHANGED <<sp_named, sp_from>>,
         \A c \in sp_fin' : sp_back'[c] = sp_made'[c] /\ c \in sp_closed'
  PROVE  Sp!OwnTarget'
  BY KeysStay DEF SpOwn, Sp!OwnTarget

\* Targets write, read and close; the client sends, stalls and leaves.
LEMMA OwnEnvironment ==
  ASSUME SpTyped, SpOwn,
         \/ \E c \in Conns : Sp!TargetWrites(c) \/ Sp!TargetReads(c) \/ Sp!TargetCloses(c)
         \/ \E f \in Sp!Frames : Sp!ClientSend(f)
         \/ \E how \in {"stalled", "gone"} : Sp!ClientTurns(how)
  PROVE  SpTyped' /\ SpOwn'
<1> USE DEF Sp!pairs, Sp!pumps, Sp!targets
<1>1. ASSUME NEW c \in Conns, Sp!TargetWrites(c) PROVE SpTyped' /\ SpOwn'
  <2>1. /\ c \notin sp_closed /\ sp_made' = [sp_made EXCEPT ![c] = @ + 1]
        /\ UNCHANGED <<sp_named, sp_loop, sp_frame, sp_errors, sp_tcp, sp_routed, sp_refused, sp_from,
                       sp_closed, sp_pump, sp_back, sp_fin, sp_inbox>>
    BY <1>1 DEF Sp!TargetWrites, Sp!peer
  <2>2. sp_made' \in [Conns -> Nat] /\ \A d \in Conns \ {c} : sp_made'[d] = sp_made[d]
    BY <2>1 DEF SpTyped
  <2>3. SpTyped'
    BY <2>1, <2>2 DEF SpTyped, Sp!Nobody, Sp!Keys, Sp!KeyOf, Sp!Frames
  <2>4. SpOwn'
    <3>1. \A d \in sp_fin' : sp_back'[d] = sp_made'[d] /\ d \in sp_closed'
      BY <2>1, <2>2 DEF SpTyped, SpOwn, Sp!OwnTarget
    <3>2. QED
      BY <2>1, <3>1, PairsStay, TargetsStay DEF SpOwn
  <2>5. QED
    BY <2>3, <2>4
<1>2. ASSUME NEW c \in Conns, Sp!TargetReads(c) \/ Sp!TargetCloses(c) PROVE SpTyped' /\ SpOwn'
  <2>1. /\ sp_closed \subseteq sp_closed'
        /\ UNCHANGED <<sp_named, sp_loop, sp_frame, sp_errors, sp_tcp, sp_routed, sp_refused, sp_from,
                       sp_made, sp_pump, sp_back, sp_fin, sp_inbox>>
    BY <1>2 DEF Sp!TargetReads, Sp!TargetCloses, Sp!peer
  <2>8. SpTyped'
    BY <2>1 DEF SpTyped, Sp!Nobody, Sp!Keys, Sp!KeyOf, Sp!Frames
  <2>9. SpOwn'
    <3>1. \A d \in sp_fin' : sp_back'[d] = sp_made'[d] /\ d \in sp_closed'
      BY <2>1 DEF SpOwn, Sp!OwnTarget
    <3>2. QED
      BY <2>1, <3>1, PairsStay, TargetsStay DEF SpOwn
  <2>10. QED
    BY <2>8, <2>9
<1>3. ASSUME NEW f \in Sp!Frames, Sp!ClientSend(f) PROVE SpTyped' /\ SpOwn'
  <2>1. /\ sp_inbox' = Append(sp_inbox, f)
        /\ UNCHANGED <<sp_named, sp_loop, sp_frame, sp_errors, sp_tcp, sp_routed, sp_refused, sp_from,
                       sp_made, sp_closed, sp_pump, sp_back, sp_fin>>
    BY <1>3 DEF Sp!ClientSend
  <2>2. sp_inbox' \in Seq(Sp!Frames)
    BY <2>1, AppendProperties DEF SpTyped
  <2>8. SpTyped'
    BY <2>1, <2>2 DEF SpTyped, Sp!Nobody, Sp!Keys, Sp!KeyOf, Sp!Frames
  <2>9. SpOwn'
    <3>1. \A d \in sp_fin' : sp_back'[d] = sp_made'[d] /\ d \in sp_closed'
      BY <2>1 DEF SpOwn, Sp!OwnTarget
    <3>2. QED
      BY <2>1, <3>1, PairsStay, TargetsStay DEF SpOwn
  <2>10. QED
    BY <2>8, <2>9
<1>4. ASSUME NEW how \in {"stalled", "gone"}, Sp!ClientTurns(how) PROVE SpTyped' /\ SpOwn'
  <2>1. UNCHANGED <<sp_named, sp_loop, sp_frame, sp_errors, sp_tcp, sp_routed, sp_refused, sp_from,
                    sp_made, sp_closed, sp_pump, sp_back, sp_fin, sp_inbox>>
    BY <1>4 DEF Sp!ClientTurns
  <2>8. SpTyped'
    BY <2>1 DEF SpTyped, Sp!Nobody, Sp!Keys, Sp!KeyOf, Sp!Frames
  <2>9. SpOwn'
    <3>1. \A d \in sp_fin' : sp_back'[d] = sp_made'[d] /\ d \in sp_closed'
      BY <2>1 DEF SpOwn, Sp!OwnTarget
    <3>2. QED
      BY <2>1, <3>1, PairsStay, TargetsStay DEF SpOwn
  <2>10. QED
    BY <2>8, <2>9
<1>5. QED
  BY <1>1, <1>2, <1>3, <1>4

\* The loop takes a frame: a stream is opened, its target dialed, data is held for a target.
LEMMA OwnTakes ==
  ASSUME SpTyped, SpOwn, Sp!OpenError \/ Sp!OpenData \/ Sp!RefuseData \/ Sp!Data
  PROVE  SpTyped' /\ SpOwn'
<1> USE DEF Sp!pairs, Sp!pumps, Sp!targets
<1> DEFINE c == Head(sp_inbox).conn
           k == Sp!KeyOf(c)
<1>a. Takes /\ sp_loop = "read" /\ UNCHANGED sp_named
  BY TakeTakes DEF Sp!OpenError, Sp!OpenData, Sp!RefuseData, Sp!Data, Sp!Take
<1>b. sp_inbox' \in Seq(Sp!Frames) /\ Head(sp_inbox) \in Sp!Frames
  BY <1>a DEF Takes
<1>c. c \in Conns /\ k \in Sp!Keys /\ c # Sp!Nobody
  <2>1. Head(sp_inbox).op \in {"syn", "data"}
    BY DEF Sp!OpenError, Sp!OpenData, Sp!RefuseData, Sp!Data, Sp!Take, Sp!Received
  <2>2. QED
    BY <1>b, <2>1, FrameFields, KeysMix
<1>d. Sp!Keys' = Sp!Keys /\ Sp!Frames' = Sp!Frames /\ \A d : Sp!KeyOf(d)' = Sp!KeyOf(d)
  BY <1>a, KeysStay
<1>e. UNCHANGED <<sp_from, sp_made, sp_closed, sp_back, sp_fin>> => Sp!OwnTarget'
  BY <1>a, TargetsStay DEF SpOwn, Sp!OwnTarget
<1>1. CASE Sp!OpenError
  <2>1. /\ sp_errors' = [sp_errors EXCEPT ![k] = c]
        /\ UNCHANGED <<sp_loop, sp_frame, sp_tcp, sp_routed, sp_refused, sp_from, sp_made,
                       sp_closed, sp_pump, sp_back, sp_fin>>
    BY <1>1, <1>c DEF Sp!OpenError, Sp!Received
  <2>2. /\ sp_errors' \in [Sp!Keys -> Conns \cup {Sp!Nobody}] /\ sp_errors'[k] = c
        /\ \A q \in Sp!Keys \ {k} : sp_errors'[q] = sp_errors[q]
    BY <1>c, <2>1 DEF SpTyped
  <2>3. SpTyped'
    BY <1>b, <1>d, <2>1, <2>2 DEF SpTyped, Sp!Nobody
  <2>4. PairsOwn' /\ HeldFrame'
    BY <1>c, <1>d, <2>1, <2>2 DEF SpOwn, PairsOwn, HeldFrame, Sp!Nobody
  <2>5. QED
    BY <1>e, <2>1, <2>3, <2>4 DEF SpOwn
<1>2. CASE Sp!OpenData
  <2>1. /\ sp_routed' = sp_routed \cup {c} /\ sp_tcp' = [sp_tcp EXCEPT ![k] = c]
        /\ sp_pump' = [sp_pump EXCEPT ![c] = "run"]
        /\ UNCHANGED <<sp_loop, sp_frame, sp_errors, sp_refused, sp_from, sp_made, sp_closed,
                       sp_back, sp_fin>>
    BY <1>2, <1>c DEF Sp!OpenData, Sp!Received
  <2>2. /\ sp_tcp' \in [Sp!Keys -> Conns \cup {Sp!Nobody}] /\ sp_tcp'[k] = c
        /\ \A q \in Sp!Keys \ {k} : sp_tcp'[q] = sp_tcp[q]
    BY <1>c, <2>1 DEF SpTyped
  <2>3. sp_pump' \in [Conns -> {"none", "run", "done"}] /\ sp_routed' \subseteq Conns
    BY <1>c, <2>1 DEF SpTyped
  <2>4. SpTyped'
    BY <1>b, <1>d, <2>1, <2>2, <2>3 DEF SpTyped, Sp!Nobody
  <2>5. PairsOwn' /\ HeldFrame'
    BY <1>a, <1>c, <1>d, <2>1, <2>2 DEF SpOwn, PairsOwn, HeldFrame, Sp!Nobody
  <2>6. QED
    BY <1>e, <2>1, <2>4, <2>5 DEF SpOwn
<1>3. CASE Sp!RefuseData
  <2>1. /\ sp_routed' = sp_routed \cup {c} /\ sp_refused' = sp_refused \cup {c}
        /\ UNCHANGED <<sp_loop, sp_frame, sp_errors, sp_tcp, sp_from, sp_made, sp_closed, sp_pump,
                       sp_back, sp_fin>>
    BY <1>3, <1>c DEF Sp!RefuseData, Sp!Received
  <2>2. SpTyped'
    BY <1>b, <1>c, <1>d, <2>1 DEF SpTyped, Sp!Nobody
  <2>3. PairsOwn' /\ HeldFrame'
    BY <1>a, <1>d, <2>1 DEF SpOwn, PairsOwn, HeldFrame, Sp!Nobody
  <2>4. QED
    BY <1>e, <2>1, <2>2, <2>3 DEF SpOwn
<1>4. CASE Sp!Data
  <2>1. UNCHANGED <<sp_errors, sp_tcp, sp_routed, sp_refused, sp_from, sp_made, sp_closed, sp_pump,
                    sp_back, sp_fin>>
    BY <1>4 DEF Sp!Data
  <2>2. \/ sp_tcp[k] # Sp!Nobody /\ sp_frame' = Head(sp_inbox)
        \/ UNCHANGED <<sp_loop, sp_frame>>
    BY <1>4, <1>c DEF Sp!Data, Sp!Received
  <2>3. SpTyped'
    BY <1>b, <1>d, <2>1 DEF SpTyped, Sp!Nobody
  <2>4. PairsOwn'
    BY <1>d, <2>1 DEF SpOwn, PairsOwn, Sp!Nobody
  <2>5. HeldFrame'
    BY <1>a, <1>c, <1>d, <2>1, <2>2 DEF HeldFrame, Sp!Nobody
  <2>6. QED
    BY <1>e, <2>1, <2>3, <2>4, <2>5 DEF SpOwn
<1>5. QED
  BY <1>1, <1>2, <1>3, <1>4

\* The loop writes to a target or comes to its end, the pumps move what targets send.
LEMMA OwnRest ==
  ASSUME SpTyped, SpOwn,
         \/ Sp!Write \/ Sp!Hangup \/ Sp!Drained \/ Sp!DrainExpires
         \/ \E c \in Conns : Sp!Pump(c)
  PROVE  SpTyped' /\ SpOwn'
<1> USE DEF Sp!pairs, Sp!pumps, Sp!targets
<1>1. CASE Sp!Write
  <2> DEFINE c == sp_frame.conn
             t == sp_tcp[Sp!KeyOf(c)]
  <2>1. c \in Conns /\ t \in Conns /\ Sp!KeyOf(t) = Sp!KeyOf(c)
    BY <1>1, KeysMix DEF SpTyped, SpOwn, PairsOwn, HeldFrame, Sp!Write
  <2>2. /\ sp_from' = sp_from \/ sp_from' = [sp_from EXCEPT ![t] = @ \cup {c}]
        /\ sp_loop' = "read"
        /\ UNCHANGED <<sp_named, sp_errors, sp_tcp, sp_routed, sp_refused, sp_made, sp_closed, sp_pump,
                       sp_back, sp_fin, sp_inbox>>
    BY <1>1 DEF Sp!Write, Sp!peer
  <2>3. /\ sp_from' \in [Conns -> SUBSET Conns]
        /\ \A d \in Conns : sp_from'[d] \subseteq sp_from[d] \cup {e \in Conns : Sp!MayMix(d, e)}
    <3>1. CASE sp_from' = sp_from
      BY <3>1 DEF SpTyped
    <3>2. CASE sp_from' = [sp_from EXCEPT ![t] = @ \cup {c}]
      <4>1. sp_from'[t] = sp_from[t] \cup {c} /\ \A d \in Conns \ {t} : sp_from'[d] = sp_from[d]
        BY <2>1, <3>2 DEF SpTyped
      <4>2. sp_from' \in [Conns -> SUBSET Conns]
        BY <2>1, <3>2 DEF SpTyped
      <4>3. Sp!MayMix(t, c)
        BY <2>1, KeysMix
      <4>4. QED
        BY <2>1, <4>1, <4>2, <4>3
    <3>3. QED
      BY <2>2, <3>1, <3>2
  <2>4. SpTyped'
    BY <2>2, <2>3 DEF SpTyped, Sp!Nobody, Sp!Keys, Sp!KeyOf, Sp!Frames
  <2>5. PairsOwn' /\ HeldFrame'
    BY <2>2, PairsStay
  <2>6. \A d, e : Sp!MayMix(d, e)' <=> Sp!MayMix(d, e)
    BY <2>2, KeysStay
  <2>7. Sp!OwnTarget'
    BY <2>2, <2>3, <2>6 DEF SpOwn, Sp!OwnTarget
  <2>8. QED
    BY <2>4, <2>5, <2>7 DEF SpOwn
<1>2. CASE Sp!Hangup \/ Sp!Drained
  <2>1. /\ sp_loop' # "write"
        /\ UNCHANGED <<sp_named, sp_errors, sp_tcp, sp_routed, sp_refused, sp_from, sp_made, sp_closed,
                       sp_pump, sp_back, sp_fin>>
    BY <1>2 DEF Sp!Hangup, Sp!Drained
  <2>2. sp_inbox' \in Seq(Sp!Frames)
    BY <1>2, TakeTakes DEF Sp!Hangup, Sp!Drained, Sp!peer, SpTyped, Takes
  <2>8. SpTyped'
    BY <2>1, <2>2 DEF SpTyped, Sp!Nobody, Sp!Keys, Sp!KeyOf, Sp!Frames
  <2>9. SpOwn'
    <3>1. \A d \in sp_fin' : sp_back'[d] = sp_made'[d] /\ d \in sp_closed'
      BY <2>1 DEF SpOwn, Sp!OwnTarget
    <3>2. QED
      BY <2>1, <3>1, PairsStay, TargetsStay DEF SpOwn
  <2>10. QED
    BY <2>8, <2>9
<1>3. CASE Sp!DrainExpires
  <2>1. /\ sp_pump' = [c \in Conns |-> IF sp_pump[c] = "run" THEN "done" ELSE sp_pump[c]]
        /\ sp_loop' = "done"
        /\ UNCHANGED <<sp_named, sp_errors, sp_tcp, sp_routed, sp_refused, sp_from, sp_made, sp_closed,
                       sp_back, sp_fin, sp_inbox>>
    BY <1>3 DEF Sp!DrainExpires, Sp!peer
  <2>2. sp_pump' \in [Conns -> {"none", "run", "done"}]
    BY <2>1 DEF SpTyped
  <2>8. SpTyped'
    BY <2>1, <2>2 DEF SpTyped, Sp!Nobody, Sp!Keys, Sp!KeyOf, Sp!Frames
  <2>9. SpOwn'
    <3>1. \A d \in sp_fin' : sp_back'[d] = sp_made'[d] /\ d \in sp_closed'
      BY <2>1 DEF SpOwn, Sp!OwnTarget
    <3>2. QED
      BY <2>1, <3>1, PairsStay, TargetsStay DEF SpOwn
  <2>10. QED
    BY <2>8, <2>9
<1>4. ASSUME NEW c \in Conns, Sp!Pump(c) PROVE SpTyped' /\ SpOwn'
  <2>1. UNCHANGED <<sp_named, sp_loop, sp_frame, sp_errors, sp_tcp, sp_routed, sp_refused, sp_from, sp_made,
                    sp_closed, sp_inbox>>
    BY <1>4 DEF Sp!Pump, Sp!peer
  <2>2. CASE sp_back[c] < sp_made[c] /\ sp_back' = [sp_back EXCEPT ![c] = @ + 1] /\ UNCHANGED <<sp_pump, sp_fin>>
    <3>1. sp_back' \in [Conns -> Nat] /\ \A d \in Conns \ {c} : sp_back'[d] = sp_back[d]
      BY <2>2 DEF SpTyped
    <3>2. c \notin sp_fin
      BY <2>2 DEF SpTyped, SpOwn, PairsOwn, HeldFrame, Sp!OwnTarget, Sp!MayMix
    <3>3. SpTyped'
      BY <2>1, <2>2, <3>1 DEF SpTyped, Sp!Nobody, Sp!Keys, Sp!KeyOf, Sp!Frames
    <3>4. SpOwn'
      <4>1. \A d \in sp_fin' : sp_back'[d] = sp_made'[d] /\ d \in sp_closed'
        BY <2>1, <2>2, <3>1, <3>2 DEF SpTyped, SpOwn, Sp!OwnTarget
      <4>2. QED
        BY <2>1, <4>1, PairsStay, TargetsStay DEF SpOwn
    <3>5. QED
      BY <3>3, <3>4
  <2>3. CASE /\ sp_pump' = [sp_pump EXCEPT ![c] = "done"] /\ UNCHANGED sp_back
             /\ \/ UNCHANGED sp_fin
                \/ sp_back[c] = sp_made[c] /\ c \in sp_closed /\ sp_fin' = sp_fin \cup {c}
    <3>1. sp_pump' \in [Conns -> {"none", "run", "done"}]
      BY <2>3 DEF SpTyped
    <3>2. SpTyped'
      BY <2>1, <2>3, <3>1 DEF SpTyped, Sp!Nobody, Sp!Keys, Sp!KeyOf, Sp!Frames
    <3>3. SpOwn'
      <4>1. \A d \in sp_fin' : sp_back'[d] = sp_made'[d] /\ d \in sp_closed'
        BY <2>1, <2>3 DEF SpOwn, Sp!OwnTarget
      <4>2. QED
        BY <2>1, <4>1, PairsStay, TargetsStay DEF SpOwn
    <3>4. QED
      BY <3>2, <3>3
  <2>4. QED
    BY <1>4, <2>2, <2>3 DEF Sp!Pump
<1>5. QED
  BY <1>1, <1>2, <1>3, <1>4

-----------------------------------------------------------------------------
(* A refused dial is told.  The error stream of a connection is on its way *)
(* or registered before its data stream is taken, and a data stream is     *)
(* taken once.                                                             *)

HasError(c) == sp_errors[Sp!KeyOf(c)] # Sp!Nobody

Syn(i, c, stream) ==
  /\ i \in DOMAIN sp_inbox /\ sp_inbox[i].op = "syn"
  /\ sp_inbox[i].conn = c /\ sp_inbox[i].stream = stream

\* What the frames on their way still open.
Announced ==
  /\ \A i \in DOMAIN sp_inbox : sp_inbox[i].op = "syn" =>
       <<sp_inbox[i].conn, sp_inbox[i].stream>> \in sp_opened
  /\ \A c \in Conns : \A i, j \in DOMAIN sp_inbox :
       Syn(i, c, "data") /\ Syn(j, c, "data") => i = j
  /\ \A c \in sp_routed : <<c, "data">> \in sp_opened

ErrorFirst ==
  /\ \A c \in Conns : \A i \in DOMAIN sp_inbox : Syn(i, c, "data") =>
       /\ c \notin sp_routed
       /\ HasError(c) \/ \E j \in DOMAIN sp_inbox : j < i /\ Syn(j, c, "error")
  /\ \A c \in Conns : <<c, "error">> \in sp_opened =>
       HasError(c) \/ \E i \in DOMAIN sp_inbox : Syn(i, c, "error")

Refused ==
  /\ sp_refused \subseteq sp_routed
  /\ \A c \in Conns : sp_pump[c] # "none" => c \in sp_routed
  /\ Sp!RefusalIsTold

SpTold == Announced /\ ErrorFirst /\ Refused

\* The first frame opens what it asks for, the others move up.
LEMMA ToldTakes ==
  ASSUME SpTyped, Announced, ErrorFirst, Takes,
         \A c \in Conns : HasError(c) \/ Syn(1, c, "error") => HasError(c)',
         sp_routed \subseteq sp_routed',
         \A c \in sp_routed' \ sp_routed : c \in Conns /\ Syn(1, c, "data")
  PROVE  Announced' /\ ErrorFirst'
<1>1. /\ \A i \in DOMAIN sp_inbox' : i + 1 \in DOMAIN sp_inbox /\ sp_inbox'[i] = sp_inbox[i + 1]
      /\ \A i \in DOMAIN sp_inbox : i # 1 => i - 1 \in DOMAIN sp_inbox'
      /\ UNCHANGED sp_opened /\ 1 \in DOMAIN sp_inbox
      /\ DOMAIN sp_inbox \subseteq Nat \ {0} /\ DOMAIN sp_inbox' \subseteq Nat \ {0}
  <2>1. sp_inbox \in Seq(Sp!Frames) /\ sp_inbox' \in Seq(Sp!Frames)
    BY DEF SpTyped, Takes
  <2>2. /\ DOMAIN sp_inbox = 1..Len(sp_inbox) /\ Len(sp_inbox) \in Nat
        /\ DOMAIN sp_inbox' = 1..Len(sp_inbox') /\ Len(sp_inbox') \in Nat
    BY <2>1, LenProperties
  <2>3. QED
    BY <2>2 DEF Takes
<1>2. \A i \in DOMAIN sp_inbox', c \in Conns, s \in {"error", "data"} : Syn(i, c, s)' <=> Syn(i + 1, c, s)
  BY <1>1 DEF Syn
<1>3. Announced'
  <2>1. \A i \in DOMAIN sp_inbox' : sp_inbox'[i].op = "syn" =>
          <<sp_inbox'[i].conn, sp_inbox'[i].stream>> \in sp_opened'
    BY <1>1 DEF Announced
  <2>2. ASSUME NEW c \in Conns, NEW i \in DOMAIN sp_inbox', NEW j \in DOMAIN sp_inbox',
               Syn(i, c, "data")', Syn(j, c, "data")'
        PROVE  i = j
    <3>1. Syn(i + 1, c, "data") /\ Syn(j + 1, c, "data")
      BY <1>2, <2>2
    <3>2. i + 1 = j + 1
      BY <1>1, <3>1 DEF Announced
    <3>3. QED
      BY <1>1, <3>2
  <2>3. ASSUME NEW c \in sp_routed' PROVE <<c, "data">> \in sp_opened'
    <3>1. CASE c \in sp_routed
      BY <1>1, <3>1 DEF Announced
    <3>2. CASE c \notin sp_routed
      <4>1. Syn(1, c, "data")
        BY <3>2
      <4>2. QED
        BY <1>1, <4>1 DEF Announced, Syn
    <3>3. QED
      BY <3>1, <3>2
  <2>4. QED
    BY <2>1, <2>2, <2>3 DEF Announced
<1>4. ASSUME NEW c \in Conns, NEW i \in DOMAIN sp_inbox', Syn(i, c, "data")'
      PROVE  /\ c \notin sp_routed'
             /\ HasError(c)' \/ \E j \in DOMAIN sp_inbox' : j < i /\ Syn(j, c, "error")'
  <2>1. Syn(i + 1, c, "data") /\ i + 1 \in DOMAIN sp_inbox /\ i \in Nat \ {0}
    BY <1>1, <1>2, <1>4
  <2>2. ~Syn(1, c, "data")
    BY <1>1, <2>1 DEF Announced
  <2>3. c \notin sp_routed
    BY <2>1 DEF ErrorFirst
  <2>4. c \notin sp_routed'
    BY <2>2, <2>3
  <2>5. CASE HasError(c)
    BY <2>4, <2>5
  <2>6. CASE ~HasError(c)
    <3>1. PICK j \in DOMAIN sp_inbox : j < i + 1 /\ Syn(j, c, "error")
      BY <2>1, <2>6 DEF ErrorFirst
    <3>2. CASE j = 1
      BY <2>4, <3>1, <3>2
    <3>3. CASE j # 1
      <4>1. j - 1 \in DOMAIN sp_inbox' /\ j - 1 < i /\ (j - 1) + 1 = j
        BY <1>1, <2>1, <3>1, <3>3
      <4>2. Syn(j - 1, c, "error")'
        BY <1>2, <3>1, <4>1
      <4>3. QED
        BY <2>4, <4>1, <4>2
    <3>4. QED
      BY <3>2, <3>3
  <2>7. QED
    BY <2>5, <2>6
<1>5. ASSUME NEW c \in Conns, <<c, "error">> \in sp_opened'
      PROVE  HasError(c)' \/ \E i \in DOMAIN sp_inbox' : Syn(i, c, "error")'
  <2>1. HasError(c) \/ \E i \in DOMAIN sp_inbox : Syn(i, c, "error")
    BY <1>1, <1>5 DEF ErrorFirst
  <2>2. CASE \E i \in DOMAIN sp_inbox : i # 1 /\ Syn(i, c, "error")
    <3>1. PICK i \in DOMAIN sp_inbox : i # 1 /\ Syn(i, c, "error")
      BY <2>2
    <3>2. i - 1 \in DOMAIN sp_inbox' /\ (i - 1) + 1 = i
      BY <1>1, <3>1
    <3>3. Syn(i - 1, c, "error")'
      BY <1>2, <3>1, <3>2
    <3>4. QED
      BY <3>2, <3>3
  <2>3. QED
    BY <2>1, <2>2
<1>6. ErrorFirst'
  BY <1>4, <1>5 DEF ErrorFirst
<1>7. QED
  BY <1>3, <1>6

\* The client opens a stream once, and the error stream of a connection first.
LEMMA ToldSend ==
  ASSUME SpTyped, Announced, ErrorFirst, NEW f \in Sp!Frames, Sp!ClientSend(f)
  PROVE  Announced' /\ ErrorFirst'
<1>0. sp_inbox \in Seq(Sp!Frames) /\ DOMAIN sp_inbox = 1..Len(sp_inbox) /\ Len(sp_inbox) \in Nat
  BY LenProperties DEF SpTyped
<1>n. PICK n \in Nat : n = Len(sp_inbox) + 1
  BY <1>0
<1>1. /\ sp_inbox' = Append(sp_inbox, f) /\ UNCHANGED <<sp_named, sp_errors, sp_routed>>
      /\ f.op = "syn" => /\ <<f.conn, f.stream>> \notin sp_opened
                         /\ f.stream = "data" => <<f.conn, "error">> \in sp_opened
      /\ sp_opened' = IF f.op = "syn" THEN sp_opened \cup {<<f.conn, f.stream>>} ELSE sp_opened
  BY DEF Sp!ClientSend, Sp!pairs
<1>h. \A c : HasError(c)' <=> HasError(c)
  BY <1>1 DEF HasError, Sp!KeyOf, Sp!Nobody
<1>2. /\ DOMAIN sp_inbox \subseteq Nat /\ n \in Nat /\ sp_inbox'[n] = f
      /\ DOMAIN sp_inbox' = DOMAIN sp_inbox \cup {n}
      /\ \A i \in DOMAIN sp_inbox : i < n /\ sp_inbox'[i] = sp_inbox[i]
  <2>1. /\ sp_inbox' \in Seq(Sp!Frames) /\ Len(sp_inbox') = n /\ sp_inbox'[n] = f
        /\ \A i \in 1..Len(sp_inbox) : sp_inbox'[i] = sp_inbox[i]
    BY <1>0, <1>1, <1>n, AppendProperties
  <2>2. DOMAIN sp_inbox' = 1..n
    BY <2>1, LenProperties
  <2>3. QED
    BY <1>0, <1>n, <2>1, <2>2
<1>3. \A i \in DOMAIN sp_inbox, c \in Conns, s \in {"error", "data"} : Syn(i, c, s)' <=> Syn(i, c, s)
  BY <1>2 DEF Syn
<1>4. \A c \in Conns, s \in {"error", "data"} :
        Syn(n, c, s)' <=> f.op = "syn" /\ f.conn = c /\ f.stream = s
  BY <1>2 DEF Syn
<1>5. \A c \in Conns, s \in {"error", "data"} : \A i \in DOMAIN sp_inbox :
        Syn(i, c, s) => <<c, s>> \in sp_opened
  BY DEF Syn, Announced
<1>6. Announced'
  <2>1. ASSUME NEW i \in DOMAIN sp_inbox', sp_inbox'[i].op = "syn"
        PROVE  <<sp_inbox'[i].conn, sp_inbox'[i].stream>> \in sp_opened'
    <3>1. CASE i \in DOMAIN sp_inbox
      BY <1>1, <1>2, <2>1, <3>1 DEF Announced
    <3>2. CASE i = n
      BY <1>1, <1>2, <2>1, <3>2
    <3>3. QED
      BY <1>2, <3>1, <3>2
  <2>2. ASSUME NEW c \in Conns, NEW i \in DOMAIN sp_inbox', NEW j \in DOMAIN sp_inbox',
               Syn(i, c, "data")', Syn(j, c, "data")'
        PROVE  i = j
    <3>1. CASE i \in DOMAIN sp_inbox /\ j \in DOMAIN sp_inbox
      BY <1>3, <2>2, <3>1 DEF Announced
    <3>2. Syn(n, c, "data")' => \A k \in DOMAIN sp_inbox : ~Syn(k, c, "data")'
      BY <1>1, <1>3, <1>4, <1>5
    <3>3. QED
      BY <1>2, <2>2, <3>1, <3>2
  <2>3. \A c \in sp_routed' : <<c, "data">> \in sp_opened'
    BY <1>1 DEF Announced
  <2>4. QED
    BY <2>1, <2>2, <2>3 DEF Announced
<1>7. ASSUME NEW c \in Conns, NEW i \in DOMAIN sp_inbox', Syn(i, c, "data")'
      PROVE  /\ c \notin sp_routed'
             /\ HasError(c)' \/ \E j \in DOMAIN sp_inbox' : j < i /\ Syn(j, c, "error")'
  <2>1. CASE i \in DOMAIN sp_inbox
    <3>1. Syn(i, c, "data")
      BY <1>3, <1>7, <2>1
    <3>2. c \notin sp_routed
      BY <2>1, <3>1 DEF ErrorFirst
    <3>3. CASE HasError(c)
      BY <1>1, <1>h, <3>2, <3>3
    <3>4. CASE ~HasError(c)
      <4>1. PICK j \in DOMAIN sp_inbox : j < i /\ Syn(j, c, "error")
        BY <2>1, <3>1, <3>4 DEF ErrorFirst
      <4>2. j \in DOMAIN sp_inbox' /\ Syn(j, c, "error")'
        BY <1>2, <1>3, <4>1
      <4>3. QED
        BY <1>1, <3>2, <4>1, <4>2
    <3>5. QED
      BY <3>3, <3>4
  <2>2. CASE i = n
    <3>1. <<c, "data">> \notin sp_opened /\ <<c, "error">> \in sp_opened
      BY <1>1, <1>4, <1>7, <2>2
    <3>2. c \notin sp_routed
      BY <3>1 DEF Announced
    <3>3. CASE HasError(c)
      BY <1>1, <1>h, <3>2, <3>3
    <3>4. CASE ~HasError(c)
      <4>1. PICK j \in DOMAIN sp_inbox : Syn(j, c, "error")
        BY <3>1, <3>4 DEF ErrorFirst
      <4>2. j \in DOMAIN sp_inbox' /\ j < i /\ Syn(j, c, "error")'
        BY <1>2, <1>3, <2>2, <4>1
      <4>3. QED
        BY <1>1, <3>2, <4>2
    <3>5. QED
      BY <3>3, <3>4
  <2>3. QED
    BY <1>2, <2>1, <2>2
<1>8. ASSUME NEW c \in Conns, <<c, "error">> \in sp_opened'
      PROVE  HasError(c)' \/ \E i \in DOMAIN sp_inbox' : Syn(i, c, "error")'
  <2>1. CASE <<c, "error">> \in sp_opened
    <3>1. HasError(c) \/ \E i \in DOMAIN sp_inbox : Syn(i, c, "error")
      BY <2>1 DEF ErrorFirst
    <3>2. CASE \E i \in DOMAIN sp_inbox : Syn(i, c, "error")
      BY <1>2, <1>3, <3>2
    <3>3. QED
      BY <1>1, <1>h, <3>1, <3>2
  <2>2. CASE <<c, "error">> \notin sp_opened
    <3>1. f.op = "syn" /\ f.conn = c /\ f.stream = "error"
      BY <1>1, <1>8, <2>2
    <3>2. n \in DOMAIN sp_inbox' /\ Syn(n, c, "error")'
      BY <1>2, <1>4, <3>1
    <3>3. QED
      BY <3>2
  <2>3. QED
    BY <2>1, <2>2
<1>9. ErrorFirst'
  BY <1>7, <1>8 DEF ErrorFirst
<1>10. QED
  BY <1>6, <1>9

\* The loop takes a frame that opens a stream: an answer goes to a connection with its key.
LEMMA ToldOpens ==
  ASSUME SpTyped, SpOwn, SpTold, Sp!OpenError \/ Sp!OpenData \/ Sp!RefuseData
  PROVE  SpTold'
<1> USE DEF Sp!targets, Sp!pumps
<1> DEFINE c == Head(sp_inbox).conn
           k == Sp!KeyOf(c)
<1>a. Takes /\ Announced /\ ErrorFirst /\ Refused /\ Head(sp_inbox).op = "syn"
  BY TakeTakes DEF Sp!OpenError, Sp!OpenData, Sp!RefuseData, SpTold
<1>b. /\ Head(sp_inbox) \in Sp!Frames /\ Head(sp_inbox) = sp_inbox[1] /\ 1 \in DOMAIN sp_inbox
      /\ DOMAIN sp_inbox \subseteq Nat \ {0}
  <2>1. DOMAIN sp_inbox = 1..Len(sp_inbox) /\ Len(sp_inbox) \in Nat
    BY LenProperties DEF SpTyped
  <2>2. QED
    BY <1>a, <2>1 DEF Takes
<1>c. c \in Conns /\ k \in Sp!Keys /\ c # Sp!Nobody
  BY <1>a, <1>b, FrameFields, KeysMix
<1>d. UNCHANGED sp_named
  BY DEF Sp!OpenError, Sp!OpenData, Sp!RefuseData
<1>e. /\ \A d : Sp!KeyOf(d)' = Sp!KeyOf(d)
      /\ \A d, e : Sp!MayMix(d, e)' <=> Sp!MayMix(d, e)
  BY <1>d, KeysStay
<1>1. CASE Sp!OpenError
  <2>1. /\ Head(sp_inbox).stream = "error" /\ sp_errors' = [sp_errors EXCEPT ![k] = c]
        /\ UNCHANGED <<sp_routed, sp_refused, sp_told, sp_reset, sp_pump>>
    BY <1>1 DEF Sp!OpenError, Sp!Received
  <2>2. sp_errors'[k] = c /\ \A q \in Sp!Keys \ {k} : sp_errors'[q] = sp_errors[q]
    BY <1>c, <2>1 DEF SpTyped
  <2>3. \A d \in Conns : Syn(1, d, "error") => d = c
    BY <1>b DEF Syn
  <2>4. ASSUME NEW d \in Conns, HasError(d) \/ Syn(1, d, "error") PROVE HasError(d)'
    <3>1. Sp!KeyOf(d) \in Sp!Keys
      BY KeysMix
    <3>2. sp_errors'[Sp!KeyOf(d)] # Sp!Nobody
      BY <1>c, <2>2, <2>3, <2>4, <3>1 DEF HasError
    <3>3. QED
      BY <1>e, <3>2 DEF HasError, Sp!Nobody
  <2>5. Announced' /\ ErrorFirst'
    BY <1>a, <2>1, <2>4, ToldTakes
  <2>6. Refused'
    BY <1>a, <1>e, <2>1 DEF Refused, Sp!RefusalIsTold
  <2>7. QED
    BY <2>5, <2>6 DEF SpTold
<1>2. CASE Sp!OpenData \/ Sp!RefuseData
  <2>1. /\ Head(sp_inbox).stream = "data" /\ sp_routed' = sp_routed \cup {c}
        /\ UNCHANGED sp_errors
    BY <1>2 DEF Sp!OpenData, Sp!RefuseData, Sp!Received
  <2>2. Syn(1, c, "data") /\ \A d \in Conns : ~Syn(1, d, "error")
    BY <1>a, <1>b, <2>1 DEF Syn
  <2>3. Announced' /\ ErrorFirst'
    <3>1. ASSUME NEW d \in Conns, HasError(d) PROVE HasError(d)'
      BY <1>e, <2>1, <3>1 DEF HasError, Sp!Nobody
    <3>2. QED
      BY <1>a, <1>c, <2>1, <2>2, <3>1, ToldTakes
  <2>4. c \notin sp_routed /\ HasError(c)
    BY <1>a, <1>b, <1>c, <2>2 DEF ErrorFirst
  <2>5. c \notin sp_refused /\ sp_pump[c] = "none"
    BY <1>a, <1>c, <2>4 DEF Refused
  <2>6. CASE Sp!OpenData
    <3>1. /\ sp_pump' = [sp_pump EXCEPT ![c] = "run"]
          /\ UNCHANGED <<sp_refused, sp_told, sp_reset>>
      BY <2>6 DEF Sp!OpenData, Sp!Received
    <3>2. \A d \in Conns \ {c} : sp_pump'[d] = sp_pump[d]
      BY <3>1 DEF SpTyped
    <3>3. Sp!RefusalIsTold'
      BY <1>a, <1>e, <2>5, <3>1, <3>2 DEF SpTyped, Refused, Sp!RefusalIsTold
    <3>4. Refused'
      BY <1>a, <2>1, <3>1, <3>2, <3>3 DEF SpTyped, Refused
    <3>5. QED
      BY <2>3, <3>4 DEF SpTold
  <2>7. CASE Sp!RefuseData
    <3> DEFINE e == sp_errors[k]
    <3>1. e \in Conns /\ e # Sp!Nobody /\ Sp!KeyOf(e) = k
      BY <1>c, <2>4 DEF SpTyped, SpOwn, PairsOwn, HasError
    <3>2. /\ sp_refused' = sp_refused \cup {c} /\ UNCHANGED sp_pump
          /\ sp_told' = sp_told \cup ({e} \ {Sp!Nobody})
          /\ sp_reset' = sp_reset \cup {<<c, "data">>} \cup ({<<e, "error">>} \ {<<Sp!Nobody, "error">>})
      BY <2>7 DEF Sp!RefuseData, Sp!Received
    <3>3. sp_told' = sp_told \cup {e} /\ sp_reset' = sp_reset \cup {<<c, "data">>, <<e, "error">>}
      BY <3>1, <3>2
    <3>4. Sp!MayMix(c, e)
      BY <1>c, <3>1, KeysMix
    <3>5. /\ \A d \in sp_refused' : \E q \in sp_told' : Sp!MayMix(d, q)
          /\ \A q \in sp_told' : \E d \in sp_refused' : Sp!MayMix(d, q)
      BY <1>a, <3>2, <3>3, <3>4 DEF Refused, Sp!RefusalIsTold
    <3>6. sp_reset' = (sp_refused' \X {"data"}) \cup (sp_told' \X {"error"})
      BY <1>a, <3>2, <3>3 DEF Refused, Sp!RefusalIsTold
    <3>7. \A d \in sp_refused' : sp_pump'[d] = "none"
      BY <1>a, <2>5, <3>2 DEF Refused, Sp!RefusalIsTold
    <3>8. Sp!RefusalIsTold'
      BY <1>e, <3>5, <3>6, <3>7 DEF Sp!RefusalIsTold
    <3>9. Refused'
      BY <1>a, <2>1, <3>2, <3>8 DEF Refused
    <3>10. QED
      BY <2>3, <3>9 DEF SpTold
  <2>8. QED
    BY <1>2, <2>6, <2>7
<1>3. QED
  BY <1>1, <1>2

\* No other step opens, routes or refuses.
LEMMA ToldRest ==
  ASSUME SpTyped, SpTold,
         \/ Sp!Data \/ Sp!Write \/ Sp!Hangup \/ Sp!Drained \/ Sp!DrainExpires
         \/ \E c \in Conns :
              Sp!Pump(c) \/ Sp!TargetWrites(c) \/ Sp!TargetReads(c) \/ Sp!TargetCloses(c)
         \/ \E f \in Sp!Frames : Sp!ClientSend(f)
         \/ \E how \in {"stalled", "gone"} : Sp!ClientTurns(how)
  PROVE  SpTold'
<1> USE DEF Sp!targets, Sp!peer
<1>0. Announced /\ ErrorFirst /\ Refused
  BY DEF SpTold
<1>1. UNCHANGED <<sp_named, sp_errors, sp_routed, sp_refused, sp_told, sp_reset>>
  BY DEF Sp!Data, Sp!Write, Sp!Hangup, Sp!Drained, Sp!DrainExpires, Sp!Pump, Sp!TargetWrites,
         Sp!TargetReads, Sp!TargetCloses, Sp!ClientSend, Sp!ClientTurns, Sp!pairs
<1>2. \A c \in Conns : sp_pump'[c] # "none" <=> sp_pump[c] # "none"
  <2>1. CASE UNCHANGED sp_pump
    BY <2>1
  <2>2. CASE Sp!DrainExpires
    BY <2>2 DEF Sp!DrainExpires
  <2>3. ASSUME NEW c \in Conns, Sp!Pump(c)
        PROVE  \A d \in Conns : sp_pump'[d] # "none" <=> sp_pump[d] # "none"
    BY <2>3 DEF Sp!Pump, SpTyped
  <2>4. QED
    BY <2>1, <2>2, <2>3
       DEF Sp!Data, Sp!Write, Sp!Hangup, Sp!Drained, Sp!TargetWrites,
           Sp!TargetReads, Sp!TargetCloses, Sp!ClientSend, Sp!ClientTurns, Sp!pumps
<1>3. Refused'
  BY <1>0, <1>1, <1>2 DEF SpTyped, Refused, Sp!RefusalIsTold, Sp!MayMix
<1>h. \A c \in Conns : HasError(c)' <=> HasError(c)
  BY <1>1 DEF HasError, Sp!KeyOf, Sp!Nobody
<1>4. CASE UNCHANGED <<sp_inbox, sp_opened>>
  BY <1>0, <1>1, <1>3, <1>4, <1>h DEF SpTold, Announced, ErrorFirst, Syn
<1>5. ASSUME NEW op \in {"data", "rst"}, Sp!Take(op) PROVE SpTold'
  <2>1. Takes /\ Head(sp_inbox).op = op
    BY <1>5, TakeTakes
  <2>2. \A c \in Conns : ~Syn(1, c, "error")
    BY <2>1 DEF Takes, Syn
  <2>3. Announced' /\ ErrorFirst'
    BY <1>0, <1>1, <1>h, <2>1, <2>2, ToldTakes
  <2>4. QED
    BY <1>3, <2>3 DEF SpTold
<1>6. ASSUME NEW f \in Sp!Frames, Sp!ClientSend(f) PROVE SpTold'
  BY <1>0, <1>3, <1>6, ToldSend DEF SpTold
<1>7. \/ UNCHANGED <<sp_inbox, sp_opened>> \/ Sp!Take("data") \/ Sp!Take("rst")
      \/ \E f \in Sp!Frames : Sp!ClientSend(f)
  BY DEF Sp!Data, Sp!Write, Sp!Hangup, Sp!Drained, Sp!DrainExpires, Sp!Pump, Sp!TargetWrites,
         Sp!TargetReads, Sp!TargetCloses, Sp!ClientTurns
<1>8. QED
  BY <1>4, <1>5, <1>6, <1>7

\* Nothing is open and nothing on its way.
LEMMA SpdyStarts ==
  ASSUME Sp!Init
  PROVE  SpTyped /\ SpOwn /\ SpTold
<1>1. SpTyped
  BY DEF Sp!Init, SpTyped
<1>2. SpOwn
  BY DEF Sp!Init, SpOwn, PairsOwn, HeldFrame, Sp!OwnTarget
<1>3. SpTold
  BY DEF Sp!Init, SpTold, Announced, ErrorFirst, Refused, Sp!RefusalIsTold
<1>4. QED
  BY <1>1, <1>2, <1>3

\* The invariant of SPDY port forwarding, in every behavior of the parts.
LEMMA SpdyHolds == FairSpec => [](SpTyped /\ SpOwn /\ SpTold)
<1>1. Init => SpTyped /\ SpOwn /\ SpTold
  BY SpdyStarts DEF Init
<1>2. SpTyped /\ SpOwn /\ SpTold /\ Sp!Next => (SpTyped /\ SpOwn /\ SpTold)'
  BY OwnEnvironment, OwnTakes, OwnRest, ToldOpens, ToldRest DEF Sp!Next, Sp!LoopStep
<1>3. SpTyped /\ UNCHANGED sp => SpTyped'
  BY DEF sp, SpTyped, Sp!Nobody, Sp!Keys, Sp!KeyOf, Sp!Frames
<1>4. SpOwn /\ UNCHANGED sp => SpOwn'
  BY PairsStay, TargetsStay DEF sp, SpOwn, Sp!OwnTarget
<1>5. SpTold /\ UNCHANGED sp => SpTold'
  BY DEF sp, SpTold, Announced, ErrorFirst, Refused, HasError, Syn, Sp!RefusalIsTold, Sp!MayMix,
         Sp!KeyOf, Sp!Nobody
<1>6. (SpTyped /\ SpOwn /\ SpTold) /\ [Next]_vars => (SpTyped /\ SpOwn /\ SpTold)'
  BY <1>2, <1>3, <1>4, <1>5
     DEF vars, Next, ExecSyncStep, WsStep, WsPortsStep, SpdyPortsStep, CodecStep, VectorsStep,
         ImagesStep, ShellStep
<1>7. QED
  BY <1>1, <1>6, PTL DEF FairSpec

\* For any number of connections, to whatever ports, with or without a requestID, and any
\* interleaving of the loop with the pumps, the targets and the client: a target gets the data
\* of the connection that dialed it, or of one to the same port that carries no requestID
\* either; and a data stream ends only after all that its target sent.
THEOREM TargetsAreOwn == FairSpec => []OwnTarget
<1>1. SpTyped /\ SpOwn /\ SpTold => OwnTarget
  BY DEF SpOwn, OwnTarget
<1>2. QED
  BY <1>1, SpdyHolds, PTL

\* For any number of connections: a dial that fails is told on the error stream of the
\* connection that asked, or of one to the same port that, like it, carries no requestID; that
\* stream and its data stream are reset, no other is, and no pump ever runs for it.
THEOREM RefusalsAreTold == FairSpec => []RefusalIsTold
<1>1. SpTyped /\ SpOwn /\ SpTold => RefusalIsTold
  BY DEF SpTold, Refused, RefusalIsTold
<1>2. QED
  BY <1>1, SpdyHolds, PTL
-----------------------------------------------------------------------------
(* The date of a log line.  An era of 400 years has 146097 days; years are *)
(* counted from March, so that the day a leap year adds is the last.       *)

\* Days of the cycles of leap years: of 4, 100 and 400 years.
FourYears == 1460
Century == 36524
Era == 146097

\* q is n divided by k, rounded down.
Quotient(q, n, k) == k * q <= n /\ n < k * q + k

\* What \div computes.
DividesBy(k) == \A n \in Int : n \div k \in Int /\ Quotient(n \div k, n, k)

\* Division by the short cycles of the calendar.
LEMMA Quotients == DividesBy(4) /\ DividesBy(100) /\ DividesBy(365)
  BY SMT DEF Quotient, DividesBy

\* Division by its long ones.
LEMMA LongQuotients == DividesBy(FourYears) /\ DividesBy(Century) /\ DividesBy(Era - 1)
  BY SMT DEF Quotient, DividesBy, FourYears, Century, Era

\* The years of an era, counted from March: where one begins and ends, and which one a day is in.
YearStart(y) == 365 * y + y \div 4 - y \div 100
YearEnd(y) == IF y = 399 THEN Era ELSE YearStart(y + 1)
YearOf(n) == (n - n \div FourYears + n \div Century - n \div (Era - 1)) \div 365

\* The year so computed, in terms of its quotients: linear arithmetic.
LEMMA YearArithmetic ==
  ASSUME NEW n \in Int, NEW a \in Int, NEW b \in Int, NEW e \in Int, NEW y \in Int,
         NEW q \in Int, NEW c \in Int, NEW r \in Int, NEW d \in Int, 0 <= n, n < Era,
         Quotient(a, n, FourYears), Quotient(b, n, Century), Quotient(e, n, Era - 1),
         Quotient(y, n - a + b - e, 365), Quotient(q, y, 4), Quotient(c, y, 100),
         Quotient(r, y + 1, 4), Quotient(d, y + 1, 100)
  PROVE  /\ 0 <= y /\ y <= 399
         /\ 365 * y + q - c <= n
         /\ y = 399 \/ n < 365 * (y + 1) + r - d
  BY SMT DEF Quotient, FourYears, Century, Era

\* Every day of an era is a day of the year YearOf says.
LEMMA YearsCover ==
  ASSUME NEW n \in Int, 0 <= n, n < Era
  PROVE  /\ YearOf(n) \in Int /\ 0 <= YearOf(n) /\ YearOf(n) <= 399
         /\ YearStart(YearOf(n)) <= n /\ n < YearEnd(YearOf(n))
<1> DEFINE a == n \div FourYears
           b == n \div Century
           e == n \div (Era - 1)
           y == (n - a + b - e) \div 365
           q == y \div 4
           c == y \div 100
           r == (y + 1) \div 4
           d == (y + 1) \div 100
<1>1. /\ a \in Int /\ b \in Int /\ e \in Int
      /\ Quotient(a, n, FourYears) /\ Quotient(b, n, Century) /\ Quotient(e, n, Era - 1)
  BY SMT, LongQuotients DEF DividesBy
<1> HIDE DEF a, b, e
<1>2. y \in Int /\ Quotient(y, n - a + b - e, 365)
  BY SMT, <1>1, Quotients DEF DividesBy
<1>6. y = YearOf(n)
  BY SMT DEF YearOf, a, b, e
<1> HIDE DEF y
<1>3. q \in Int /\ c \in Int /\ r \in Int /\ d \in Int /\ Quotient(q, y, 4) /\ Quotient(c, y, 100)
      /\ Quotient(r, y + 1, 4) /\ Quotient(d, y + 1, 100)
  <2>1. y + 1 \in Int
    BY SMT, <1>2
  <2>2. q \in Int /\ c \in Int /\ Quotient(q, y, 4) /\ Quotient(c, y, 100)
    BY <1>2, Quotients DEF DividesBy
  <2>3. r \in Int /\ d \in Int /\ Quotient(r, y + 1, 4) /\ Quotient(d, y + 1, 100)
    BY SMT, <1>2 DEF Quotient
  <2>4. QED
    BY <2>2, <2>3
<1>7. YearStart(y) = 365 * y + q - c /\ YearStart(y + 1) = 365 * (y + 1) + r - d
  BY SMT DEF YearStart
<1> HIDE DEF q, c, r, d
<1>4. /\ 0 <= y /\ y <= 399
      /\ 365 * y + q - c <= n
      /\ y = 399 \/ n < 365 * (y + 1) + r - d
  BY SMT, <1>1, <1>2, <1>3, YearArithmetic
<1>5. QED
  BY SMT, <1>2, <1>3, <1>4, <1>6, <1>7 DEF YearEnd

\* Years begin and end on days.
LEMMA YearTypes ==
  ASSUME NEW y \in Int
  PROVE  YearStart(y) \in Int /\ YearEnd(y) \in Int
  BY SMT DEF YearStart, YearEnd, Era

\* Years do not overlap.
LEMMA YearsApart ==
  ASSUME NEW y \in Int, NEW z \in Int, 0 <= y, y < z, z <= 399
  PROVE  YearEnd(y) <= YearStart(z)
  BY SMT DEF YearStart, YearEnd

\* Years are not empty, and the last one ends with the era.
LEMMA YearsWithin ==
  ASSUME NEW y \in Int, 0 <= y, y <= 399
  PROVE  /\ YearStart(y) < YearEnd(y) /\ YearEnd(y) <= Era
         /\ y # 399 => YearEnd(y) < Era
  BY SMT DEF YearStart, YearEnd, Era

\* So YearOf finds the one year a day is in.
LEMMA YearFound ==
  ASSUME NEW n \in Int, 0 <= n, n < Era, NEW y \in Int, 0 <= y, y <= 399,
         YearStart(y) <= n, n < YearEnd(y)
  PROVE  YearOf(n) = y
<1>1. CASE YearOf(n) < y
  BY SMT, <1>1, YearsCover, YearsApart, YearTypes DEF Era
<1>2. CASE YearOf(n) > y
  BY SMT, <1>2, YearsCover, YearsApart, YearTypes DEF Era
<1>3. QED
  BY SMT, <1>1, <1>2, YearsCover DEF Era

\* A year has 366 days exactly if the February it ends with is that of a leap year.
LEMMA YearLength ==
  ASSUME NEW y \in Int, 0 <= y, y <= 399
  PROVE  YearEnd(y) - YearStart(y) = IF Cd!Leap(y + 1) THEN 366 ELSE 365
  BY SMT DEF Cd!Leap, YearStart, YearEnd, Era

\* The n-th day of the year y that begins in March.
Date(y, n) ==
  LET mp == (5 * n + 2) \div 153
      mo == IF mp < 10 THEN mp + 3 ELSE mp - 9
  IN <<y + (IF mo <= 2 THEN 1 ELSE 0), mo, n - (153 * mp + 2) \div 5 + 1>>

\* Within a year that begins in March, the next day is tomorrow: months included.
LEMMA DayMoves ==
  ASSUME NEW y \in Int, NEW n \in Int, 0 <= n, n <= 363 \/ (n = 364 /\ Cd!Leap(y + 1))
  PROVE  Date(y, n + 1) = Cd!Tomorrow(Date(y, n))
<1> DEFINE m == (5 * n + 2) \div 153
           p == (5 * (n + 1) + 2) \div 153
           s == (153 * m + 2) \div 5
           t == (153 * p + 2) \div 5
           mo == IF m < 10 THEN m + 3 ELSE m - 9
           po == IF p < 10 THEN p + 3 ELSE p - 9
           len == IF mo = 2 THEN IF Cd!Leap(y + 1) THEN 29 ELSE 28
                  ELSE IF mo \in {4, 6, 9, 11} THEN 30 ELSE 31
<1>1. m \in Int /\ p \in Int /\ s \in Int /\ t \in Int
  BY SMT
<1>2. 0 <= m /\ m <= 11
  BY SMT
<1>3. \/ p = m /\ n - s + 1 < len
      \/ p = m + 1 /\ t = n + 1 /\ n - s + 1 = len /\ m # 11
  BY SMT
<1>4. Date(y, n) = <<y + (IF mo <= 2 THEN 1 ELSE 0), mo, n - s + 1>>
  BY DEF Date
<1>5. Date(y, n + 1) = <<y + (IF po <= 2 THEN 1 ELSE 0), po, n + 1 - t + 1>>
  BY DEF Date
<1> DEFINE Y == y + (IF mo <= 2 THEN 1 ELSE 0)
           d == n - s + 1
<1>6. /\ Cd!DaysIn(Y, mo) = len /\ (mo = 12 <=> m = 9)
      /\ Y \in Int /\ d \in Int /\ len \in Int /\ mo \in Int
  BY SMT, <1>1, <1>2 DEF Cd!DaysIn
<1>7. Cd!Tomorrow(<<Y, mo, d>>) = IF d < len THEN <<Y, mo, d + 1>>
                               ELSE IF mo < 12 THEN <<Y, mo + 1, 1>> ELSE <<Y + 1, 1, 1>>
  BY <1>6 DEF Cd!Tomorrow
<1>8. CASE p = m /\ d < len
  <2>1. Cd!Tomorrow(Date(y, n)) = <<Y, mo, d + 1>>
    BY <1>4, <1>7, <1>8
  <2>2. t = s /\ po = mo /\ n + 1 - t + 1 = d + 1
    BY SMT, <1>1, <1>8
  <2>3. QED
    BY <1>5, <2>1, <2>2
<1>9. CASE p = m + 1 /\ t = n + 1 /\ d = len /\ m # 11
  <2>1. Cd!Tomorrow(Date(y, n)) = IF mo < 12 THEN <<Y, mo + 1, 1>> ELSE <<Y + 1, 1, 1>>
    <3>1. ~(d < len)
      BY SMT, <1>6, <1>9
    <3>2. QED
      BY <1>4, <1>7, <3>1
  <2>2. /\ n + 1 - t + 1 = 1
        /\ po = IF mo < 12 THEN mo + 1 ELSE 1
        /\ y + (IF po <= 2 THEN 1 ELSE 0) = IF mo < 12 THEN Y ELSE Y + 1
    BY SMT, <1>1, <1>2, <1>9
  <2>3. QED
    BY <1>5, <2>1, <2>2
<1>10. QED
  BY <1>3, <1>8, <1>9

\* After the last day of February comes the first of March.
LEMMA YearMoves ==
  ASSUME NEW y \in Int, NEW n \in Int, n = IF Cd!Leap(y + 1) THEN 365 ELSE 364
  PROVE  Date(y + 1, 0) = Cd!Tomorrow(Date(y, n))
<1>1. Date(y, n) = <<y + 1, 2, IF Cd!Leap(y + 1) THEN 29 ELSE 28>>
  BY SMT DEF Date
<1>2. Date(y + 1, 0) = <<y + 1, 3, 1>>
  BY SMT DEF Date
<1>3. QED
  BY SMT, <1>1, <1>2 DEF Cd!Tomorrow, Cd!DaysIn

\* The eras of a day counted from 1970, and its date.
EraOf(day) == (day + 719468) \div Era
DayOfEra(day) == (day + 719468) % Era
DateIn(era, n) == Date(YearOf(n) + era * 400, n - YearStart(YearOf(n)))

\* epoch_to_ymd_hms splits the days into eras and those into years.
LEMMA YmdIsDate ==
  ASSUME NEW day \in Int
  PROVE  Cd!Ymd(day) = DateIn(EraOf(day), DayOfEra(day))
  BY SMT DEF Cd!Ymd, DateIn, Date, YearOf, YearStart, EraOf, DayOfEra, FourYears, Century, Era

\* The next day is the next of the era, or the first of the next era.
LEMMA EraMoves ==
  ASSUME NEW day \in Int
  PROVE  /\ EraOf(day) \in Int /\ DayOfEra(day) \in Int /\ 0 <= DayOfEra(day) /\ DayOfEra(day) < Era
         /\ \/ DayOfEra(day) + 1 < Era /\ EraOf(day + 1) = EraOf(day)
                                       /\ DayOfEra(day + 1) = DayOfEra(day) + 1
            \/ DayOfEra(day) + 1 = Era /\ EraOf(day + 1) = EraOf(day) + 1 /\ DayOfEra(day + 1) = 0
  BY SMT DEF EraOf, DayOfEra, Era

\* Whatever day it is, the date after it is tomorrow's.
LEMMA NextDay ==
  ASSUME NEW day \in Int
  PROVE  Cd!Ymd(day + 1) = Cd!Tomorrow(Cd!Ymd(day))
<1> DEFINE era == EraOf(day)
           n == DayOfEra(day)
           y == YearOf(n)
           year == y + era * 400
           k == n - YearStart(y)
<1>1. /\ era \in Int /\ n \in Int /\ 0 <= n /\ n < Era /\ Era \in Int
      /\ \/ n + 1 < Era /\ EraOf(day + 1) = era /\ DayOfEra(day + 1) = n + 1
         \/ n + 1 = Era /\ EraOf(day + 1) = era + 1 /\ DayOfEra(day + 1) = 0
  BY SMT, EraMoves DEF Era
<1>2. Cd!Ymd(day) = Date(year, k)
  BY YmdIsDate DEF DateIn
<1>3. Cd!Ymd(day + 1) = DateIn(EraOf(day + 1), DayOfEra(day + 1))
  <2>1. day + 1 \in Int
    BY SMT
  <2>2. QED
    BY <2>1, YmdIsDate
<1> HIDE DEF era, n
<1>4. /\ y \in Int /\ 0 <= y /\ y <= 399 /\ YearStart(y) <= n /\ n < YearEnd(y)
  BY SMT, <1>1, YearsCover
<1> HIDE DEF y
<1>5. year \in Int /\ year = y + era * 400
  BY SMT, <1>1, <1>4
<1> HIDE DEF year
<1>6. /\ YearStart(y) \in Int /\ YearEnd(y) \in Int
      /\ YearEnd(y) - YearStart(y) = IF Cd!Leap(year + 1) THEN 366 ELSE 365
  <2>1. YearStart(y) \in Int /\ YearEnd(y) \in Int
    BY <1>4, YearTypes
  <2>2. YearEnd(y) - YearStart(y) = IF Cd!Leap(y + 1) THEN 366 ELSE 365
    BY <1>4, YearLength
  <2>3. Cd!Leap(year + 1) <=> Cd!Leap(y + 1)
    BY SMT, <1>1, <1>4, <1>5 DEF Cd!Leap
  <2>4. QED
    BY <2>1, <2>2, <2>3
<1>7. k \in Int /\ 0 <= k
  BY SMT, <1>1, <1>4, <1>6
<1>8. CASE n + 1 < YearEnd(y)
  <2>1. n + 1 < Era
    BY SMT, <1>1, <1>4, <1>6, <1>8, YearsWithin
  <2>2. YearOf(n + 1) = y
    <3>1. n + 1 \in Int /\ 0 <= n + 1 /\ YearStart(y) <= n + 1
      BY SMT, <1>1, <1>4, <1>6
    <3>2. QED
      BY <1>4, <1>8, <2>1, <3>1, YearFound
  <2>3. Cd!Ymd(day + 1) = Date(year, k + 1)
    <3>1. n + 1 - YearStart(y) = k + 1
      BY SMT, <1>1, <1>6
    <3>2. EraOf(day + 1) = era /\ DayOfEra(day + 1) = n + 1
      BY SMT, <1>1, <2>1
    <3>3. DateIn(era, n + 1) = Date(year, n + 1 - YearStart(y))
      BY SMT, <1>1, <1>5, <1>6, <2>2 DEF DateIn
    <3>4. QED
      BY <1>3, <3>1, <3>2, <3>3
  <2>4. k <= 363 \/ (k = 364 /\ Cd!Leap(year + 1))
    BY SMT, <1>1, <1>6, <1>8
  <2>5. QED
    BY <1>2, <1>5, <1>7, <2>3, <2>4, DayMoves
<1>9. CASE n + 1 = YearEnd(y)
  <2>1. k = IF Cd!Leap(year + 1) THEN 365 ELSE 364
    BY SMT, <1>1, <1>6, <1>9
  <2>2. Cd!Ymd(day + 1) = Date(year + 1, 0)
    <3>1. CASE y = 399
      <4>1. EraOf(day + 1) = era + 1 /\ DayOfEra(day + 1) = 0
        BY SMT, <1>1, <1>9, <3>1 DEF YearEnd
      <4>2. YearOf(0) = 0 /\ YearStart(0) = 0
        BY SMT DEF YearOf, YearStart, FourYears, Century, Era
      <4>3. 0 + (era + 1) * 400 = year + 1 /\ 0 - 0 = 0
        BY SMT, <1>1, <1>5, <3>1
      <4>4. QED
        BY <1>3, <4>1, <4>2, <4>3 DEF DateIn
    <3>2. CASE y # 399
      <4>1. y + 1 \in Int /\ 0 <= y + 1 /\ y + 1 <= 399 /\ YearEnd(y) = YearStart(y + 1)
        BY SMT, <1>4, <3>2 DEF YearEnd
      <4>2. YearStart(y + 1) < YearEnd(y + 1) /\ n + 1 < Era /\ n + 1 \in Int /\ 0 <= n + 1
        BY SMT, <1>1, <1>4, <1>6, <1>9, <4>1, YearsWithin
      <4>3. YearOf(n + 1) = y + 1
        BY SMT, <1>9, <4>1, <4>2, YearFound
      <4>4. n + 1 - YearStart(y + 1) = 0 /\ y + 1 + era * 400 = year + 1
        BY SMT, <1>1, <1>4, <1>5, <1>6, <1>9, <4>1
      <4>5. EraOf(day + 1) = era /\ DayOfEra(day + 1) = n + 1
        BY SMT, <1>1, <4>2
      <4>6. DateIn(era, n + 1) = Date(y + 1 + era * 400, n + 1 - YearStart(y + 1))
        BY SMT, <1>1, <4>1, <4>3, YearTypes DEF DateIn
      <4>7. QED
        BY <1>3, <4>4, <4>5, <4>6
    <3>3. QED
      BY <3>1, <3>2
  <2>3. QED
    BY <1>2, <1>5, <1>7, <2>1, <2>2, YearMoves
<1>10. QED
  BY SMT, <1>1, <1>4, <1>6, <1>8, <1>9

\* The date in the log is right on every day from 1970 on, for as many centuries as one likes:
\* it starts right, and the date of each day is the calendar's day after that of the day before.
THEOREM DatesAreCalendar == FairSpec => []DateIsCalendar
<1>1. Cd!Ymd(0) = <<1970, 1, 1>>
  BY SMT DEF Cd!Ymd
<1>2. \A day \in 1..LastDay : Cd!Ymd(day) = Cd!Tomorrow(Cd!Ymd(day - 1))
  <2> SUFFICES ASSUME NEW day \in Int PROVE Cd!Ymd(day) = Cd!Tomorrow(Cd!Ymd(day - 1))
    BY PartsConstantsOK
  <2>1. day - 1 \in Int /\ (day - 1) + 1 = day
    BY SMT
  <2>2. QED
    BY <2>1, NextDay
<1>3. Cd!DateIsCalendar
  BY SMT, <1>1, <1>2 DEF Cd!DateIsCalendar
<1>4. DateIsCalendar
  BY <1>3 DEF DateIsCalendar
<1>5. QED
  BY <1>4, PTL

-----------------------------------------------------------------------------
(* The gRPC handlers.  A client sees records move one way only: an id is   *)
(* given out once, a sandbox stops and goes, a container runs, exits and   *)
(* goes.                                                                   *)

ShCalls ==
  {Sh!Idle} \cup [op : {"remove_pod"}, sb : Sandboxes] \cup [op : {"start"}, ct : Containers]
    \cup [op : {"stats"}, ids : SUBSET Containers, todo : SUBSET Containers,
          recs : SUBSET [id : Containers, used : BOOLEAN]]

LawTyped ==
  /\ sb \in [Sandboxes -> {"absent", "Ready", "NotReady"}]
  /\ ct \in [Containers -> [state : {"absent", "Created", "Running", "Exited"},
                            sandbox : Sandboxes \cup {None}, code : Codes \cup {0}]]

ShTyped ==
  /\ LawTyped
  /\ call \in [Clients -> ShCalls] /\ answer = [k \in Clients |-> answer[k]]
  /\ seen \in [Clients -> [Sandboxes \cup Containers -> Int]]

\* How far a sandbox or container has got; what is gone, or not there yet, is nowhere.
PodLevel(s) == IF sb[s] = "NotReady" THEN 1 ELSE 0
CtLevel(c) ==
  IF ct[c].state = "Exited" THEN 2 ELSE IF ct[c].state = "Running" THEN 1 ELSE 0

\* What there is has an id that was given out, and nobody has seen it any further than it is.
SeenLaw ==
  /\ \A s \in Sandboxes : sb[s] # "absent" => s \in spent
  /\ \A c \in Containers : ct[c].state # "absent" => c \in spent
  /\ \A k \in Clients, s \in Sandboxes :
       /\ s \notin spent => seen[k][s] = 0
       /\ sb[s] # "absent" => seen[k][s] <= PodLevel(s)
  /\ \A k \in Clients, c \in Containers :
       /\ c \notin spent => seen[k][c] = 0
       /\ ct[c].state # "absent" => seen[k][c] <= CtLevel(c)

\* What was started is so for ever.
Started(c) == c \in spent /\ ct[c].state # "Created"

\* A start has recorded that it started its container.  A stats call has read the containers it
\* set out to read but those it has yet to read; one that used something had been started.
CallFits(f) ==
  /\ f.op = "start" => Started(f.ct)
  /\ f.op = "stats" =>
       /\ f.ids = f.todo \cup {r.id : r \in f.recs}
       /\ \A r \in f.recs : r.id \in spent /\ (r.used => Started(r.id))

ShInv == ShTyped /\ SeenLaw /\ \A k \in Clients : CallFits(call[k])

\* What the backend may do meanwhile: records appear under new ids, get on, and go.
Moves ==
  /\ LawTyped' /\ spent \subseteq spent'
  /\ \A s \in Sandboxes : sb'[s] # "absent" =>
       /\ s \in spent'
       /\ s \notin spent \/ (sb[s] # "absent" /\ PodLevel(s) <= PodLevel(s)')
  /\ \A c \in Containers : ct'[c].state # "absent" =>
       /\ c \in spent'
       /\ c \notin spent \/ (ct[c].state # "absent" /\ CtLevel(c) <= CtLevel(c)')

\* Calls that only look move nothing.
LEMMA RestMoves ==
  ASSUME ShInv, UNCHANGED <<sb, ct, spent>>
  PROVE  Moves
  BY DEF ShInv, ShTyped, LawTyped, SeenLaw, Moves, PodLevel, CtLevel

\* Sandboxes start, stop and go.
LEMMA PodMoves ==
  ASSUME ShInv, NEW s \in Sandboxes,
         Sh!Backend!RunSandbox(s) \/ Sh!Backend!StopSandbox(s) \/ Sh!Backend!RemoveSandbox(s)
           \/ Sh!Backend!Waste(s)
  PROVE  Moves
<1>1. /\ spent \subseteq spent' /\ UNCHANGED ct
      /\ \A x \in Sandboxes \ {s} : sb'[x] = sb[x]
      /\ sb' \in [Sandboxes -> {"absent", "Ready", "NotReady"}]
  BY DEF ShInv, ShTyped, LawTyped, Sh!Backend!RunSandbox, Sh!Backend!StopSandbox,
         Sh!Backend!RemoveSandbox, Sh!Backend!Waste
<1>2. \/ s \notin spent /\ s \in spent' /\ (sb'[s] = "Ready" \/ sb'[s] = sb[s])
      \/ sb[s] = "Ready" /\ sb'[s] = "NotReady"
      \/ sb'[s] = "absent"
  BY DEF ShInv, ShTyped, LawTyped, Sh!Backend!RunSandbox, Sh!Backend!StopSandbox,
         Sh!Backend!RemoveSandbox, Sh!Backend!Waste
<1>3. QED
  BY <1>1, <1>2 DEF ShInv, ShTyped, LawTyped, SeenLaw, Moves, PodLevel, CtLevel

\* Containers are created, start, exit and go.
LEMMA ContainerMoves ==
  ASSUME ShInv, NEW c \in Containers,
         \/ \E s \in Sandboxes : Sh!Backend!CreateContainer(c, s)
         \/ Sh!Backend!StartContainer(c) \/ Sh!Backend!ExitContainer(c)
         \/ Sh!Backend!RemoveContainer(c) \/ Sh!Backend!Waste(c)
  PROVE  Moves
<1> DEFINE Records == [state : {"absent", "Created", "Running", "Exited"},
                       sandbox : Sandboxes \cup {None}, code : Codes \cup {0}]
<1>0. ct \in [Containers -> Records]
  BY DEF ShInv, ShTyped, LawTyped
<1>1. /\ spent \subseteq spent' /\ UNCHANGED sb
      /\ \A x \in Containers \ {c} : ct'[x] = ct[x]
      /\ ct' = [ct EXCEPT ![c] = ct'[c]] /\ ct'[c] \in Records
  <2>1. CASE \E s \in Sandboxes : Sh!Backend!CreateContainer(c, s)
    BY <1>0, <2>1 DEF Sh!Backend!CreateContainer
  <2>2. CASE Sh!Backend!StartContainer(c)
    BY <1>0, <2>2 DEF Sh!Backend!StartContainer
  <2>3. CASE Sh!Backend!ExitContainer(c)
    <3>1. PICK n \in Codes : ct' = [ct EXCEPT ![c].state = "Exited", ![c].code = n]
      BY <2>3 DEF Sh!Backend!ExitContainer
    <3>2. ct'[c] = [ct[c] EXCEPT !.state = "Exited", !.code = n]
          /\ \A x \in Containers \ {c} : ct'[x] = ct[x]
      BY <1>0, <3>1
    <3>3. [ct[c] EXCEPT !.state = "Exited", !.code = n] \in Records
      BY <1>0
    <3>4. ct' = [ct EXCEPT ![c] = ct'[c]]
      BY <1>0, <3>1
    <3>5. UNCHANGED <<sb, spent>>
      BY <2>3 DEF Sh!Backend!ExitContainer
    <3> HIDE DEF Records
    <3>6. QED
      BY <3>2, <3>3, <3>4, <3>5
  <2>4. CASE Sh!Backend!RemoveContainer(c)
    BY <1>0, <2>4 DEF Sh!Backend!RemoveContainer, Sh!Backend!Nothing
  <2>5. CASE Sh!Backend!Waste(c)
    BY <1>0, <2>5 DEF Sh!Backend!Waste
  <2>6. QED
    BY <2>1, <2>2, <2>3, <2>4, <2>5
<1>2. \/ c \notin spent /\ c \in spent'
      \/ ct[c].state = "Created" /\ ct'[c].state = "Running"
      \/ ct[c].state = "Running" /\ ct'[c].state = "Exited"
      \/ ct'[c].state = "absent"
  <2>1. CASE \E s \in Sandboxes : Sh!Backend!CreateContainer(c, s)
    BY <1>0, <2>1 DEF Sh!Backend!CreateContainer
  <2>2. CASE Sh!Backend!StartContainer(c)
    BY <1>0, <2>2 DEF Sh!Backend!StartContainer
  <2>3. CASE Sh!Backend!ExitContainer(c)
    <3>1. PICK n \in Codes : ct' = [ct EXCEPT ![c].state = "Exited", ![c].code = n]
      BY <2>3 DEF Sh!Backend!ExitContainer
    <3>2. ct'[c].state = "Exited"
      BY <1>0, <3>1
    <3>3. QED
      BY <2>3, <3>2 DEF Sh!Backend!ExitContainer
  <2>4. CASE Sh!Backend!RemoveContainer(c)
    BY <1>0, <2>4 DEF Sh!Backend!RemoveContainer, Sh!Backend!Nothing
  <2>5. CASE Sh!Backend!Waste(c)
    BY <1>0, <2>5 DEF Sh!Backend!Waste
  <2>6. QED
    BY <2>1, <2>2, <2>3, <2>4, <2>5
<1>3. LawTyped'
  BY <1>0, <1>1 DEF ShInv, ShTyped, LawTyped
<1>4. QED
  BY <1>1, <1>2, <1>3 DEF ShInv, ShTyped, SeenLaw, Moves, PodLevel, CtLevel

\* What the records do meanwhile leaves what clients have seen and stats calls have read true.
LEMMA Meanwhile ==
  ASSUME ShInv, Moves, UNCHANGED seen
  PROVE  SeenLaw' /\ \A f \in ShCalls : CallFits(f) => CallFits(f)'
<1>1. SeenLaw'
  <2>1. \A s \in Sandboxes : sb'[s] # "absent" => s \in spent'
    BY DEF Moves
  <2>2. \A c \in Containers : ct'[c].state # "absent" => c \in spent'
    BY DEF Moves
  <2>3. ASSUME NEW k \in Clients, NEW s \in Sandboxes
        PROVE  /\ s \notin spent' => seen[k][s] = 0
               /\ sb'[s] # "absent" => seen[k][s] <= PodLevel(s)'
    <3>1. seen[k][s] \in Int
      BY DEF ShInv, ShTyped
    <3>2. QED
      BY <3>1 DEF ShInv, SeenLaw, Moves, PodLevel
  <2>4. ASSUME NEW k \in Clients, NEW c \in Containers
        PROVE  /\ c \notin spent' => seen[k][c] = 0
               /\ ct'[c].state # "absent" => seen[k][c] <= CtLevel(c)'
    <3>1. seen[k][c] \in Int
      BY DEF ShInv, ShTyped
    <3>2. QED
      BY <3>1 DEF ShInv, SeenLaw, Moves, CtLevel
  <2>5. QED
    BY <2>1, <2>2, <2>3, <2>4 DEF SeenLaw
<1>2. ASSUME NEW c \in Containers, Started(c) PROVE Started(c)'
  <2>1. ASSUME ct'[c].state = "Created" PROVE FALSE
    <3>1. ct[c].state # "absent" /\ CtLevel(c) <= CtLevel(c)'
      BY <1>2, <2>1 DEF Moves, Started
    <3>2. CtLevel(c)' = 0
      BY <2>1 DEF CtLevel
    <3>3. ct[c].state \in {"absent", "Created", "Running", "Exited"}
      BY DEF ShInv, ShTyped, LawTyped
    <3>4. QED
      BY <1>2, <3>1, <3>2, <3>3 DEF CtLevel, Started
  <2>2. QED
    BY <1>2, <2>1 DEF Moves, Started
<1>3. ASSUME NEW f \in ShCalls, CallFits(f) PROVE CallFits(f)'
  <2>1. CASE f.op = "start"
    <3>1. f.ct \in Containers
      BY <2>1 DEF ShCalls, Sh!Idle
    <3>2. QED
      BY <1>2, <1>3, <2>1, <3>1 DEF CallFits
  <2>2. CASE f.op = "stats"
    <3>1. f.recs \in SUBSET [id : Containers, used : BOOLEAN]
      BY <2>2 DEF ShCalls, Sh!Idle
    <3>2. \A r \in f.recs : r.id \in Containers
      BY <3>1
    <3>3. \A r \in f.recs : r.id \in spent' /\ (r.used => Started(r.id)')
      BY <1>2, <1>3, <2>2, <3>2 DEF CallFits, Moves
    <3>4. QED
      BY <1>3, <2>2, <3>3 DEF CallFits
  <2>3. QED
    BY <2>1, <2>2 DEF CallFits
<1>4. QED
  BY <1>1, <1>3

\* What AnswersAreTrue asks of one answer, and of one client.
Right(a) ==
  /\ a.op = "list" => Sh!ListIsExact(a)
  /\ a.op = "list_pods" => Sh!PodListIsExact(a)
  /\ a.op = "stats" => Sh!StatsAreWhole(a)
  /\ a.op = "status" /\ a.code = "ok" =>
       (a.reason = "Completed") = (a.item.state = 2 /\ a.exit = 0)
  /\ Sh!ChangeIsDone(a)

Promise(k) ==
  /\ \A x \in DOMAIN seen[k] : seen'[k][x] >= seen[k][x]
  /\ answer'[k] # answer[k] => Right(answer'[k])

\* A call goes on, or is answered, and shows its client nothing.
LEMMA Advances ==
  ASSUME ShInv, Moves, UNCHANGED seen, NEW k \in Clients, NEW f \in ShCalls, CallFits(f)', NEW a,
         call' = [call EXCEPT ![k] = f], answer' = [answer EXCEPT ![k] = a], Right(a)
  PROVE  ShInv' /\ \A j \in Clients : Promise(j)
<1>1. call \in [Clients -> ShCalls] /\ answer = [j \in Clients |-> answer[j]]
      /\ seen \in [Clients -> [Sandboxes \cup Containers -> Int]]
  BY DEF ShInv, ShTyped
<1>2. ShTyped'
  BY <1>1 DEF Moves, ShTyped
<1>3. \A j \in Clients : CallFits(call[j])'
  BY <1>1, Meanwhile DEF ShInv
<1>4. \A j \in Clients : Promise(j)
  BY <1>1 DEF Promise
<1>5. QED
  BY <1>2, <1>3, <1>4, Meanwhile DEF ShInv

\* The records move while every call stays where it is.
LEMMA Waits ==
  ASSUME ShInv, Moves, UNCHANGED <<call, answer, seen>>
  PROVE  ShInv' /\ \A j \in Clients : Promise(j)
<1>1. seen \in [Clients -> [Sandboxes \cup Containers -> Int]]
  BY DEF ShInv, ShTyped
<1>2. ShTyped'
  BY DEF ShInv, Moves, ShTyped
<1>3. \A j \in Clients : CallFits(call[j])'
  BY Meanwhile DEF ShInv, ShTyped
<1>4. \A j \in Clients : Promise(j)
  BY <1>1 DEF Promise
<1>5. QED
  BY <1>2, <1>3, <1>4, Meanwhile DEF ShInv

\* The levels are the numbers on the wire.
LEMMA Levels ==
  ASSUME ShInv
  PROVE  /\ \A s \in Sandboxes : sb[s] # "absent" => Sh!WirePodState[sb[s]] = PodLevel(s)
         /\ \A c \in Containers : Sh!Exists(c) => Sh!WireState[ct[c].state] = CtLevel(c)
  BY DEF ShInv, ShTyped, LawTyped, Sh!WirePodState, Sh!WireState, PodLevel, CtLevel, Sh!Exists

\* A call shows its client records as they are.
LEMMA Shows ==
  ASSUME ShInv, UNCHANGED <<sb, ct, spent>>, NEW k \in Clients, NEW a, Sh!Reply(k, a), Right(a),
         NEW items, Sh!Sees(k, items),
         \A i \in items :
           \/ \E s \in Sandboxes : sb[s] # "absent" /\ i = Sh!ShownPod(s)
           \/ \E c \in Containers : Sh!Exists(c) /\ i = Sh!Shown(c)
  PROVE  ShInv' /\ \A j \in Clients : Promise(j)
<1>1. /\ call \in [Clients -> ShCalls] /\ answer = [j \in Clients |-> answer[j]]
      /\ seen \in [Clients -> [Sandboxes \cup Containers -> Int]]
  BY DEF ShInv, ShTyped
<1>2. /\ call' = [call EXCEPT ![k] = Sh!Idle] /\ answer' = [answer EXCEPT ![k] = a]
  BY DEF Sh!Reply
<1>3. ASSUME NEW i \in items
      PROVE  /\ i.id \in Sandboxes => sb[i.id] # "absent" /\ i.state = PodLevel(i.id)
             /\ i.id \in Containers => Sh!Exists(i.id) /\ i.state = CtLevel(i.id)
  <2>1. Sandboxes \cap Containers = {}
    BY PartsConstantsOK DEF Sh!ShellConstants
  <2>2. CASE \E s \in Sandboxes : sb[s] # "absent" /\ i = Sh!ShownPod(s)
    BY <2>1, <2>2, Levels DEF Sh!ShownPod
  <2>3. CASE \E c \in Containers : Sh!Exists(c) /\ i = Sh!Shown(c)
    BY <2>1, <2>3, Levels DEF Sh!Shown
  <2>4. QED
    BY <2>2, <2>3
<1>4. /\ seen' \in [Clients -> [Sandboxes \cup Containers -> Int]]
      /\ \A j \in Clients \ {k} : seen'[j] = seen[j]
      /\ \A s \in Sandboxes : seen'[k][s] = seen[k][s]
                              \/ (sb[s] # "absent" /\ seen'[k][s] = PodLevel(s))
      /\ \A c \in Containers : seen'[k][c] = seen[k][c]
                               \/ (Sh!Exists(c) /\ seen'[k][c] = CtLevel(c))
  <2> DEFINE one(x) == CHOOSE i \in items : i.id = x
             now(x) == IF \E i \in items : i.id = x THEN one(x).state ELSE seen[k][x]
  <2>1. seen' = [seen EXCEPT ![k] = [x \in Sandboxes \cup Containers |-> now(x)]]
    BY DEF Sh!Sees
  <2>2. ASSUME NEW x \in Sandboxes \cup Containers
        PROVE  /\ now(x) \in Int
               /\ x \in Sandboxes => now(x) = seen[k][x] \/ (sb[x] # "absent" /\ now(x) = PodLevel(x))
               /\ x \in Containers => now(x) = seen[k][x] \/ (Sh!Exists(x) /\ now(x) = CtLevel(x))
    <3>1. CASE \E i \in items : i.id = x
      <4>1. one(x) \in items /\ one(x).id = x
        BY <3>1
      <4>2. now(x) = one(x).state
        BY <3>1
      <4>3. /\ x \in Sandboxes => sb[x] # "absent" /\ now(x) = PodLevel(x)
            /\ x \in Containers => Sh!Exists(x) /\ now(x) = CtLevel(x)
        BY <1>3, <4>1, <4>2
      <4>4. PodLevel(x) \in Int /\ CtLevel(x) \in Int
        BY DEF PodLevel, CtLevel
      <4>5. QED
        BY <4>3, <4>4
    <3>2. CASE ~(\E i \in items : i.id = x)
      BY <1>1, <3>2
    <3>3. QED
      BY <3>1, <3>2
  <2> HIDE DEF now
  <2>3. QED
    BY <1>1, <2>1, <2>2
<1>5. ShTyped'
  BY <1>1, <1>2, <1>4 DEF ShInv, ShTyped, LawTyped, ShCalls
<1>6. SeenLaw'
  BY <1>4 DEF ShInv, SeenLaw, PodLevel, CtLevel, Sh!Exists
<1>7. \A j \in Clients : CallFits(call[j])'
  BY <1>1, <1>2 DEF ShInv, CallFits, Started, Sh!Idle
<1>8. \A j \in Clients : Promise(j)
  <2>1. \A j \in Clients : answer'[j] # answer[j] => Right(answer'[j])
    BY <1>1, <1>2
  <2>2. ASSUME NEW j \in Clients, NEW x \in DOMAIN seen[j] PROVE seen'[j][x] >= seen[j][x]
    <3>1. x \in Sandboxes \cup Containers /\ seen[j][x] \in Int
      BY <1>1
    <3>2. /\ x \in Sandboxes /\ sb[x] # "absent" => seen[j][x] <= PodLevel(x)
          /\ x \in Containers /\ Sh!Exists(x) => seen[j][x] <= CtLevel(x)
      BY DEF ShInv, SeenLaw, Sh!Exists
    <3>3. PodLevel(x) \in Int /\ CtLevel(x) \in Int
      BY DEF PodLevel, CtLevel
    <3>4. seen'[j][x] = seen[j][x] \/ (x \in Sandboxes /\ sb[x] # "absent" /\ seen'[j][x] = PodLevel(x))
          \/ (x \in Containers /\ Sh!Exists(x) /\ seen'[j][x] = CtLevel(x))
      BY <1>4, <3>1
    <3>5. QED
      BY <3>1, <3>2, <3>3, <3>4
  <2>3. QED
    BY <2>1, <2>2 DEF Promise
<1>9. QED
  BY <1>5, <1>6, <1>7, <1>8 DEF ShInv

\* The number a state is asked by is the number it is shown with; a number that no container
\* has asks for none.
LEMMA StateNumbers ==
  ASSUME ShInv, NEW c \in Containers, Sh!Exists(c), NEW n \in Int
  PROVE  ct[c].state = Sh!StateOfWire(n) <=> n = Sh!WireState[ct[c].state]
<1>1. ct[c].state \in {"Created", "Running", "Exited"}
  BY DEF ShInv, ShTyped, LawTyped, Sh!Exists
<1>2. /\ Sh!WireState["Created"] = 0 /\ Sh!WireState["Running"] = 1 /\ Sh!WireState["Exited"] = 2
      /\ Sh!WireState["Unknown"] = 3
      /\ DOMAIN Sh!WireState = {"Created", "Running", "Exited", "Unknown"}
  BY DEF Sh!WireState
<1>3. CASE n \in 0..2
  <2>1. \E s \in DOMAIN Sh!WireState : Sh!WireState[s] = n
    BY <1>2, <1>3
  <2>2. Sh!StateOfWire(n) \in DOMAIN Sh!WireState /\ Sh!WireState[Sh!StateOfWire(n)] = n
    BY <1>3, <2>1 DEF Sh!StateOfWire
  <2>3. QED
    BY <1>1, <1>2, <2>2
<1>4. CASE n \notin 0..2
  <2>1. Sh!StateOfWire(n) = "Unknown"
    BY <1>4 DEF Sh!StateOfWire
  <2>2. QED
    BY <1>1, <1>2, <1>4, <2>1
<1>5. QED
  BY <1>3, <1>4

\* The filters the backend is given ask for what the client asked for.
LEMMA FiltersAsk ==
  ASSUME ShInv, NEW f \in Filters, NEW c \in Containers
  PROVE  Sh!Matches(c, f) <=> Sh!Exists(c) /\ Sh!Asked(f, Sh!Shown(c))
<1>1. f.state \in Int \cup {None} /\ None \notin Int
  BY PartsConstantsOK DEF Sh!ShellConstants
<1>2. CASE Sh!Exists(c)
  <2>1. f.state # None => (ct[c].state = Sh!StateOfWire(f.state) <=> f.state = Sh!WireState[ct[c].state])
    BY <1>1, <1>2, StateNumbers
  <2>2. QED
    BY <1>2, <2>1 DEF Sh!Matches, Sh!Asked, Sh!AskedButState, Sh!Shown
<1>3. CASE ~Sh!Exists(c)
  BY <1>3 DEF Sh!Matches
<1>4. QED
  BY <1>2, <1>3

\* The same of sandboxes, which have two states: whatever is not 0 asks for the second.
LEMMA PodFiltersAsk ==
  ASSUME ShInv, NEW f \in PodFilters, NEW s \in Sandboxes
  PROVE  Sh!PodMatches(s, f) <=> sb[s] # "absent" /\ Sh!PodAsked(f, Sh!ShownPod(s))
<1>1. f.sandbox = None /\ f.state \in Int \cup {None}
  BY PartsConstantsOK DEF Sh!ShellConstants
<1>2. sb[s] \in {"absent", "Ready", "NotReady"}
  BY DEF ShInv, ShTyped, LawTyped
<1>3. Sh!WirePodState["Ready"] = 0 /\ Sh!WirePodState["NotReady"] = 1
  BY DEF Sh!WirePodState
<1>4. sb[s] # "absent" =>
        ((sb[s] = Sh!PodStateOfWire(f.state)) <=> (f.state = 0) = (Sh!WirePodState[sb[s]] = 0))
  BY <1>2, <1>3 DEF Sh!PodStateOfWire
<1>5. QED
  BY <1>1, <1>4 DEF Sh!PodMatches, Sh!PodAsked, Sh!AskedButState, Sh!ShownPod

\* An answer that says nothing but how the call ended.
LEMMA Replies ==
  ASSUME ShInv, Moves, UNCHANGED seen, NEW k \in Clients, NEW a, Sh!Reply(k, a), Right(a)
  PROVE  ShInv' /\ \A j \in Clients : Promise(j)
<1>1. Sh!Idle \in ShCalls /\ CallFits(Sh!Idle)'
  BY DEF ShCalls, CallFits, Sh!Idle
<1>2. QED
  BY <1>1, Advances DEF Sh!Reply

\* A call that ends without showing anything.
LEMMA DoneIsRight ==
  ASSUME ShInv, Moves, NEW k \in Clients, NEW op, op \notin {"list", "list_pods", "stats", "status"},
         NEW x, NEW code, Sh!Done(k, op, x, code), Sh!ChangeIsDone([op |-> op, id |-> x, code |-> code])
  PROVE  ShInv' /\ \A j \in Clients : Promise(j)
<1>1. Right([op |-> op, id |-> x, code |-> code])
  BY DEF Right
<1>2. QED
  BY <1>1, Replies DEF Sh!Done

\* A call that is refused, or of the stats, because a container is gone.
LEMMA FailIsRight ==
  ASSUME ShInv, NEW k \in Clients, NEW op, NEW err \in DOMAIN Sh!MapErr,
         op \in {"run", "create", "start", "pod_status", "status", "stats"},
         op = "stats" => err = "NotFound", Sh!Fail(k, op, err)
  PROVE  ShInv' /\ \A j \in Clients : Promise(j)
<1>1. Sh!MapErr[err] # "ok" /\ Sh!MapErr["NotFound"] = "not_found"
  BY DEF Sh!MapErr
<1>2. Right([op |-> op, code |-> Sh!MapErr[err]])
  BY <1>1 DEF Right, Sh!StatsAreWhole, Sh!ChangeIsDone
<1>3. QED
  BY <1>2, Replies, RestMoves DEF Sh!Fail, Sh!law

\* What the backend's calls leave.
LEMMA PodsEnd ==
  ASSUME ShInv, NEW s \in Sandboxes
  PROVE  /\ Sh!Backend!StopSandbox(s) => sb'[s] = "NotReady"
         /\ Sh!Backend!RemoveSandbox(s) => sb'[s] = "absent"
  BY DEF ShInv, ShTyped, LawTyped, Sh!Backend!StopSandbox, Sh!Backend!RemoveSandbox

\* The same of containers.
LEMMA ContainersEnd ==
  ASSUME ShInv, NEW c \in Containers
  PROVE  /\ Sh!Backend!ExitContainer(c) => ct'[c].state = "Exited" /\ UNCHANGED sb
         /\ Sh!Backend!RemoveContainer(c) => ct'[c].state = "absent" /\ UNCHANGED sb
         /\ Sh!Backend!StartContainer(c) => ct'[c].state = "Running"
<1>1. DOMAIN ct = Containers /\ ct[c] = [state |-> ct[c].state, sandbox |-> ct[c].sandbox, code |-> ct[c].code]
  BY DEF ShInv, ShTyped, LawTyped
<1>2. Sh!Backend!ExitContainer(c) => ct'[c].state = "Exited" /\ UNCHANGED sb
  BY <1>1 DEF Sh!Backend!ExitContainer
<1>3. Sh!Backend!RemoveContainer(c) => ct'[c].state = "absent" /\ UNCHANGED sb
  BY <1>1 DEF Sh!Backend!RemoveContainer, Sh!Backend!Nothing
<1>4. Sh!Backend!StartContainer(c) => ct'[c].state = "Running"
  BY <1>1 DEF Sh!Backend!StartContainer
<1>5. QED
  BY <1>2, <1>3, <1>4

\* The calls that change something.
LEMMA CallsThatChange ==
  ASSUME ShInv, NEW k \in Clients,
         \/ Sh!RemovePodStep(k) \/ Sh!SpawnStep(k)
         \/ \E config \in Sh!Configs :
              \/ Sh!RunPodSandbox(k, config)
              \/ \E s \in Sandboxes : Sh!CreateContainer(k, s, config)
         \/ \E s \in Sandboxes : Sh!StopPodSandbox(k, s) \/ Sh!RemovePodSandbox(k, s)
         \/ \E c \in Containers :
              Sh!StartContainer(k, c) \/ Sh!StopContainer(k, c) \/ Sh!RemoveContainer(k, c)
  PROVE  ShInv' /\ \A j \in Clients : Promise(j)
<1> DEFINE Kept == ShInv' /\ \A j \in Clients : Promise(j)
<1>e. /\ "InvalidArgument" \in DOMAIN Sh!MapErr /\ "NotFound" \in DOMAIN Sh!MapErr
      /\ "FailedPrecondition" \in DOMAIN Sh!MapErr /\ Sh!MapErr["Io"] = "internal"
  BY DEF Sh!MapErr
\* An answer, by its call, with what it has to say of the record.
<1>a. ASSUME NEW op \in {"run", "create", "start", "stop", "stop_pod", "remove", "remove_pod"},
             NEW x, NEW code \in {"ok", "internal"}, Moves, Sh!Done(k, op, x, code),
             op = "start" /\ code = "ok" => ct'[x].state # "Created",
             op = "stop" /\ code # "ok" => ct'[x].state = "Exited",
             op = "stop_pod" => sb'[x] # "Ready",
             op = "remove" => ct'[x].state = (IF code = "ok" THEN "absent" ELSE "Exited"),
             op = "remove_pod" => sb'[x] = (IF code = "ok" THEN "absent" ELSE "NotReady")
      PROVE  Kept
  <2>1. Sh!ChangeIsDone([op |-> op, id |-> x, code |-> code])
    BY <1>a DEF Sh!ChangeIsDone
  <2>2. QED
    BY <1>a, <2>1, DoneIsRight
<1>o. ASSUME NEW op, NEW x PROVE /\ Sh!Ok(k, op, x) <=> Sh!Done(k, op, x, "ok")
                                 /\ Sh!Error(k, op, x) <=> Sh!Done(k, op, x, "internal")
  BY <1>e DEF Sh!Ok, Sh!Error
<1>1. CASE Sh!RemovePodStep(k)
  <2> DEFINE s == call[k].sb
             Wait == UNCHANGED <<call, answer, seen>>
  <2>1. s \in Sandboxes
    <3>1. call[k] \in ShCalls /\ call[k].op = "remove_pod"
      BY <1>1 DEF ShInv, ShTyped, Sh!RemovePodStep
    <3>2. QED
      BY <3>1 DEF ShCalls, Sh!Idle
  <2>d. \/ sb[s] = "Ready" /\ Sh!Backend!StopSandbox(s) /\ (Wait \/ Sh!Error(k, "remove_pod", s))
        \/ sb[s] = "NotReady" /\ \E c \in Sh!Backend!Members(s) :
             \/ Sh!Backend!RemoveContainer(c) /\ Wait
             \/ Sh!Backend!ExitContainer(c) /\ Sh!Error(k, "remove_pod", s)
        \/ sb[s] = "NotReady" /\ Sh!Backend!RemoveSandbox(s) /\ Sh!Ok(k, "remove_pod", s)
        \/ sb[s] = "absent" /\ UNCHANGED <<sb, ct, spent>> /\ Sh!Ok(k, "remove_pod", s)
    BY <1>1 DEF Sh!RemovePodStep, Sh!law
  <2> HIDE DEF s
  <2>2. CASE Sh!Backend!StopSandbox(s) /\ Wait
    BY <2>1, <2>2, PodMoves, Waits
  <2>3. CASE Sh!Backend!StopSandbox(s) /\ Sh!Error(k, "remove_pod", s)
    <3>1. Moves /\ sb'[s] = "NotReady" /\ Sh!Done(k, "remove_pod", s, "internal")
      BY <1>o, <2>1, <2>3, PodMoves, PodsEnd
    <3>2. QED
      BY <1>a, <3>1
  <2>4. ASSUME NEW c \in Sh!Backend!Members(s), Sh!Backend!RemoveContainer(c), Wait PROVE Kept
    <3>1. c \in Containers
      BY DEF Sh!Backend!Members
    <3>2. QED
      BY <2>4, <3>1, ContainerMoves, Waits
  <2>5. ASSUME NEW c \in Sh!Backend!Members(s), sb[s] = "NotReady", Sh!Backend!ExitContainer(c),
               Sh!Error(k, "remove_pod", s)
        PROVE  Kept
    <3>1. c \in Containers
      BY DEF Sh!Backend!Members
    <3>2. Moves /\ sb'[s] = "NotReady" /\ Sh!Done(k, "remove_pod", s, "internal")
      BY <1>o, <2>5, <3>1, ContainerMoves, ContainersEnd
    <3>3. QED
      BY <1>a, <3>2
  <2>6. CASE Sh!Backend!RemoveSandbox(s) /\ Sh!Ok(k, "remove_pod", s)
    <3>1. Moves /\ sb'[s] = "absent" /\ Sh!Done(k, "remove_pod", s, "ok")
      BY <1>o, <2>1, <2>6, PodMoves, PodsEnd
    <3>2. QED
      BY <1>a, <3>1
  <2>7. CASE sb[s] = "absent" /\ UNCHANGED <<sb, ct, spent>> /\ Sh!Ok(k, "remove_pod", s)
    <3>1. Moves /\ sb'[s] = "absent" /\ Sh!Done(k, "remove_pod", s, "ok")
      BY <1>o, <2>7, RestMoves
    <3>2. QED
      BY <1>a, <3>1
  <2>8. QED
    BY <2>d, <2>2, <2>3, <2>4, <2>5, <2>6, <2>7
<1>2. ASSUME NEW config, Sh!RunPodSandbox(k, config) PROVE Kept
  <2>1. CASE Sh!Fail(k, "run", "InvalidArgument")
    BY <1>e, <2>1, FailIsRight
  <2>2. ASSUME NEW s \in Sandboxes, Sh!Backend!RunSandbox(s) \/ Sh!Backend!Waste(s),
               Sh!Ok(k, "run", s) \/ Sh!Error(k, "run", s)
        PROVE  Kept
    <3>1. Moves
      BY <2>2, PodMoves
    <3>2. QED
      BY <1>a, <1>o, <2>2, <3>1
  <2>3. QED
    BY <1>2, <2>1, <2>2 DEF Sh!RunPodSandbox
<1>3. ASSUME NEW config, NEW s \in Sandboxes, Sh!CreateContainer(k, s, config) PROVE Kept
  <2>1. CASE \E err \in {"InvalidArgument", "NotFound", "FailedPrecondition"} : Sh!Fail(k, "create", err)
    BY <1>e, <2>1, FailIsRight
  <2>2. ASSUME NEW c \in Containers, Sh!Backend!CreateContainer(c, s) \/ Sh!Backend!Waste(c),
               Sh!Ok(k, "create", c) \/ Sh!Error(k, "create", c)
        PROVE  Kept
    <3>1. Moves
      BY <2>2, ContainerMoves
    <3>2. QED
      BY <1>a, <1>o, <2>2, <3>1
  <2>3. QED
    BY <1>3, <2>1, <2>2 DEF Sh!CreateContainer
<1>4. ASSUME NEW s \in Sandboxes, Sh!StopPodSandbox(k, s) PROVE Kept
  <2>1. CASE Sh!Backend!StopSandbox(s) /\ (Sh!Ok(k, "stop_pod", s) \/ Sh!Error(k, "stop_pod", s))
    <3>1. Moves /\ sb'[s] = "NotReady"
      BY <2>1, PodMoves, PodsEnd
    <3>2. QED
      BY <1>a, <1>o, <2>1, <3>1
  <2>2. CASE sb[s] # "Ready" /\ UNCHANGED <<sb, ct, spent>> /\ Sh!Ok(k, "stop_pod", s)
    <3>1. Moves /\ sb'[s] # "Ready" /\ Sh!Done(k, "stop_pod", s, "ok")
      BY <1>o, <2>2, RestMoves
    <3>2. QED
      BY <1>a, <3>1
  <2>3. QED
    BY <1>4, <2>1, <2>2 DEF Sh!StopPodSandbox, Sh!law
<1>5. ASSUME NEW s \in Sandboxes, Sh!RemovePodSandbox(k, s) PROVE Kept
  <2> DEFINE f == [op |-> "remove_pod", sb |-> s]
  <2>1. f \in ShCalls /\ CallFits(f)' /\ Right(Sh!NoAnswer)
    BY DEF ShCalls, CallFits, Right, Sh!NoAnswer, Sh!ChangeIsDone
  <2>2. /\ call' = [call EXCEPT ![k] = f] /\ answer' = [answer EXCEPT ![k] = Sh!NoAnswer]
        /\ UNCHANGED <<sb, ct, spent>> /\ UNCHANGED seen
    BY <1>5 DEF Sh!RemovePodSandbox, Sh!Goto, Sh!law
  <2> HIDE DEF f
  <2>3. QED
    BY <2>1, <2>2, RestMoves, Advances
<1>6. ASSUME NEW c \in Containers, Sh!StartContainer(k, c) PROVE Kept
  <2>1. CASE \E err \in {"NotFound", "FailedPrecondition"} : Sh!Fail(k, "start", err)
    BY <1>e, <2>1, FailIsRight
  <2>2. CASE UNCHANGED <<sb, ct, spent>> /\ Sh!Error(k, "start", c)
    <3>1. Moves /\ Sh!Done(k, "start", c, "internal")
      BY <1>o, <2>2, RestMoves
    <3>2. QED
      BY <1>a, <3>1
  <2>3. CASE Sh!Backend!StartContainer(c) /\ UNCHANGED seen /\ Sh!Goto(k, [op |-> "start", ct |-> c])
    <3> DEFINE f == [op |-> "start", ct |-> c]
    <3>1. Moves /\ ct'[c].state = "Running"
      BY <2>3, ContainerMoves, ContainersEnd
    <3>2. c \in spent'
      BY <3>1 DEF Moves
    <3>3. f \in ShCalls /\ CallFits(f)' /\ Right(Sh!NoAnswer)
      BY <3>1, <3>2 DEF ShCalls, CallFits, Started, Right, Sh!NoAnswer, Sh!ChangeIsDone
    <3>4. call' = [call EXCEPT ![k] = f] /\ answer' = [answer EXCEPT ![k] = Sh!NoAnswer]
      BY <2>3 DEF Sh!Goto
    <3> HIDE DEF f
    <3>5. QED
      BY <2>3, <3>1, <3>3, <3>4, Advances
  <2>4. QED
    BY <1>6, <2>1, <2>2, <2>3 DEF Sh!StartContainer, Sh!law
<1>7. CASE Sh!SpawnStep(k)
  <2> DEFINE c == call[k].ct
  <2>1. c \in Containers /\ Started(c)
    <3>1. call[k] \in ShCalls /\ call[k].op = "start" /\ CallFits(call[k])
      BY <1>7 DEF ShInv, ShTyped, Sh!SpawnStep
    <3>2. QED
      BY <3>1 DEF ShCalls, CallFits, Sh!Idle
  <2>d. \/ UNCHANGED <<sb, ct, spent>> /\ (Sh!Ok(k, "start", c) \/ Sh!Error(k, "start", c))
        \/ Sh!Backend!ExitContainer(c) /\ Sh!Error(k, "start", c)
    BY <1>7 DEF Sh!SpawnStep, Sh!law
  <2> HIDE DEF c
  <2>2. CASE UNCHANGED <<sb, ct, spent>> /\ (Sh!Ok(k, "start", c) \/ Sh!Error(k, "start", c))
    <3>1. Moves /\ ct'[c].state # "Created"
      BY <2>1, <2>2, RestMoves DEF Started
    <3>2. QED
      BY <1>a, <1>o, <2>2, <3>1
  <2>3. CASE Sh!Backend!ExitContainer(c) /\ Sh!Error(k, "start", c)
    <3>1. Moves /\ Sh!Done(k, "start", c, "internal")
      BY <1>o, <2>1, <2>3, ContainerMoves
    <3>2. QED
      BY <1>a, <3>1
  <2>4. QED
    BY <2>d, <2>2, <2>3
<1>8. ASSUME NEW c \in Containers, Sh!StopContainer(k, c) PROVE Kept
  <2>1. CASE Sh!Backend!ExitContainer(c) /\ (Sh!Ok(k, "stop", c) \/ Sh!Error(k, "stop", c))
    <3>1. Moves /\ ct'[c].state = "Exited"
      BY <2>1, ContainerMoves, ContainersEnd
    <3>2. QED
      BY <1>a, <1>o, <2>1, <3>1
  <2>2. CASE UNCHANGED <<sb, ct, spent>> /\ Sh!Ok(k, "stop", c)
    <3>1. Moves /\ Sh!Done(k, "stop", c, "ok")
      BY <1>o, <2>2, RestMoves
    <3>2. QED
      BY <1>a, <3>1
  <2>3. QED
    BY <1>8, <2>1, <2>2 DEF Sh!StopContainer, Sh!law
<1>9. ASSUME NEW c \in Containers, Sh!RemoveContainer(k, c) PROVE Kept
  <2>1. CASE Sh!Backend!RemoveContainer(c) /\ Sh!Ok(k, "remove", c)
    <3>1. Moves /\ ct'[c].state = "absent" /\ Sh!Done(k, "remove", c, "ok")
      BY <1>o, <2>1, ContainerMoves, ContainersEnd
    <3>2. QED
      BY <1>a, <3>1
  <2>2. CASE Sh!Backend!ExitContainer(c) /\ Sh!Error(k, "remove", c)
    <3>1. Moves /\ ct'[c].state = "Exited" /\ Sh!Done(k, "remove", c, "internal")
      BY <1>o, <2>2, ContainerMoves, ContainersEnd
    <3>2. QED
      BY <1>a, <3>1
  <2>3. CASE ~Sh!Exists(c) /\ UNCHANGED <<sb, ct, spent>> /\ Sh!Ok(k, "remove", c)
    <3>1. Moves /\ ct'[c].state = "absent" /\ Sh!Done(k, "remove", c, "ok")
      BY <1>o, <2>3, RestMoves DEF Sh!Exists
    <3>2. QED
      BY <1>a, <3>1
  <2>4. QED
    BY <1>9, <2>1, <2>2, <2>3 DEF Sh!RemoveContainer, Sh!law
<1>10. QED
  BY <1>1, <1>2, <1>3, <1>4, <1>5, <1>6, <1>7, <1>8, <1>9

\* The calls that look once.
LEMMA CallsThatLook ==
  ASSUME ShInv, NEW k \in Clients,
         \/ \E s \in Sandboxes : Sh!PodSandboxStatus(k, s)
         \/ \E c \in Containers : Sh!ContainerStatus(k, c)
         \/ \E f \in PodFilters : Sh!ListPodSandbox(k, f)
         \/ \E f \in Filters : Sh!ListContainers(k, f)
  PROVE  ShInv' /\ \A j \in Clients : Promise(j)
<1> DEFINE Kept == ShInv' /\ \A j \in Clients : Promise(j)
<1>e. "NotFound" \in DOMAIN Sh!MapErr
  BY DEF Sh!MapErr
<1>1. ASSUME NEW s \in Sandboxes, Sh!PodSandboxStatus(k, s) PROVE Kept
  <2>1. CASE sb[s] = "absent"
    BY <1>e, <1>1, <2>1, FailIsRight DEF Sh!PodSandboxStatus
  <2>2. CASE sb[s] # "absent"
    <3> DEFINE a == [op |-> "pod_status", code |-> "ok", item |-> Sh!ShownPod(s)]
    <3>1. Sh!Reply(k, a) /\ Sh!Sees(k, {Sh!ShownPod(s)}) /\ UNCHANGED <<sb, ct, spent>>
      BY <1>1, <2>2 DEF Sh!PodSandboxStatus, Sh!law
    <3>2. Right(a)
      BY DEF Right, Sh!ChangeIsDone
    <3> HIDE DEF a
    <3>3. QED
      BY <2>2, <3>1, <3>2, Shows
  <2>3. QED
    BY <2>1, <2>2
<1>2. ASSUME NEW c \in Containers, Sh!ContainerStatus(k, c) PROVE Kept
  <2>1. CASE ~Sh!Exists(c)
    BY <1>e, <1>2, <2>1, FailIsRight DEF Sh!ContainerStatus
  <2>2. CASE Sh!Exists(c)
    <3> DEFINE a == [op |-> "status", code |-> "ok", item |-> Sh!Shown(c), exit |-> ct[c].code,
                     reason |-> Sh!Reason(c)]
    <3>1. Sh!Reply(k, a) /\ Sh!Sees(k, {Sh!Shown(c)}) /\ UNCHANGED <<sb, ct, spent>>
      BY <1>2, <2>2 DEF Sh!ContainerStatus, Sh!law
    <3>2. Sh!Shown(c).state = CtLevel(c)
      BY <2>2, Levels DEF Sh!Shown
    <3>3. (Sh!Reason(c) = "Completed") = (Sh!Shown(c).state = 2 /\ ct[c].code = 0)
      BY <3>2 DEF Sh!Reason, CtLevel
    <3>4. Right(a)
      BY <3>3 DEF Right, Sh!ChangeIsDone
    <3> HIDE DEF a
    <3>5. QED
      BY <2>2, <3>1, <3>4, Shows
  <2>3. QED
    BY <2>1, <2>2
<1>3. ASSUME NEW f \in PodFilters, Sh!ListPodSandbox(k, f) PROVE Kept
  <2> DEFINE items == {Sh!ShownPod(s) : s \in {x \in Sandboxes : Sh!PodMatches(x, f)}}
             a == [op |-> "list_pods", code |-> "ok", filter |-> f, items |-> items]
  <2>1. Sh!Reply(k, a) /\ Sh!Sees(k, items) /\ UNCHANGED <<sb, ct, spent>>
    BY <1>3 DEF Sh!ListPodSandbox, Sh!law
  <2>2. {x \in Sandboxes : Sh!PodMatches(x, f)}
          = {x \in Sandboxes : sb[x] # "absent" /\ Sh!PodAsked(f, Sh!ShownPod(x))}
    BY PodFiltersAsk
  <2>3. Sh!PodListIsExact(a)
    BY <2>2 DEF Sh!PodListIsExact
  <2>4. Right(a)
    BY <2>3 DEF Right, Sh!ChangeIsDone
  <2>5. \A i \in items : \E s \in Sandboxes : sb[s] # "absent" /\ i = Sh!ShownPod(s)
    BY DEF Sh!PodMatches
  <2> HIDE DEF items, a
  <2>6. QED
    BY <2>1, <2>4, <2>5, Shows
<1>4. ASSUME NEW f \in Filters, Sh!ListContainers(k, f) PROVE Kept
  <2> DEFINE items == {Sh!Shown(c) : c \in {x \in Containers : Sh!Matches(x, f)}}
             a == [op |-> "list", code |-> "ok", filter |-> f, items |-> items]
  <2>1. Sh!Reply(k, a) /\ Sh!Sees(k, items) /\ UNCHANGED <<sb, ct, spent>>
    BY <1>4 DEF Sh!ListContainers, Sh!law
  <2>2. {x \in Containers : Sh!Matches(x, f)}
          = {x \in Containers : Sh!Exists(x) /\ Sh!Asked(f, Sh!Shown(x))}
    BY FiltersAsk
  <2>3. Sh!ListIsExact(a)
    BY <2>2 DEF Sh!ListIsExact
  <2>4. Right(a)
    BY <2>3 DEF Right, Sh!ChangeIsDone
  <2>5. \A i \in items : \E c \in Containers : Sh!Exists(c) /\ i = Sh!Shown(c)
    BY DEF Sh!Matches
  <2> HIDE DEF items, a
  <2>6. QED
    BY <2>1, <2>4, <2>5, Shows
<1>5. QED
  BY <1>1, <1>2, <1>3, <1>4

\* The stats: the ids first, then one container after the other, then the names.
LEMMA CallsForStats ==
  ASSUME ShInv, NEW k \in Clients,
         \/ Sh!StatsNames(k)
         \/ \E c \in Containers : Sh!ContainerStats(k, c) \/ Sh!StatsRead(k, c)
         \/ \E f \in Filters : Sh!ListContainerStats(k, f)
  PROVE  ShInv' /\ \A j \in Clients : Promise(j)
<1> DEFINE Kept == ShInv' /\ \A j \in Clients : Promise(j)
           Frame(ids, todo, recs) == [op |-> "stats", ids |-> ids, todo |-> todo, recs |-> recs]
<1>e. "NotFound" \in DOMAIN Sh!MapErr
  BY DEF Sh!MapErr
<1>f. Right(Sh!NoAnswer)
  BY DEF Right, Sh!NoAnswer, Sh!ChangeIsDone
<1>1. ASSUME NEW ids \in SUBSET Containers, Sh!Goto(k, Frame(ids, ids, {})), UNCHANGED <<sb, ct, spent>>,
             UNCHANGED seen
      PROVE  Kept
  <2> DEFINE f == Frame(ids, ids, {})
  <2>1. f \in ShCalls /\ CallFits(f)'
    BY DEF ShCalls, CallFits
  <2>2. call' = [call EXCEPT ![k] = f] /\ answer' = [answer EXCEPT ![k] = Sh!NoAnswer]
    BY <1>1 DEF Sh!Goto
  <2> HIDE DEF f
  <2>3. QED
    BY <1>1, <1>f, <2>1, <2>2, RestMoves, Advances
<1>2. ASSUME NEW c \in Containers, Sh!ContainerStats(k, c) PROVE Kept
  BY <1>1, <1>2 DEF Sh!ContainerStats, Sh!law
<1>3. ASSUME NEW g \in Filters, Sh!ListContainerStats(k, g) PROVE Kept
  <2> DEFINE ids == {c \in Containers : Sh!Matches(c, Sh!StatsFilter(g))}
  <2>1. ids \in SUBSET Containers /\ Sh!Goto(k, Frame(ids, ids, {})) /\ UNCHANGED <<sb, ct, spent>>
        /\ UNCHANGED seen
    BY <1>3 DEF Sh!ListContainerStats, Sh!law
  <2> HIDE DEF ids
  <2>2. QED
    BY <1>1, <2>1
<1>4. ASSUME NEW c \in Containers, Sh!StatsRead(k, c) PROVE Kept
  <2>1. call[k] \in ShCalls /\ call[k].op = "stats" /\ CallFits(call[k]) /\ c \in call[k].todo
    BY <1>4 DEF ShInv, ShTyped, Sh!StatsRead
  <2>2. PICK ids \in SUBSET Containers, todo \in SUBSET Containers,
             recs \in SUBSET [id : Containers, used : BOOLEAN] : call[k] = Frame(ids, todo, recs)
    <3>1. call[k] \in [op : {"stats"}, ids : SUBSET Containers, todo : SUBSET Containers,
                      recs : SUBSET [id : Containers, used : BOOLEAN]]
      BY <2>1 DEF ShCalls, Sh!Idle
    <3>2. /\ call[k] = Frame(call[k].ids, call[k].todo, call[k].recs)
          /\ call[k].ids \in SUBSET Containers /\ call[k].todo \in SUBSET Containers
          /\ call[k].recs \in SUBSET [id : Containers, used : BOOLEAN]
      BY <3>1
    <3>3. QED
      BY <3>2
  <2>3. CASE ~Sh!Exists(c)
    BY <1>e, <1>4, <2>3, FailIsRight DEF Sh!StatsRead
  <2>4. CASE Sh!Exists(c)
    <3>1. PICK used \in (IF ct[c].state = "Running" THEN BOOLEAN ELSE {FALSE}) :
            Sh!Goto(k, [call[k] EXCEPT !.todo = @ \ {c}, !.recs = @ \cup {[id |-> c, used |-> used]}])
      BY <1>4, <2>4 DEF Sh!StatsRead
    <3> DEFINE r == [id |-> c, used |-> used]
               f == Frame(ids, todo \ {c}, recs \cup {r})
    <3>2. UNCHANGED <<sb, ct, spent>> /\ UNCHANGED seen
      BY <1>4, <2>4 DEF Sh!StatsRead, Sh!law
    <3>3. [call[k] EXCEPT !.todo = @ \ {c}, !.recs = @ \cup {r}] = f
      <4> DEFINE F == [op : {"stats"}, ids : SUBSET Containers, todo : SUBSET Containers,
                       recs : SUBSET [id : Containers, used : BOOLEAN]]
                 g == [call[k] EXCEPT !.todo = @ \ {c}, !.recs = @ \cup {r}]
      <4>1. call[k] \in F /\ r \in [id : Containers, used : BOOLEAN]
        <5>1. Frame(ids, todo, recs) \in F
          OBVIOUS
        <5>2. used \in BOOLEAN
          BY <3>1
        <5>3. QED
          BY <2>2, <5>1, <5>2
      <4>2. g.op = "stats" /\ g.ids = ids /\ g.todo = todo \ {c} /\ g.recs = recs \cup {r}
        BY <2>2, <4>1
      <4>3. g \in F
        BY <4>1
      <4> HIDE DEF g
      <4>4. g = [op |-> g.op, ids |-> g.ids, todo |-> g.todo, recs |-> g.recs]
        BY <4>3
      <4>5. g = f
        BY <4>2, <4>4
      <4>6. QED
        BY <4>5 DEF g
    <3>4. call' = [call EXCEPT ![k] = f] /\ answer' = [answer EXCEPT ![k] = Sh!NoAnswer]
      BY <3>1, <3>3 DEF Sh!Goto
    <3>5. r \in [id : Containers, used : BOOLEAN] /\ r.id = c
          /\ (r.used => Started(c)) /\ c \in spent
      BY <2>4, <3>1 DEF ShInv, SeenLaw, Sh!Exists, Started
    <3> HIDE DEF r
    <3>6. f \in ShCalls
      BY <2>2, <3>5 DEF ShCalls
    <3>7. ids = todo \cup {x.id : x \in recs} /\ c \in todo
          /\ \A x \in recs : x.id \in spent /\ (x.used => Started(x.id))
      BY <2>1, <2>2 DEF CallFits
    <3>8. ids = (todo \ {c}) \cup {x.id : x \in recs \cup {r}}
      BY <3>5, <3>7
    <3>9. CallFits(f)
      BY <3>5, <3>7, <3>8 DEF CallFits
    <3> HIDE DEF f
    <3>10. CallFits(f)'
      BY <3>2, <3>9 DEF CallFits, Started
    <3>11. QED
      BY <1>f, <3>2, <3>4, <3>6, <3>10, RestMoves, Advances
  <2>5. QED
    BY <2>3, <2>4
<1>5. CASE Sh!StatsNames(k)
  <2>1. call[k] \in ShCalls /\ call[k].op = "stats" /\ CallFits(call[k]) /\ call[k].todo = {}
    BY <1>5 DEF ShInv, ShTyped, Sh!StatsNames
  <2> DEFINE ids == call[k].ids
             recs == call[k].recs
             stats == {[id |-> r.id, used |-> r.used, named |-> Sh!Exists(r.id)] : r \in recs}
             a == [op |-> "stats", code |-> "ok", ids |-> ids, stats |-> stats]
  <2>2. Sh!Reply(k, a) /\ UNCHANGED <<sb, ct, spent>> /\ UNCHANGED seen
    BY <1>5 DEF Sh!StatsNames, Sh!law
  <2>3. ids = {r.id : r \in recs} /\ \A r \in recs : r.used => ct[r.id].state # "Created"
    BY <2>1 DEF CallFits, Started
  <2> HIDE DEF ids, recs
  <2>4. {x.id : x \in stats} = ids
    <3>1. ASSUME NEW i \in ids PROVE \E x \in stats : x.id = i
      <4>1. PICK r \in recs : r.id = i
        BY <2>3
      <4>2. [id |-> r.id, used |-> r.used, named |-> Sh!Exists(r.id)] \in stats
        OBVIOUS
      <4>3. QED
        BY <4>1, <4>2
    <3>2. ASSUME NEW x \in stats PROVE x.id \in ids
      BY <2>3
    <3>3. QED
      BY <3>1, <3>2
  <2>5. \A x \in stats : x.named = Sh!Exists(x.id) /\ (x.named /\ x.used => ct[x.id].state # "Created")
    BY <2>3
  <2>6. Right(a)
    BY <2>4, <2>5 DEF Right, Sh!StatsAreWhole, Sh!ChangeIsDone
  <2> HIDE DEF a
  <2>7. QED
    BY <2>2, <2>6, RestMoves, Replies
<1>6. QED
  BY <1>2, <1>3, <1>4, <1>5

\* Every step of the handlers and of the programs.
LEMMA ShellSteps ==
  ASSUME ShInv, Sh!Next
  PROVE  ShInv' /\ \A j \in Clients : Promise(j)
<1>1. CASE Sh!Exits
  <2>1. UNCHANGED <<call, answer, seen>> /\ \E c \in Containers : Sh!Backend!ExitContainer(c)
    BY <1>1 DEF Sh!Exits
  <2>2. QED
    BY <2>1, ContainerMoves, Waits
<1>2. QED
  BY <1>1, CallsThatChange, CallsThatLook, CallsForStats DEF Sh!Next

\* For any sandboxes, containers, clients and filters, however their calls interleave: a list
\* or a status is exactly what was asked for and true of the records when it is answered, the
\* stats are of all the containers there were when the call came, a removal that succeeds has
\* removed and one that fails has stopped, and no client sees a sandbox or container go back.
THEOREM HandlersAnswerTruly == FairSpec => Sh!AnswersAreTrue
<1>1. Init => ShInv
  <2>1. Sh!Init => ShTyped
    BY DEF Sh!Init, Sh!Backend!Init, Sh!Backend!Nothing, ShTyped, LawTyped, ShCalls
  <2>2. Sh!Init => SeenLaw /\ \A k \in Clients : CallFits(call[k])
    BY DEF Sh!Init, Sh!Backend!Init, Sh!Backend!Nothing, SeenLaw, CallFits, Sh!Idle
  <2>3. QED
    BY <2>1, <2>2 DEF Init, ShInv
<1>2. ShInv /\ UNCHANGED sh => ShInv'
  <2>1. ASSUME ShInv, UNCHANGED sh PROVE ShInv'
    <3>1. UNCHANGED <<call, answer, seen>> /\ UNCHANGED <<sb, ct, spent>>
      BY <2>1 DEF sh
    <3>2. QED
      BY <2>1, <3>1, RestMoves, Waits
  <2>2. QED
    BY <2>1
<1>3. ShInv /\ [Next]_vars => ShInv'
  BY <1>2, ShellSteps
     DEF vars, Next, ExecSyncStep, WsStep, WsPortsStep, SpdyPortsStep, CodecStep, VectorsStep,
         ImagesStep, ShellStep
<1>4. ShInv /\ [Next]_vars => [\A k \in Clients : Promise(k)]_sh
  BY ShellSteps
     DEF vars, Next, ExecSyncStep, WsStep, WsPortsStep, SpdyPortsStep, CodecStep, VectorsStep,
         ImagesStep, ShellStep
<1>5. [\A k \in Clients : Promise(k)]_sh =>
        [\A k \in Clients :
           LET a == answer'[k] IN
           /\ \A x \in DOMAIN seen[k] : seen'[k][x] >= seen[k][x]
           /\ a # answer[k] =>
                /\ a.op = "list" => Sh!ListIsExact(a)
                /\ a.op = "list_pods" => Sh!PodListIsExact(a)
                /\ a.op = "stats" => Sh!StatsAreWhole(a)
                /\ a.op = "status" /\ a.code = "ok" =>
                     (a.reason = "Completed") = (a.item.state = 2 /\ a.exit = 0)
                /\ Sh!ChangeIsDone(a)]_Sh!shvars
  BY DEF Promise, Right, sh, Sh!shvars
<1>6. QED
  BY <1>1, <1>3, <1>4, <1>5, PTL DEF FairSpec, Sh!AnswersAreTrue
=============================================================================

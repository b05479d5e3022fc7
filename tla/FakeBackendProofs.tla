-------------------------- MODULE FakeBackendProofs --------------------------
(***************************************************************************)
(* Theorems about FakeBackend for every set of ids, pids and threads, and  *)
(* every number of crashes and file errors.                                *)
(***************************************************************************)
EXTENDS FakeBackend, TLAPS

-----------------------------------------------------------------------------
(* Lemmas about the operators records, processes and frames are built with *)

\* Every record the code builds is a record.
LEMMA RecordTypes ==
  /\ Absent \in CtRecords
  /\ \A s \in Sandboxes \cup {None} : NewRecord(s) \in CtRecords
  /\ \A rec \in CtRecords : /\ Intent(rec) \in CtRecords
                            /\ \A k \in Codes : Exited(rec, k) \in CtRecords
                            /\ Recovered(rec) \in CtRecords
                            /\ \A p \in Pids \cup {0} : [rec EXCEPT !.pid = p] \in CtRecords
  BY ZenonT(60) DEF CtRecords, Absent, NewRecord, Intent, Exited, Recovered, CtStates, Codes, LostExit

\* Every process state the kernel moves to is one.
LEMMA ProcessTypes ==
  /\ NoProcess \in Processes
  /\ \A c \in Containers \cup {None} : Spawned(c) \in Processes
  /\ \A q \in Processes : /\ Killed(q) \in Processes
                          /\ Terminated(q) \in Processes
                          /\ Orphaned(q) \in Processes
                          /\ \A k \in Codes : Ended(q, k) \in Processes
                          /\ [q EXCEPT !.st = "dead"] \in Processes
                          /\ [q EXCEPT !.st = "foreign"] \in Processes
<1>1. NoProcess \in Processes /\ \A c \in Containers \cup {None} : Spawned(c) \in Processes
  BY DEF Processes, NoProcess, Spawned, ProcStates, Codes
<1>2. ASSUME NEW q \in Processes, NEW k \in Codes PROVE Ended(q, k) \in Processes
  BY DEF Ended, Processes, ProcStates
<1>3. ASSUME NEW q \in Processes
      PROVE  /\ [q EXCEPT !.st = "dead"] \in Processes
             /\ [q EXCEPT !.st = "foreign"] \in Processes
             /\ Terminated(q) \in Processes
  BY DEF Terminated, Processes, ProcStates
<1>4. ASSUME NEW q \in Processes PROVE Killed(q) \in Processes
  <2>1. KillExit \in Codes
    BY DEF KillExit, Codes
  <2>2. QED
    BY <1>2, <1>3, <2>1 DEF Killed
<1>5. ASSUME NEW q \in Processes PROVE Orphaned(q) \in Processes
  BY DEF Orphaned, Processes, ProcStates
<1>6. QED
  BY <1>1, <1>2, <1>3, <1>4, <1>5

\* A thread starts and ends with an idle frame.
LEMMA IdleFrameType == IdleFrame \in Frames
  BY RecordTypes DEF IdleFrame, Frames, Ops

-----------------------------------------------------------------------------
(* Type correctness.  Typing alone is not inductive: a step writes the record *)
(* of the container its frame names, so the frame of a thread must fit the    *)
(* place it stands at.  StepsFit says so: a step is reached only by the calls *)
(* it is part of, with their ids filled in.                                   *)

RunLabels    == {"run_write", "run_insert"}
StopSbLabels == {"ss_mark", "ss_write"}
RemSbLabels  == {"rs_scan", "rs_next", "rs_drop", "rs_unlink"}
CreateLabels == {"cc_check", "cc_write", "cc_insert"}
StartLabels  == {"st_check", "st_intent", "st_intent_write", "st_spawn", "st_failed",
                 "st_failed_write", "st_io", "st_pid", "st_pid_write"}
StopLabels   == {"sc_check", "sc_term", "sc_grace", "sc_kill", "sc_wait", "sc_mark",
                 "sc_mark_write"}
RemLabels    == {"rc_check", "rc_drop", "rc_io", "rc_unlink"}

Fits(label, f) ==
  /\ label = "idle" => f.op = "none"
  /\ label \in RunLabels => f.op = "RunSandbox"
  /\ label \in StopSbLabels => f.op \in {"StopSandbox", "RemoveSandbox"}
  /\ label \in RemSbLabels => f.op = "RemoveSandbox"
  /\ label \in CreateLabels => f.op = "CreateContainer"
  /\ label \in StartLabels => f.op = "StartContainer"
  /\ label \in StopLabels => \/ f.from = "client" /\ f.op = "StopContainer"
                             \/ f.from = "cascade" /\ f.op = "RemoveSandbox"
                             \/ f.from = "force" /\ f.op \in {"RemoveContainer", "RemoveSandbox"}
  /\ label \in RemLabels => f.op \in {"RemoveContainer", "RemoveSandbox"}
  /\ f.op \in {"RunSandbox", "StopSandbox", "RemoveSandbox", "CreateContainer"}
       => f.sb \in Sandboxes
  /\ f.op = "CreateContainer" => f.ct \in Containers
  /\ label \in CreateLabels \cup StartLabels \cup StopLabels \cup RemLabels
       => f.ct \in Containers

\* The threads' half of the type invariant, with the strengthening.
StepsFit ==
  /\ pc \in [Threads -> Labels]
  /\ fr \in [Threads -> Frames]
  /\ \A t \in Threads : Fits(pc[t], fr[t])

\* The rest of it.
StateTyped ==
  /\ up \in BOOLEAN
  /\ cacheSb \in [Sandboxes -> SbStates] /\ diskSb \in [Sandboxes -> SbStates]
  /\ cacheCt \in [Containers -> CtRecords] /\ diskCt \in [Containers -> CtRecords]
  /\ io \subseteq Containers
  /\ usedSb \subseteq Sandboxes /\ usedCt \subseteq Containers
  /\ proc \in [Pids -> Processes]
  /\ reaper \in [Pids -> {"none", "wait", "io", "record"}]
  /\ ackSb \in [Sandboxes -> SUBSET SbFacts]
  /\ ackCt \in [Containers -> SUBSET CtFacts]
  /\ crashes \in Nat /\ ioErrors \in Nat

Typed == StateTyped /\ StepsFit

\* A call only ever learns facts.
LEMMA AckTypes ==
  ASSUME StateTyped, NEW id, NEW fact \in {"exists", "stopped", "gone", "started"},
         \/ fact # "started" /\ AckSb(id, fact)
         \/ AckCt(id, fact)
  PROVE  /\ ackSb' \in [Sandboxes -> SUBSET SbFacts]
         /\ ackCt' \in [Containers -> SUBSET CtFacts]
  BY DEF StateTyped, AckSb, AckCt, Learn, SbFacts, CtFacts

\* A thread that takes a frame that fits its new place leaves all threads fitting.
LEMMA Move ==
  ASSUME StepsFit, NEW t \in Threads, NEW l \in Labels, NEW f \in Frames, Fits(l, f),
         Goto(t, l), fr' = [fr EXCEPT ![t] = f]
  PROVE  StepsFit'
  BY DEF StepsFit, Goto

\* So does one that moves on with the frame it has.
LEMMA Advance ==
  ASSUME StepsFit, NEW t \in Threads, NEW l \in Labels, Fits(l, fr[t]),
         Goto(t, l), UNCHANGED fr
  PROVE  StepsFit'
  BY DEF StepsFit, Goto

\* So does one whose call returns.
LEMMA Leave ==
  ASSUME StepsFit, NEW t \in Threads, Return(t)
  PROVE  StepsFit'
<1>1. "idle" \in Labels /\ Fits("idle", IdleFrame)
  BY DEF Labels, Fits, IdleFrame, RunLabels, StopSbLabels, RemSbLabels, CreateLabels,
         StartLabels, StopLabels, RemLabels
<1>2. QED
  BY <1>1, IdleFrameType, Move DEF Return

\* And one that does not move.
LEMMA Rest ==
  ASSUME StepsFit, UNCHANGED <<pc, fr>>
  PROVE  StepsFit'
  BY DEF StepsFit

\* Taking a call.
LEMMA TypedCall ==
  ASSUME Typed, NEW t \in Threads, NEW l \in Labels, NEW f \in Frames, Fits(l, f),
         Call(t, l, f), usedSb' \subseteq Sandboxes, usedCt' \subseteq Containers,
         ackSb' \in [Sandboxes -> SUBSET SbFacts],
         ackCt' \in [Containers -> SUBSET CtFacts]
  PROVE  Typed'
<1>1. StepsFit'
  BY Move DEF Call, Typed
<1>2. StateTyped'
  BY DEF Call, Typed, StateTyped, cache, disk
<1>3. QED
  BY <1>1, <1>2 DEF Typed

LEMMA TypedCalls ==
  ASSUME Typed, NEW t \in Threads, Calls(t)
  PROVE  Typed'
<1>1. CASE CallRunSandbox(t)
  <2>1. PICK s \in Sandboxes \ usedSb :
    /\ Call(t, "run_write", [IdleFrame EXCEPT !.op = "RunSandbox", !.sb = s])
    /\ usedSb' = usedSb \cup {s}
    /\ UNCHANGED <<usedCt, acks>>
    BY <1>1 DEF CallRunSandbox
  <2>2. /\ [IdleFrame EXCEPT !.op = "RunSandbox", !.sb = s] \in Frames
        /\ Fits("run_write", [IdleFrame EXCEPT !.op = "RunSandbox", !.sb = s])
        /\ "run_write" \in Labels
    BY RecordTypes DEF Frames, Ops, Typed, StateTyped, KnownSb, KnownCt, IdleFrame, Labels,
       Fits, RunLabels, StopSbLabels, RemSbLabels, CreateLabels, StartLabels, StopLabels, RemLabels
  <2>3. /\ ackSb' \in [Sandboxes -> SUBSET SbFacts]
        /\ ackCt' \in [Containers -> SUBSET CtFacts]
    BY <2>1 DEF Typed, StateTyped, acks
  <2>4. usedSb' \subseteq Sandboxes /\ usedCt' \subseteq Containers
    BY <2>1 DEF Typed, StateTyped, used
  <2>5. QED
    BY <2>1, <2>2, <2>3, <2>4, TypedCall
<1>2. CASE CallStopSandbox(t)
  <2>1. PICK s \in KnownSb :
    /\ Call(t, "ss_mark", [IdleFrame EXCEPT !.op = "StopSandbox", !.sb = s])
    /\ UNCHANGED <<used, acks>>
    BY <1>2 DEF CallStopSandbox
  <2>2. /\ [IdleFrame EXCEPT !.op = "StopSandbox", !.sb = s] \in Frames
        /\ Fits("ss_mark", [IdleFrame EXCEPT !.op = "StopSandbox", !.sb = s])
        /\ "ss_mark" \in Labels
    BY RecordTypes DEF Frames, Ops, Typed, StateTyped, KnownSb, KnownCt, IdleFrame, Labels,
       Fits, RunLabels, StopSbLabels, RemSbLabels, CreateLabels, StartLabels, StopLabels, RemLabels
  <2>3. /\ ackSb' \in [Sandboxes -> SUBSET SbFacts]
        /\ ackCt' \in [Containers -> SUBSET CtFacts]
    BY <2>1 DEF Typed, StateTyped, acks
  <2>4. usedSb' \subseteq Sandboxes /\ usedCt' \subseteq Containers
    BY <2>1 DEF Typed, StateTyped, used
  <2>5. QED
    BY <2>1, <2>2, <2>3, <2>4, TypedCall
<1>3. CASE CallRemoveSandbox(t)
  <2>1. PICK s \in KnownSb :
    /\ Call(t, "ss_mark", [IdleFrame EXCEPT !.op = "RemoveSandbox", !.sb = s])
    /\ ackSb' = [ackSb EXCEPT ![s] = @ \ {"exists"}]
    /\ ackCt' = [c \in Containers |-> IF cacheCt[c].sandbox = s THEN ackCt[c] \ {"exists"}
                                                              ELSE ackCt[c]]
    /\ UNCHANGED used
    BY <1>3 DEF CallRemoveSandbox
  <2>2. /\ [IdleFrame EXCEPT !.op = "RemoveSandbox", !.sb = s] \in Frames
        /\ Fits("ss_mark", [IdleFrame EXCEPT !.op = "RemoveSandbox", !.sb = s])
        /\ "ss_mark" \in Labels
    BY RecordTypes DEF Frames, Ops, Typed, StateTyped, KnownSb, KnownCt, IdleFrame, Labels,
       Fits, RunLabels, StopSbLabels, RemSbLabels, CreateLabels, StartLabels, StopLabels, RemLabels
  <2>3. /\ ackSb' \in [Sandboxes -> SUBSET SbFacts]
        /\ ackCt' \in [Containers -> SUBSET CtFacts]
    BY <2>1 DEF Typed, StateTyped, acks
  <2>4. usedSb' \subseteq Sandboxes /\ usedCt' \subseteq Containers
    BY <2>1 DEF Typed, StateTyped, used
  <2>5. QED
    BY <2>1, <2>2, <2>3, <2>4, TypedCall
<1>4. CASE CallCreateContainer(t)
  <2>1. PICK s \in KnownSb, c \in Containers \ usedCt :
    /\ Call(t, "cc_check", [IdleFrame EXCEPT !.op = "CreateContainer", !.sb = s, !.ct = c])
    /\ usedCt' = usedCt \cup {c}
    /\ UNCHANGED <<usedSb, acks>>
    BY <1>4 DEF CallCreateContainer
  <2>2. /\ [IdleFrame EXCEPT !.op = "CreateContainer", !.sb = s, !.ct = c] \in Frames
        /\ Fits("cc_check", [IdleFrame EXCEPT !.op = "CreateContainer", !.sb = s, !.ct = c])
        /\ "cc_check" \in Labels
    BY RecordTypes DEF Frames, Ops, Typed, StateTyped, KnownSb, KnownCt, IdleFrame, Labels,
       Fits, RunLabels, StopSbLabels, RemSbLabels, CreateLabels, StartLabels, StopLabels, RemLabels
  <2>3. /\ ackSb' \in [Sandboxes -> SUBSET SbFacts]
        /\ ackCt' \in [Containers -> SUBSET CtFacts]
    BY <2>1 DEF Typed, StateTyped, acks
  <2>4. usedSb' \subseteq Sandboxes /\ usedCt' \subseteq Containers
    BY <2>1 DEF Typed, StateTyped, used
  <2>5. QED
    BY <2>1, <2>2, <2>3, <2>4, TypedCall
<1>5. CASE CallStartContainer(t)
  <2>1. PICK c \in KnownCt :
    /\ Call(t, "st_check", [IdleFrame EXCEPT !.op = "StartContainer", !.ct = c])
    /\ ackCt' = [ackCt EXCEPT ![c] = @ \ {"stopped"}]
    /\ UNCHANGED <<used, ackSb>>
    BY <1>5 DEF CallStartContainer
  <2>2. /\ [IdleFrame EXCEPT !.op = "StartContainer", !.ct = c] \in Frames
        /\ Fits("st_check", [IdleFrame EXCEPT !.op = "StartContainer", !.ct = c])
        /\ "st_check" \in Labels
    BY RecordTypes DEF Frames, Ops, Typed, StateTyped, KnownSb, KnownCt, IdleFrame, Labels,
       Fits, RunLabels, StopSbLabels, RemSbLabels, CreateLabels, StartLabels, StopLabels, RemLabels
  <2>3. /\ ackSb' \in [Sandboxes -> SUBSET SbFacts]
        /\ ackCt' \in [Containers -> SUBSET CtFacts]
    BY <2>1 DEF Typed, StateTyped, acks
  <2>4. usedSb' \subseteq Sandboxes /\ usedCt' \subseteq Containers
    BY <2>1 DEF Typed, StateTyped, used
  <2>5. QED
    BY <2>1, <2>2, <2>3, <2>4, TypedCall
<1>6. CASE CallStopContainer(t)
  <2>1. PICK c \in KnownCt, g \in BOOLEAN :
    /\ Call(t, "sc_check", [IdleFrame EXCEPT !.op = "StopContainer", !.ct = c, !.grace = g])
    /\ UNCHANGED <<used, acks>>
    BY <1>6 DEF CallStopContainer
  <2>2. /\ [IdleFrame EXCEPT !.op = "StopContainer", !.ct = c, !.grace = g] \in Frames
        /\ Fits("sc_check", [IdleFrame EXCEPT !.op = "StopContainer", !.ct = c, !.grace = g])
        /\ "sc_check" \in Labels
    BY RecordTypes DEF Frames, Ops, Typed, StateTyped, KnownSb, KnownCt, IdleFrame, Labels,
       Fits, RunLabels, StopSbLabels, RemSbLabels, CreateLabels, StartLabels, StopLabels, RemLabels
  <2>3. /\ ackSb' \in [Sandboxes -> SUBSET SbFacts]
        /\ ackCt' \in [Containers -> SUBSET CtFacts]
    BY <2>1 DEF Typed, StateTyped, acks
  <2>4. usedSb' \subseteq Sandboxes /\ usedCt' \subseteq Containers
    BY <2>1 DEF Typed, StateTyped, used
  <2>5. QED
    BY <2>1, <2>2, <2>3, <2>4, TypedCall
<1>7. CASE CallRemoveContainer(t)
  <2>1. PICK c \in KnownCt :
    /\ Call(t, "rc_check", [IdleFrame EXCEPT !.op = "RemoveContainer", !.ct = c])
    /\ ackCt' = [ackCt EXCEPT ![c] = @ \ {"exists"}]
    /\ UNCHANGED <<used, ackSb>>
    BY <1>7 DEF CallRemoveContainer
  <2>2. /\ [IdleFrame EXCEPT !.op = "RemoveContainer", !.ct = c] \in Frames
        /\ Fits("rc_check", [IdleFrame EXCEPT !.op = "RemoveContainer", !.ct = c])
        /\ "rc_check" \in Labels
    BY RecordTypes DEF Frames, Ops, Typed, StateTyped, KnownSb, KnownCt, IdleFrame, Labels,
       Fits, RunLabels, StopSbLabels, RemSbLabels, CreateLabels, StartLabels, StopLabels, RemLabels
  <2>3. /\ ackSb' \in [Sandboxes -> SUBSET SbFacts]
        /\ ackCt' \in [Containers -> SUBSET CtFacts]
    BY <2>1 DEF Typed, StateTyped, acks
  <2>4. usedSb' \subseteq Sandboxes /\ usedCt' \subseteq Containers
    BY <2>1 DEF Typed, StateTyped, used
  <2>5. QED
    BY <2>1, <2>2, <2>3, <2>4, TypedCall
<1>8. QED
  BY <1>1, <1>2, <1>3, <1>4, <1>5, <1>6, <1>7 DEF Calls

\* run_sandbox, stop_sandbox and remove_sandbox stay on their own steps.
LEMMA FitSandboxSteps ==
  ASSUME Typed, NEW t \in Threads, SandboxSteps(t)
  PROVE  StepsFit'
<1> USE DEF At
<1>0. StepsFit /\ pc[t] \in Labels /\ fr[t] \in Frames /\ Fits(pc[t], fr[t])
  BY DEF Typed, StepsFit
<1>1. CASE RunWrite(t)
  BY <1>0, <1>1, Advance, Leave DEF RunWrite, IoErrorReturn, Labels, Fits, RunLabels, StopSbLabels, RemSbLabels, CreateLabels, StartLabels, StopLabels, RemLabels
<1>2. CASE RunInsert(t)
  BY <1>0, <1>2, Advance, Leave DEF RunInsert, Labels, Fits, RunLabels, StopSbLabels, RemSbLabels, CreateLabels, StartLabels, StopLabels, RemLabels
<1>3. CASE StopSandboxMark(t)
  BY <1>0, <1>3, Advance, Leave DEF StopSandboxMark, SandboxStopped, Labels, Fits, RunLabels, StopSbLabels, RemSbLabels, CreateLabels, StartLabels, StopLabels, RemLabels
<1>4. CASE StopSandboxWrite(t)
  BY <1>0, <1>4, Advance, Leave DEF StopSandboxWrite, SandboxStopped, IoErrorReturn, Labels, Fits, RunLabels, StopSbLabels, RemSbLabels, CreateLabels, StartLabels, StopLabels, RemLabels
<1>5. CASE RemoveSandboxScan(t)
  <2>1. ASSUME cacheSb[fr[t].sb] # "absent", UNCHANGED acks,
               fr' = [fr EXCEPT ![t].todo = ContainersOf(fr[t].sb)], Goto(t, "rs_next") PROVE StepsFit'
    <3> DEFINE f == [fr[t] EXCEPT !.todo = ContainersOf(fr[t].sb)]
    <3>1. f \in Frames /\ Fits("rs_next", f) /\ "rs_next" \in Labels
      BY <1>0, <1>5, <2>1, RecordTypes DEF RemoveSandboxScan, ContainersOf, Frames, Typed, StateTyped, Labels,
         Fits, RunLabels, StopSbLabels, RemSbLabels, CreateLabels, StartLabels, StopLabels, RemLabels
    <3>2. fr' = [fr EXCEPT ![t] = f] /\ Goto(t, "rs_next")
      BY <1>5, <2>1 DEF RemoveSandboxScan
    <3> HIDE DEF f
    <3>3. QED
      BY <1>0, <3>1, <3>2, Move
  <2>2. QED
    BY <1>0, <1>5, <2>1, Advance, Leave DEF RemoveSandboxScan, Labels, Fits, RunLabels, StopSbLabels, RemSbLabels, CreateLabels, StartLabels, StopLabels, RemLabels
<1>6. CASE RemoveSandboxNext(t)
  <2>1. ASSUME NEW c \in fr[t].todo, Goto(t, "sc_check"),
               fr' = [fr EXCEPT ![t].ct = c, ![t].todo = @ \ {c},
                                   ![t].grace = FALSE, ![t].from = "cascade"] PROVE StepsFit'
    <3> DEFINE f == [fr[t] EXCEPT !.ct = c, !.todo = @ \ {c}, !.grace = FALSE, !.from = "cascade"]
    <3>1. f \in Frames /\ Fits("sc_check", f) /\ "sc_check" \in Labels
      BY <1>0, <1>6, <2>1, RecordTypes DEF RemoveSandboxNext, Frames, Typed, StateTyped, Labels,
         Fits, RunLabels, StopSbLabels, RemSbLabels, CreateLabels, StartLabels, StopLabels, RemLabels
    <3>2. fr' = [fr EXCEPT ![t] = f] /\ Goto(t, "sc_check")
      BY <1>6, <2>1 DEF RemoveSandboxNext
    <3> HIDE DEF f
    <3>3. QED
      BY <1>0, <3>1, <3>2, Move
  <2>2. QED
    BY <1>0, <1>6, <2>1, Advance, Leave DEF RemoveSandboxNext, Labels, Fits, RunLabels, StopSbLabels, RemSbLabels, CreateLabels, StartLabels, StopLabels, RemLabels
<1>7. CASE RemoveSandboxDrop(t)
  BY <1>0, <1>7, Advance, Leave DEF RemoveSandboxDrop, Labels, Fits, RunLabels, StopSbLabels, RemSbLabels, CreateLabels, StartLabels, StopLabels, RemLabels
<1>8. CASE RemoveSandboxUnlink(t)
  BY <1>0, <1>8, Advance, Leave DEF RemoveSandboxUnlink, Labels, Fits, RunLabels, StopSbLabels, RemSbLabels, CreateLabels, StartLabels, StopLabels, RemLabels
<1>9. QED
  BY <1>1, <1>2, <1>3, <1>4, <1>5, <1>6, <1>7, <1>8 DEF SandboxSteps

\* create_container and start_container stay on their own steps.
LEMMA FitStartSteps ==
  ASSUME Typed, NEW t \in Threads, StartSteps(t)
  PROVE  StepsFit'
<1> USE DEF At
<1>0. StepsFit /\ pc[t] \in Labels /\ fr[t] \in Frames /\ Fits(pc[t], fr[t])
  BY DEF Typed, StepsFit
<1>1. CASE CreateCheck(t)
  BY <1>0, <1>1, Advance, Leave DEF CreateCheck, Labels, Fits, RunLabels, StopSbLabels, RemSbLabels, CreateLabels, StartLabels, StopLabels, RemLabels
<1>2. CASE CreateWrite(t)
  BY <1>0, <1>2, Advance, Leave DEF CreateWrite, IoErrorReturn, Labels, Fits, RunLabels, StopSbLabels, RemSbLabels, CreateLabels, StartLabels, StopLabels, RemLabels
<1>3. CASE CreateInsert(t)
  BY <1>0, <1>3, Advance, Leave DEF CreateInsert, Labels, Fits, RunLabels, StopSbLabels, RemSbLabels, CreateLabels, StartLabels, StopLabels, RemLabels
<1>4. CASE StartCheck(t)
  BY <1>0, <1>4, Advance, Leave DEF StartCheck, Labels, Fits, RunLabels, StopSbLabels, RemSbLabels, CreateLabels, StartLabels, StopLabels, RemLabels
<1>5. CASE StartIntent(t)
  <2>1. ASSUME fr' = [fr EXCEPT ![t].rec = Intent(cacheCt[fr[t].ct])], Goto(t, "st_intent_write") PROVE StepsFit'
    <3> DEFINE f == [fr[t] EXCEPT !.rec = Intent(cacheCt[fr[t].ct])]
    <3>1. f \in Frames /\ Fits("st_intent_write", f) /\ "st_intent_write" \in Labels
      BY <1>0, <1>5, <2>1, RecordTypes DEF StartIntent, Frames, Typed, StateTyped, Labels,
         Fits, RunLabels, StopSbLabels, RemSbLabels, CreateLabels, StartLabels, StopLabels, RemLabels
    <3>2. fr' = [fr EXCEPT ![t] = f] /\ Goto(t, "st_intent_write")
      BY <1>5, <2>1 DEF StartIntent
    <3> HIDE DEF f
    <3>3. QED
      BY <1>0, <3>1, <3>2, Move
  <2>2. QED
    BY <1>0, <1>5, <2>1, Advance, Leave DEF StartIntent, Labels, Fits, RunLabels, StopSbLabels, RemSbLabels, CreateLabels, StartLabels, StopLabels, RemLabels
<1>6. CASE StartIntentWrite(t)
  BY <1>0, <1>6, Advance, Leave DEF StartIntentWrite, IoErrorReturn, Labels, Fits, RunLabels, StopSbLabels, RemSbLabels, CreateLabels, StartLabels, StopLabels, RemLabels
<1>7. CASE StartSpawn(t)
  <2>1. ASSUME NEW p \in Pids, fr' = [fr EXCEPT ![t].pid = p], Goto(t, "st_io") PROVE StepsFit'
    <3> DEFINE f == [fr[t] EXCEPT !.pid = p]
    <3>1. f \in Frames /\ Fits("st_io", f) /\ "st_io" \in Labels
      BY <1>0, <1>7, <2>1, RecordTypes DEF StartSpawn, Frames, Typed, StateTyped, Labels,
         Fits, RunLabels, StopSbLabels, RemSbLabels, CreateLabels, StartLabels, StopLabels, RemLabels
    <3>2. fr' = [fr EXCEPT ![t] = f] /\ Goto(t, "st_io")
      BY <1>7, <2>1 DEF StartSpawn
    <3> HIDE DEF f
    <3>3. QED
      BY <1>0, <3>1, <3>2, Move
  <2>2. QED
    BY <1>0, <1>7, <2>1, Advance, Leave DEF StartSpawn, Labels, Fits, RunLabels, StopSbLabels, RemSbLabels, CreateLabels, StartLabels, StopLabels, RemLabels
<1>8. CASE StartFailed(t)
  <2>1. ASSUME fr' = [fr EXCEPT ![t].rec = Exited(cacheCt[fr[t].ct], LostExit)], Goto(t, "st_failed_write") PROVE StepsFit'
    <3> DEFINE f == [fr[t] EXCEPT !.rec = Exited(cacheCt[fr[t].ct], LostExit)]
    <3>1. f \in Frames /\ Fits("st_failed_write", f) /\ "st_failed_write" \in Labels
      BY <1>0, <1>8, <2>1, RecordTypes DEF StartFailed, Frames, Codes, LostExit, Typed, StateTyped, Labels,
         Fits, RunLabels, StopSbLabels, RemSbLabels, CreateLabels, StartLabels, StopLabels, RemLabels
    <3>2. fr' = [fr EXCEPT ![t] = f] /\ Goto(t, "st_failed_write")
      BY <1>8, <2>1 DEF StartFailed
    <3> HIDE DEF f
    <3>3. QED
      BY <1>0, <3>1, <3>2, Move
  <2>2. QED
    BY <1>0, <1>8, <2>1, Advance, Leave DEF StartFailed, Labels, Fits, RunLabels, StopSbLabels, RemSbLabels, CreateLabels, StartLabels, StopLabels, RemLabels
<1>9. CASE StartFailedWrite(t)
  BY <1>0, <1>9, Advance, Leave DEF StartFailedWrite, Labels, Fits, RunLabels, StopSbLabels, RemSbLabels, CreateLabels, StartLabels, StopLabels, RemLabels
<1>10. CASE StartIo(t)
  BY <1>0, <1>10, Advance, Leave DEF StartIo, Labels, Fits, RunLabels, StopSbLabels, RemSbLabels, CreateLabels, StartLabels, StopLabels, RemLabels
<1>11. CASE StartPid(t)
  <2>1. ASSUME fr' = [fr EXCEPT ![t].rec = [cacheCt[fr[t].ct] EXCEPT !.pid = fr[t].pid]], Goto(t, "st_pid_write") PROVE StepsFit'
    <3> DEFINE f == [fr[t] EXCEPT !.rec = [cacheCt[fr[t].ct] EXCEPT !.pid = fr[t].pid]]
    <3>1. f \in Frames /\ Fits("st_pid_write", f) /\ "st_pid_write" \in Labels
      BY <1>0, <1>11, <2>1, RecordTypes DEF StartPid, Frames, Typed, StateTyped, Labels,
         Fits, RunLabels, StopSbLabels, RemSbLabels, CreateLabels, StartLabels, StopLabels, RemLabels
    <3>2. fr' = [fr EXCEPT ![t] = f] /\ Goto(t, "st_pid_write")
      BY <1>11, <2>1 DEF StartPid
    <3> HIDE DEF f
    <3>3. QED
      BY <1>0, <3>1, <3>2, Move
  <2>2. QED
    BY <1>0, <1>11, <2>1, Advance, Leave DEF StartPid, Labels, Fits, RunLabels, StopSbLabels, RemSbLabels, CreateLabels, StartLabels, StopLabels, RemLabels
<1>12. CASE StartPidWrite(t)
  BY <1>0, <1>12, Advance, Leave DEF StartPidWrite, IoErrorReturn, Labels, Fits, RunLabels, StopSbLabels, RemSbLabels, CreateLabels, StartLabels, StopLabels, RemLabels
<1>13. QED
  BY <1>1, <1>2, <1>3, <1>4, <1>5, <1>6, <1>7, <1>8, <1>9, <1>10, <1>11, <1>12 DEF StartSteps

\* A stop that has found its container settled goes on where its caller wants.
LEMMA FitStopped ==
  ASSUME StepsFit, NEW t \in Threads, Fits("sc_check", fr[t]), ContainerStopped(t)
  PROVE  StepsFit'
<1>1. CASE Return(t)
  BY <1>1, Leave
<1>2. ASSUME fr[t].from \in {"cascade", "force"}, NEW l \in {"rc_check", "rc_drop"},
             Goto(t, l), UNCHANGED fr
      PROVE  StepsFit'
  <2>1. l \in Labels /\ Fits(l, fr[t])
    BY <1>2 DEF Labels, Fits, RunLabels, StopSbLabels, RemSbLabels, CreateLabels, StartLabels, StopLabels, RemLabels
  <2>2. QED
    BY <1>2, <2>1, Advance
<1>3. QED
  BY <1>1, <1>2 DEF ContainerStopped

\* So does a removal that is done with its container.
LEMMA FitRemoved ==
  ASSUME StepsFit, NEW t \in Threads, Fits("rc_check", fr[t]), ContainerRemoved(t)
  PROVE  StepsFit'
<1>1. CASE fr[t].op = "RemoveSandbox" /\ Goto(t, "rs_next") /\ UNCHANGED fr
  <2>1. "rs_next" \in Labels /\ Fits("rs_next", fr[t])
    BY <1>1 DEF Labels, Fits, RunLabels, StopSbLabels, RemSbLabels, CreateLabels, StartLabels, StopLabels, RemLabels
  <2>2. QED
    BY <1>1, <2>1, Advance
<1>2. CASE Return(t)
  BY <1>2, Leave
<1>3. QED
  BY <1>1, <1>2 DEF ContainerRemoved

\* A frame that fits one step of stop_container fits the others, and the first of them.
LEMMA StopFits ==
  ASSUME NEW f, NEW k \in StopLabels, Fits(k, f), NEW l \in StopLabels
  PROVE  l \in Labels /\ Fits(l, f) /\ Fits("sc_check", f)
<1>1. ASSUME NEW j \in StopLabels
      PROVE  /\ j \in Labels /\ j \notin {"idle"} \cup RunLabels \cup StopSbLabels \cup RemSbLabels
             /\ j \notin CreateLabels \cup StartLabels \cup RemLabels
  BY DEF Labels, RunLabels, StopSbLabels, RemSbLabels, CreateLabels, StartLabels, StopLabels, RemLabels
<1>2. ASSUME NEW j \in StopLabels PROVE Fits(j, f)
  BY <1>1 DEF Fits
<1>3. "sc_check" \in StopLabels
  BY DEF StopLabels
<1>4. QED
  BY <1>1, <1>2, <1>3

\* stop_container and remove_container stay on their own steps.
LEMMA FitStopSteps ==
  ASSUME Typed, NEW t \in Threads, StopSteps(t)
  PROVE  StepsFit'
<1> USE DEF At
<1>0. StepsFit /\ pc[t] \in Labels /\ fr[t] \in Frames /\ Fits(pc[t], fr[t])
  BY DEF Typed, StepsFit
<1>1. CASE StopCheck(t)
  <2>1. ASSUME NEW l \in {"sc_term", "sc_kill"}, cacheCt[fr[t].ct].pid # 0,
               fr' = [fr EXCEPT ![t].pid = cacheCt[fr[t].ct].pid], Goto(t, l) PROVE StepsFit'
    <3> DEFINE f == [fr[t] EXCEPT !.pid = cacheCt[fr[t].ct].pid]
    <3>1. f \in Frames /\ Fits(l, f) /\ l \in Labels
      BY <1>0, <1>1, <2>1, RecordTypes DEF StopCheck, Frames, CtRecords, Typed, StateTyped, Labels,
         Fits, RunLabels, StopSbLabels, RemSbLabels, CreateLabels, StartLabels, StopLabels, RemLabels
    <3>2. fr' = [fr EXCEPT ![t] = f] /\ Goto(t, l)
      BY <1>1, <2>1 DEF StopCheck
    <3> HIDE DEF f
    <3>3. QED
      BY <1>0, <3>1, <3>2, Move
  <2>2. QED
    <3>1. Fits("sc_check", fr[t])
      BY <1>0, <1>1 DEF StopCheck
    <3>2. CASE ContainerStopped(t)
      BY <1>0, <3>1, <3>2, FitStopped
    <3>3. CASE Goto(t, "sc_mark") /\ UNCHANGED fr
      <4>1. "sc_mark" \in Labels /\ Fits("sc_mark", fr[t])
        BY <3>1 DEF Labels, Fits, RunLabels, StopSbLabels, RemSbLabels, CreateLabels, StartLabels, StopLabels, RemLabels
      <4>2. QED
        BY <1>0, <3>3, <4>1, Advance
    <3>4. QED
      BY <1>1, <2>1, <3>2, <3>3 DEF StopCheck
<1>2. CASE StopTerm(t)
  <2>1. pc[t] = "sc_term" /\ (Goto(t, "sc_grace") /\ UNCHANGED fr)
    BY <1>2 DEF StopTerm
  <2>2. "sc_grace" \in Labels /\ Fits("sc_grace", fr[t]) /\ Fits("sc_check", fr[t])
    BY <1>0, <2>1, StopFits DEF StopLabels
  <2>3. QED
    BY <1>0, <2>1, <2>2, Advance
<1>3. CASE StopGrace(t)
  <2>1. pc[t] = "sc_grace" /\ (ContainerStopped(t) \/ (Goto(t, "sc_kill") /\ UNCHANGED fr))
    BY <1>3 DEF StopGrace
  <2>2. "sc_kill" \in Labels /\ Fits("sc_kill", fr[t]) /\ Fits("sc_check", fr[t])
    BY <1>0, <2>1, StopFits DEF StopLabels
  <2>3. QED
    BY <1>0, <2>1, <2>2, Advance, FitStopped
<1>4. CASE StopKill(t)
  <2>1. pc[t] = "sc_kill" /\ (Goto(t, "sc_wait") /\ UNCHANGED fr)
    BY <1>4 DEF StopKill
  <2>2. "sc_wait" \in Labels /\ Fits("sc_wait", fr[t]) /\ Fits("sc_check", fr[t])
    BY <1>0, <2>1, StopFits DEF StopLabels
  <2>3. QED
    BY <1>0, <2>1, <2>2, Advance
<1>5. CASE StopWait(t)
  <2>1. pc[t] = "sc_wait" /\ (ContainerStopped(t))
    BY <1>5 DEF StopWait
  <2>2. Fits("sc_check", fr[t])
    BY <1>0, <2>1, StopFits DEF StopLabels
  <2>3. QED
    BY <1>0, <2>1, <2>2, FitStopped
<1>6. CASE StopMark(t)
  <2>1. ASSUME NEW k \in {TermExit, KillExit}, fr' = [fr EXCEPT ![t].rec = Exited(cacheCt[fr[t].ct], k)],
               Goto(t, "sc_mark_write") PROVE StepsFit'
    <3> DEFINE f == [fr[t] EXCEPT !.rec = Exited(cacheCt[fr[t].ct], k)]
    <3>1. f \in Frames /\ Fits("sc_mark_write", f) /\ "sc_mark_write" \in Labels
      BY <1>0, <1>6, <2>1, RecordTypes DEF StopMark, Frames, Codes, TermExit, KillExit, Typed, StateTyped, Labels,
         Fits, RunLabels, StopSbLabels, RemSbLabels, CreateLabels, StartLabels, StopLabels, RemLabels
    <3>2. fr' = [fr EXCEPT ![t] = f] /\ Goto(t, "sc_mark_write")
      BY <1>6, <2>1 DEF StopMark
    <3> HIDE DEF f
    <3>3. QED
      BY <1>0, <3>1, <3>2, Move
  <2>2. pc[t] = "sc_mark"
    BY <1>6 DEF StopMark
  <2>3. Fits("sc_check", fr[t])
    BY <1>0, <2>2, StopFits DEF StopLabels
  <2>4. CASE ContainerStopped(t)
    BY <1>0, <2>3, <2>4, FitStopped
  <2>5. QED
    BY <1>6, <2>1, <2>4 DEF StopMark
<1>7. CASE StopMarkWrite(t)
  <2>1. pc[t] = "sc_mark_write" /\ (ContainerStopped(t) \/ Return(t))
    BY <1>7 DEF StopMarkWrite, IoErrorReturn
  <2>2. Fits("sc_check", fr[t])
    BY <1>0, <2>1, StopFits DEF StopLabels
  <2>3. QED
    BY <1>0, <2>1, <2>2, FitStopped, Leave
<1>8. CASE RemoveCheck(t)
  <2>1. ASSUME Goto(t, "sc_check"),
               fr' = [fr EXCEPT ![t].from = "force", ![t].grace = FALSE] PROVE StepsFit'
    <3> DEFINE f == [fr[t] EXCEPT !.from = "force", !.grace = FALSE]
    <3>1. f \in Frames /\ Fits("sc_check", f) /\ "sc_check" \in Labels
      BY <1>0, <1>8, <2>1, RecordTypes DEF RemoveCheck, Frames, Typed, StateTyped, Labels,
         Fits, RunLabels, StopSbLabels, RemSbLabels, CreateLabels, StartLabels, StopLabels, RemLabels
    <3>2. fr' = [fr EXCEPT ![t] = f] /\ Goto(t, "sc_check")
      BY <1>8, <2>1 DEF RemoveCheck
    <3> HIDE DEF f
    <3>3. QED
      BY <1>0, <3>1, <3>2, Move
  <2>2. QED
    <3>1. Fits("rc_check", fr[t])
      BY <1>0, <1>8 DEF RemoveCheck
    <3>2. CASE ContainerRemoved(t)
      BY <1>0, <3>1, <3>2, FitRemoved
    <3>3. CASE Goto(t, "rc_drop") /\ UNCHANGED fr
      <4>1. "rc_drop" \in Labels /\ Fits("rc_drop", fr[t])
        BY <3>1 DEF Labels, Fits, RunLabels, StopSbLabels, RemSbLabels, CreateLabels, StartLabels, StopLabels, RemLabels
      <4>2. QED
        BY <1>0, <3>3, <4>1, Advance
    <3>4. QED
      BY <1>8, <2>1, <3>2, <3>3 DEF RemoveCheck
<1>9. CASE RemoveDrop(t)
  <2>1. pc[t] = "rc_drop" /\ Goto(t, "rc_io") /\ UNCHANGED fr
    BY <1>9 DEF RemoveDrop
  <2>2. "rc_io" \in Labels /\ Fits("rc_io", fr[t])
    BY <1>0, <2>1 DEF Labels, Fits, RunLabels, StopSbLabels, RemSbLabels, CreateLabels, StartLabels, StopLabels, RemLabels
  <2>3. QED
    BY <1>0, <2>1, <2>2, Advance
<1>10. CASE RemoveIo(t)
  <2>1. pc[t] = "rc_io" /\ Goto(t, "rc_unlink") /\ UNCHANGED fr
    BY <1>10 DEF RemoveIo
  <2>2. "rc_unlink" \in Labels /\ Fits("rc_unlink", fr[t])
    BY <1>0, <2>1 DEF Labels, Fits, RunLabels, StopSbLabels, RemSbLabels, CreateLabels, StartLabels, StopLabels, RemLabels
  <2>3. QED
    BY <1>0, <2>1, <2>2, Advance
<1>11. CASE RemoveUnlink(t)
  <2>1. pc[t] = "rc_unlink" /\ ContainerRemoved(t)
    BY <1>11 DEF RemoveUnlink
  <2>2. Fits("rc_check", fr[t])
    BY <1>0, <2>1 DEF Fits, RunLabels, StopSbLabels, RemSbLabels, CreateLabels, StartLabels, StopLabels, RemLabels
  <2>3. QED
    BY <1>0, <2>1, <2>2, FitRemoved
<1>12. QED
  BY <1>1, <1>2, <1>3, <1>4, <1>5, <1>6, <1>7, <1>8, <1>9, <1>10, <1>11 DEF StopSteps

\* run_sandbox, stop_sandbox and remove_sandbox keep the state typed.
LEMMA TypeSandboxSteps ==
  ASSUME Typed, NEW t \in Threads, SandboxSteps(t)
  PROVE  StateTyped'
<1> USE DEF cache, disk, used, acks, IoFails, IoWorks
<1>0. StateTyped /\ fr[t] \in Frames /\ Fits(pc[t], fr[t])
  BY DEF Typed, StepsFit
<1>1. CASE RunWrite(t)
  BY <1>0, <1>1 DEF RunWrite, IoErrorReturn, StateTyped, SbStates
<1>2. CASE RunInsert(t)
  <2>1. /\ ackSb' \in [Sandboxes -> SUBSET SbFacts]
        /\ ackCt' \in [Containers -> SUBSET CtFacts]
    BY <1>0, <1>2, AckTypes DEF RunInsert, StateTyped
  <2>2. QED
    BY <1>0, <1>2, <2>1 DEF RunInsert, StateTyped, SbStates
<1>3. CASE StopSandboxMark(t)
  <2>1. /\ ackSb' \in [Sandboxes -> SUBSET SbFacts]
        /\ ackCt' \in [Containers -> SUBSET CtFacts]
    BY <1>0, <1>3, AckTypes DEF StopSandboxMark, SandboxStopped, StateTyped
  <2>2. QED
    BY <1>0, <1>3, <2>1 DEF StopSandboxMark, StateTyped, SbStates
<1>4. CASE StopSandboxWrite(t)
  <2>1. /\ ackSb' \in [Sandboxes -> SUBSET SbFacts]
        /\ ackCt' \in [Containers -> SUBSET CtFacts]
    BY <1>0, <1>4, AckTypes DEF StopSandboxWrite, SandboxStopped, IoErrorReturn, StateTyped
  <2>2. QED
    BY <1>0, <1>4, <2>1 DEF StopSandboxWrite, IoErrorReturn, StateTyped, SbStates
<1>5. CASE RemoveSandboxScan(t)
  <2>1. /\ ackSb' \in [Sandboxes -> SUBSET SbFacts]
        /\ ackCt' \in [Containers -> SUBSET CtFacts]
    BY <1>0, <1>5, AckTypes DEF RemoveSandboxScan, StateTyped
  <2>2. QED
    BY <1>0, <1>5, <2>1 DEF RemoveSandboxScan, StateTyped, SbStates
<1>6. CASE RemoveSandboxNext(t)
  BY <1>0, <1>6 DEF RemoveSandboxNext, StateTyped, SbStates
<1>7. CASE RemoveSandboxDrop(t)
  <2>1. /\ ackSb' \in [Sandboxes -> SUBSET SbFacts]
        /\ ackCt' \in [Containers -> SUBSET CtFacts]
    BY <1>0, <1>7, AckTypes DEF RemoveSandboxDrop, StateTyped
  <2>2. QED
    BY <1>0, <1>7, <2>1 DEF RemoveSandboxDrop, StateTyped, SbStates
<1>8. CASE RemoveSandboxUnlink(t)
  <2>1. /\ ackSb' \in [Sandboxes -> SUBSET SbFacts]
        /\ ackCt' \in [Containers -> SUBSET CtFacts]
    BY <1>0, <1>8, AckTypes DEF RemoveSandboxUnlink, StateTyped
  <2>2. QED
    BY <1>0, <1>8, <2>1 DEF RemoveSandboxUnlink, StateTyped, SbStates
<1>9. QED
  BY <1>1, <1>2, <1>3, <1>4, <1>5, <1>6, <1>7, <1>8 DEF SandboxSteps

\* create_container and start_container keep the state typed.
LEMMA TypeStartSteps ==
  ASSUME Typed, NEW t \in Threads, StartSteps(t)
  PROVE  StateTyped'
<1> USE DEF cache, disk, used, acks, IoFails, IoWorks
<1>0. StateTyped /\ fr[t] \in Frames /\ Fits(pc[t], fr[t])
  BY DEF Typed, StepsFit
<1>1. CASE CreateCheck(t)
  BY <1>0, <1>1 DEF CreateCheck, StateTyped, SbStates
<1>2. CASE CreateWrite(t)
  <2>1. diskCt' \in [Containers -> CtRecords]
    BY <1>0, <1>2, RecordTypes DEF CreateWrite, StateTyped, Frames, IoErrorReturn
  <2>2. QED
    BY <1>0, <1>2, <2>1 DEF CreateWrite, IoErrorReturn, StateTyped, SbStates
<1>3. CASE CreateInsert(t)
  <2>1. /\ ackSb' \in [Sandboxes -> SUBSET SbFacts]
        /\ ackCt' \in [Containers -> SUBSET CtFacts]
    BY <1>0, <1>3, AckTypes DEF CreateInsert, StateTyped
  <2>2. cacheCt' \in [Containers -> CtRecords]
    BY <1>0, <1>3, RecordTypes DEF CreateInsert, StateTyped, Frames
  <2>3. QED
    BY <1>0, <1>3, <2>1, <2>2 DEF CreateInsert, StateTyped, SbStates
<1>4. CASE StartCheck(t)
  BY <1>0, <1>4 DEF StartCheck, StateTyped, SbStates
<1>5. CASE StartIntent(t)
  <2>1. cacheCt' \in [Containers -> CtRecords]
    BY <1>0, <1>5, RecordTypes DEF StartIntent, StateTyped, Frames
  <2>2. QED
    BY <1>0, <1>5, <2>1 DEF StartIntent, StateTyped, SbStates
<1>6. CASE StartIntentWrite(t)
  <2>1. diskCt' \in [Containers -> CtRecords]
    BY <1>0, <1>6, RecordTypes DEF StartIntentWrite, StateTyped, Frames, IoErrorReturn
  <2>2. QED
    BY <1>0, <1>6, <2>1 DEF StartIntentWrite, IoErrorReturn, StateTyped, SbStates
<1>7. CASE StartSpawn(t)
  <2>1. proc' \in [Pids -> Processes]
    BY <1>0, <1>7, ProcessTypes DEF StartSpawn, StateTyped, Frames
  <2>2. QED
    BY <1>0, <1>7, <2>1 DEF StartSpawn, StateTyped, SbStates
<1>8. CASE StartFailed(t)
  <2>1. cacheCt' \in [Containers -> CtRecords]
    BY <1>0, <1>8, RecordTypes DEF StartFailed, StateTyped, Frames, Codes, LostExit, TermExit, KillExit
  <2>2. QED
    BY <1>0, <1>8, <2>1 DEF StartFailed, StateTyped, SbStates
<1>9. CASE StartFailedWrite(t)
  <2>1. diskCt' \in [Containers -> CtRecords]
    BY <1>0, <1>9, RecordTypes DEF StartFailedWrite, StateTyped, Frames
  <2>2. QED
    BY <1>0, <1>9, <2>1 DEF StartFailedWrite, StateTyped, SbStates
<1>10. CASE StartIo(t)
  <2>1. io' \subseteq Containers
    BY <1>0, <1>10 DEF StartIo, At, StateTyped, Fits, StartLabels
  <2>2. QED
    BY <1>0, <1>10, <2>1 DEF StartIo, StateTyped, SbStates
<1>11. CASE StartPid(t)
  <2>1. \A d \in Containers : [cacheCt[d] EXCEPT !.pid = fr[t].pid] \in CtRecords
    BY <1>0, RecordTypes DEF StateTyped, Frames
  <2>2. cacheCt' \in {cacheCt, [cacheCt EXCEPT ![fr[t].ct].pid = fr[t].pid]}
    BY <1>11 DEF StartPid
  <2>3. cacheCt' \in [Containers -> CtRecords]
    BY <1>0, <2>1, <2>2 DEF StateTyped
  <2>4. QED
    BY <1>0, <1>11, <2>3 DEF StartPid, StateTyped, SbStates
<1>12. CASE StartPidWrite(t)
  <2>1. /\ ackSb' \in [Sandboxes -> SUBSET SbFacts]
        /\ ackCt' \in [Containers -> SUBSET CtFacts]
    BY <1>0, <1>12, AckTypes DEF StartPidWrite, IoErrorReturn, StateTyped
  <2>2. diskCt' \in [Containers -> CtRecords]
    BY <1>0, <1>12, RecordTypes DEF StartPidWrite, StateTyped, Frames, IoErrorReturn
  <2>3. QED
    BY <1>0, <1>12, <2>1, <2>2 DEF StartPidWrite, IoErrorReturn, StateTyped, SbStates
<1>13. QED
  BY <1>1, <1>2, <1>3, <1>4, <1>5, <1>6, <1>7, <1>8, <1>9, <1>10, <1>11, <1>12 DEF StartSteps

\* stop_container and remove_container keep the state typed.
LEMMA TypeStopSteps ==
  ASSUME Typed, NEW t \in Threads, StopSteps(t)
  PROVE  StateTyped'
<1> USE DEF cache, disk, used, acks, IoFails, IoWorks
<1>0. StateTyped /\ fr[t] \in Frames /\ Fits(pc[t], fr[t])
  BY DEF Typed, StepsFit
<1>1. CASE StopCheck(t)
  <2>1. /\ ackSb' \in [Sandboxes -> SUBSET SbFacts]
        /\ ackCt' \in [Containers -> SUBSET CtFacts]
    BY <1>0, <1>1, AckTypes DEF StopCheck, ContainerStopped, StateTyped
  <2>2. QED
    BY <1>0, <1>1, <2>1 DEF StopCheck, StateTyped, SbStates
<1>2. CASE StopTerm(t)
  <2>1. proc' \in [Pids -> Processes]
    BY <1>0, <1>2, ProcessTypes DEF StopTerm, StateTyped
  <2>2. QED
    BY <1>0, <1>2, <2>1 DEF StopTerm, StateTyped, SbStates
<1>3. CASE StopGrace(t)
  <2>1. /\ ackSb' \in [Sandboxes -> SUBSET SbFacts]
        /\ ackCt' \in [Containers -> SUBSET CtFacts]
    BY <1>0, <1>3, AckTypes DEF StopGrace, ContainerStopped, StateTyped
  <2>2. QED
    BY <1>0, <1>3, <2>1 DEF StopGrace, StateTyped, SbStates
<1>4. CASE StopKill(t)
  <2>1. proc' \in [Pids -> Processes]
    BY <1>0, <1>4, ProcessTypes DEF StopKill, StateTyped
  <2>2. QED
    BY <1>0, <1>4, <2>1 DEF StopKill, StateTyped, SbStates
<1>5. CASE StopWait(t)
  <2>1. /\ ackSb' \in [Sandboxes -> SUBSET SbFacts]
        /\ ackCt' \in [Containers -> SUBSET CtFacts]
    BY <1>0, <1>5, AckTypes DEF StopWait, ContainerStopped, StateTyped
  <2>2. QED
    BY <1>0, <1>5, <2>1 DEF StopWait, StateTyped, SbStates
<1>6. CASE StopMark(t)
  <2>1. /\ ackSb' \in [Sandboxes -> SUBSET SbFacts]
        /\ ackCt' \in [Containers -> SUBSET CtFacts]
    BY <1>0, <1>6, AckTypes DEF StopMark, ContainerStopped, StateTyped
  <2>2. cacheCt' \in [Containers -> CtRecords]
    BY <1>0, <1>6, RecordTypes DEF StopMark, StateTyped, Frames, Codes, LostExit, TermExit, KillExit
  <2>3. QED
    BY <1>0, <1>6, <2>1, <2>2 DEF StopMark, StateTyped, SbStates
<1>7. CASE StopMarkWrite(t)
  <2>1. /\ ackSb' \in [Sandboxes -> SUBSET SbFacts]
        /\ ackCt' \in [Containers -> SUBSET CtFacts]
    BY <1>0, <1>7, AckTypes DEF StopMarkWrite, ContainerStopped, IoErrorReturn, StateTyped
  <2>2. diskCt' \in [Containers -> CtRecords]
    BY <1>0, <1>7, RecordTypes DEF StopMarkWrite, StateTyped, Frames, IoErrorReturn
  <2>3. QED
    BY <1>0, <1>7, <2>1, <2>2 DEF StopMarkWrite, IoErrorReturn, StateTyped, SbStates
<1>8. CASE RemoveCheck(t)
  <2>1. /\ ackSb' \in [Sandboxes -> SUBSET SbFacts]
        /\ ackCt' \in [Containers -> SUBSET CtFacts]
    BY <1>0, <1>8, AckTypes DEF RemoveCheck, ContainerRemoved, StateTyped
  <2>2. QED
    BY <1>0, <1>8, <2>1 DEF RemoveCheck, StateTyped, SbStates
<1>9. CASE RemoveDrop(t)
  <2>1. cacheCt' \in [Containers -> CtRecords]
    BY <1>0, <1>9, RecordTypes DEF RemoveDrop, StateTyped, Frames
  <2>2. QED
    BY <1>0, <1>9, <2>1 DEF RemoveDrop, StateTyped, SbStates
<1>10. CASE RemoveIo(t)
  BY <1>0, <1>10 DEF RemoveIo, StateTyped, SbStates
<1>11. CASE RemoveUnlink(t)
  <2>1. /\ ackSb' \in [Sandboxes -> SUBSET SbFacts]
        /\ ackCt' \in [Containers -> SUBSET CtFacts]
    BY <1>0, <1>11, AckTypes DEF RemoveUnlink, ContainerRemoved, StateTyped
  <2>2. diskCt' \in [Containers -> CtRecords]
    BY <1>0, <1>11, RecordTypes DEF RemoveUnlink, StateTyped, Frames
  <2>3. QED
    BY <1>0, <1>11, <2>1, <2>2 DEF RemoveUnlink, StateTyped, SbStates
<1>12. QED
  BY <1>1, <1>2, <1>3, <1>4, <1>5, <1>6, <1>7, <1>8, <1>9, <1>10, <1>11 DEF StopSteps

\* A reaper thread keeps the state typed.
LEMMA TypeReaperSteps ==
  ASSUME StateTyped, NEW p \in Pids, ReaperStep(p)
  PROVE  StateTyped'
<1> USE DEF cache, disk, used, acks, IoFails, IoWorks
<1>1. CASE ReaperWait(p)
  <2>1. proc' \in [Pids -> Processes]
    BY <1>1, ProcessTypes DEF ReaperWait, StateTyped
  <2>2. QED
    BY <1>1, <2>1 DEF ReaperWait, StateTyped
<1>2. CASE ReaperIo(p)
  BY <1>2 DEF ReaperIo, StateTyped
<1>3. CASE ReaperRecord(p)
  <2> DEFINE c == proc[p].ct
  <2>1. proc[p].code \in Codes
    BY DEF StateTyped, Processes
  <2>2. \A d \in Containers : Exited(cacheCt[d], proc[p].code) \in CtRecords
    BY <2>1, RecordTypes DEF StateTyped
  <2>3. /\ cacheCt' \in {cacheCt, [cacheCt EXCEPT ![c] = Exited(@, proc[p].code)]}
        /\ diskCt' \in {diskCt, [diskCt EXCEPT ![c] = Exited(cacheCt[c], proc[p].code)]}
    BY <1>3 DEF ReaperRecord
  <2>4. cacheCt' \in [Containers -> CtRecords] /\ diskCt' \in [Containers -> CtRecords]
    BY <2>2, <2>3 DEF StateTyped
  <2>5. QED
    BY <1>3, <2>4 DEF ReaperRecord, StateTyped
<1>4. QED
  BY <1>1, <1>2, <1>3 DEF ReaperStep

\* The kernel, a crash and `open` keep the state typed and the steps fitting.
LEMMA TypedEnvironment ==
  ASSUME Typed, Environment
  PROVE  Typed'
<1> USE DEF cache, disk, used, acks, IoFails, IoWorks
<1>0. StateTyped /\ StepsFit
  BY DEF Typed
<1>1. CASE Crash
  <2>1. /\ cacheCt' \in [Containers -> CtRecords]
        /\ cacheSb' \in [Sandboxes -> SbStates]
    BY <1>1, RecordTypes DEF Crash, SbStates
  <2>2. proc' \in [Pids -> Processes]
    BY <1>0, <1>1, ProcessTypes DEF Crash, StateTyped
  <2>3. reaper' \in [Pids -> {"none", "wait", "io", "record"}]
    BY <1>1 DEF Crash
  <2>4. StateTyped'
    <3>1. crashes' \in Nat /\ io' \subseteq Containers
      BY <1>0, <1>1 DEF Crash, StateTyped
    <3>2. up' \in BOOLEAN
      <4>1. up' = FALSE
        BY <1>1 DEF Crash
      <4>2. QED
        BY <4>1, Zenon
    <3>3. UNCHANGED <<diskSb, diskCt, usedSb, usedCt, ackSb, ackCt, ioErrors>>
      BY <1>1 DEF Crash
    <3>4. QED
      BY <1>0, <2>1, <2>2, <2>3, <3>1, <3>2, <3>3 DEF StateTyped
  <2>5. Fits("idle", IdleFrame)
    BY DEF Fits, RunLabels, StopSbLabels, RemSbLabels, CreateLabels, StartLabels, StopLabels, RemLabels, IdleFrame
  <2>6. StepsFit'
    BY <1>1, <2>5, IdleFrameType DEF Crash, StepsFit, Labels
  <2>7. QED
    BY <2>4, <2>6 DEF Typed
<1>2. CASE Opened
  BY <1>0, <1>2, Rest DEF Opened, Typed, StateTyped
<1>3. ASSUME NEW c \in Containers, OpenContainer(c) PROVE Typed'
  <2>1. cacheCt' \in [Containers -> CtRecords] /\ diskCt' \in [Containers -> CtRecords]
    BY <1>0, <1>3, RecordTypes DEF OpenContainer, StateTyped
  <2>2. QED
    BY <1>0, <1>3, <2>1, Rest DEF OpenContainer, Typed, StateTyped
<1>4. ASSUME NEW p \in Pids, ProcessExits(p) PROVE Typed'
  <2>1. PICK code \in Codes : proc' = [proc EXCEPT ![p] = Ended(@, code)]
    BY <1>4 DEF ProcessExits, Codes, OwnExit, TermExit
  <2>2. proc' \in [Pids -> Processes]
    BY <1>0, <2>1, ProcessTypes DEF StateTyped
  <2>3. QED
    BY <1>0, <1>4, <2>2, Rest DEF ProcessExits, Typed, StateTyped
<1>5. ASSUME NEW p \in Pids, PidReused(p) PROVE Typed'
  <2>1. proc' \in [Pids -> Processes]
    BY <1>0, <1>5, ProcessTypes DEF PidReused, StateTyped
  <2>2. QED
    BY <1>0, <1>5, <2>1, Rest DEF PidReused, Typed, StateTyped
<1>6. QED
  BY <1>1, <1>2, <1>3, <1>4, <1>5 DEF Environment

\* The initial state is well typed.
LEMMA TypedInit == Init => Typed
<1>1. Fits("idle", IdleFrame)
  BY DEF Fits, RunLabels, StopSbLabels, RemSbLabels, CreateLabels, StartLabels, StopLabels, RemLabels, IdleFrame
<1>2. QED
  BY <1>1, IdleFrameType, RecordTypes, ProcessTypes
  DEF Init, Typed, StateTyped, StepsFit, SbStates, Labels

\* Every step keeps it so.
LEMMA TypedStep == Typed /\ [Next]_vars => Typed'
<1> SUFFICES ASSUME Typed, [Next]_vars PROVE Typed'
  OBVIOUS
<1>1. CASE UNCHANGED vars
  BY <1>1 DEF vars, cache, disk, used, acks, Typed, StateTyped, StepsFit
<1>2. ASSUME NEW t \in Threads, Calls(t) PROVE Typed'
  BY <1>2, TypedCalls
<1>3. ASSUME NEW t \in Threads, ThreadStep(t) PROVE Typed'
  BY <1>3, TypeSandboxSteps, TypeStartSteps, TypeStopSteps, FitSandboxSteps, FitStartSteps,
     FitStopSteps DEF ThreadStep, Typed
<1>4. ASSUME NEW p \in Pids, ReaperStep(p) PROVE Typed'
  <2>1. UNCHANGED <<pc, fr>>
    BY <1>4 DEF ReaperStep, ReaperWait, ReaperIo, ReaperRecord
  <2>2. QED
    BY <1>4, <2>1, TypeReaperSteps, Rest DEF Typed
<1>5. CASE Environment
  BY <1>5, TypedEnvironment
<1>6. QED
  BY <1>1, <1>2, <1>3, <1>4, <1>5 DEF Next

\* The typed states are those of the run's type invariant.
LEMMA TypedIsTypeOK == Typed => TypeOK
  BY DEF Typed, StateTyped, StepsFit, TypeOK

\* Typed, and with it that every call stays on its own steps, at every instance.
THEOREM AlwaysTyped == Spec => []Typed
  BY TypedInit, TypedStep, PTL DEF Spec

\* Type correctness of the backend, for every instance: cache and disk hold only
\* records the code can build, and every thread stands at a step of the code.
THEOREM TypeCorrect == Spec => []TypeOK
  BY AlwaysTyped, TypedIsTypeOK, PTL

-----------------------------------------------------------------------------
(* Persist before visible: what the cache shows is on disk.  The proof is  *)
(* about who has which record in hand: a thread that inserts has written,  *)
(* one that unlinks has dropped, and an id being minted is in nobody       *)
(* else's hands.                                                           *)

\* An id that was never minted names nothing, and every id a thread holds was.
IdsMinted ==
  /\ \A s \in Sandboxes : s \notin usedSb => cacheSb[s] = "absent" /\ diskSb[s] = "absent"
  /\ \A c \in Containers : c \notin usedCt =>
       cacheCt[c].state = "absent" /\ diskCt[c].state = "absent"
  /\ \A t \in Threads : /\ fr[t].sb \in usedSb \cup {None}
                        /\ fr[t].ct \in usedCt \cup {None}
                        /\ fr[t].todo \subseteq usedCt

\* The id a call is minting is in no other thread's hands and not in the cache.
MintsAlone ==
  \A t \in Threads :
    /\ fr[t].op = "RunSandbox" =>
         /\ cacheSb[fr[t].sb] = "absent"
         /\ \A u \in Threads \ {t} : fr[u].sb # fr[t].sb
    /\ fr[t].op = "CreateContainer" =>
         /\ cacheCt[fr[t].ct].state = "absent"
         /\ \A u \in Threads \ {t} : fr[u].ct # fr[t].ct /\ fr[t].ct \notin fr[u].todo

\* What a thread at this label, with this frame, knows of cache and disk.
Inserts(l, f) ==
  /\ l = "run_insert" => diskSb[f.sb] # "absent"
  /\ l = "cc_insert" => diskCt[f.ct].state # "absent"
Unlinks(l, f) ==
  /\ l = "rs_unlink" => cacheSb[f.sb] = "absent"
  /\ l \in {"rc_io", "rc_unlink"} => cacheCt[f.ct].state = "absent"
Writes(l, f) ==
  l \in {"st_intent_write", "st_failed_write", "st_pid_write", "sc_mark_write"} =>
    f.rec.state # "absent"

HandsRight ==
  \A t \in Threads : Inserts(pc[t], fr[t]) /\ Unlinks(pc[t], fr[t]) /\ Writes(pc[t], fr[t])

DownIsIdle == ~up => \A t \in Threads : pc[t] = "idle"

Safe == IdsMinted /\ MintsAlone /\ HandsRight /\ DownIsIdle /\ VisibleIsDurable

-----------------------------------------------------------------------------
(* Which records a thread's step may touch.  `f` is its next frame.          *)

\* The cache loses records, or gains the one the thread has minted and written, as
\* its call returns; the disk gains the record of the frame, or loses it when the
\* cache does not have it.
SbStep(t, f) ==
  \A s \in Sandboxes :
    /\ cacheSb'[s] # "absent" =>
         \/ cacheSb[s] # "absent"
         \/ f.op = "none" /\ fr[t].op = "RunSandbox" /\ s = fr[t].sb /\ diskSb[s] # "absent"
    /\ diskSb[s] # "absent" =>
         diskSb'[s] # "absent" \/ (s = fr[t].sb /\ cacheSb'[s] = "absent")
    /\ diskSb'[s] # "absent" => diskSb[s] # "absent" \/ s = fr[t].sb

CtStep(t, f) ==
  \A c \in Containers :
    /\ cacheCt'[c].state # "absent" =>
         \/ cacheCt[c].state # "absent"
         \/ /\ f.op = "none" /\ fr[t].op = "CreateContainer" /\ c = fr[t].ct
            /\ diskCt[c].state # "absent"
    /\ diskCt[c].state # "absent" =>
         diskCt'[c].state # "absent" \/ (c = fr[t].ct /\ cacheCt'[c].state = "absent")
    /\ diskCt'[c].state # "absent" => diskCt[c].state # "absent" \/ c = fr[t].ct

\* The next frame holds nothing the thread did not hold, but for containers it found
\* in the cache.
FrameStep(t, f) ==
  /\ f.op \in {fr[t].op, "none"}
  /\ f.sb \in {fr[t].sb, None}
  /\ f.ct \in {fr[t].ct, None} \cup fr[t].todo
  /\ f.op \in {"RunSandbox", "CreateContainer"} => f.sb = fr[t].sb /\ f.ct = fr[t].ct
  /\ \A c \in f.todo : c \in fr[t].todo \/ cacheCt[c].state # "absent"

\* Inserts, Unlinks and Writes in the next state.
Settled(l, f) ==
  /\ l = "run_insert" => diskSb'[f.sb] # "absent"
  /\ l = "cc_insert" => diskCt'[f.ct].state # "absent"
  /\ l = "rs_unlink" => cacheSb'[f.sb] = "absent"
  /\ l \in {"rc_io", "rc_unlink"} => cacheCt'[f.ct].state = "absent"
  /\ Writes(l, f)

\* A step of a thread with such effects keeps the invariant.
LEMMA Keeps ==
  ASSUME Typed, Safe, NEW t \in Threads, NEW l \in Labels, NEW f \in Frames,
         up, UNCHANGED <<up, usedSb, usedCt>>,
         Goto(t, l), fr' = [fr EXCEPT ![t] = f],
         SbStep(t, f), CtStep(t, f), FrameStep(t, f), Settled(l, f)
  PROVE  Safe'
<1>1. /\ pc \in [Threads -> Labels] /\ fr \in [Threads -> Frames]
      /\ \A u \in Threads : Fits(pc[u], fr[u])
  BY DEF Typed, StepsFit
<1>2. /\ pc'[t] = l /\ fr'[t] = f
      /\ \A u \in Threads \ {t} : pc'[u] = pc[u] /\ fr'[u] = fr[u]
  BY <1>1 DEF Goto
<1>3. None \notin Sandboxes /\ None \notin Containers
  BY ConstantsOK
<1>4. usedSb \subseteq Sandboxes /\ usedCt \subseteq Containers
  BY DEF Typed, StateTyped
<1>5. IdsMinted'
  <2>1. ASSUME NEW s \in Sandboxes, s \notin usedSb
        PROVE  cacheSb'[s] = "absent" /\ diskSb'[s] = "absent"
    BY <2>1, <1>3 DEF Safe, IdsMinted, SbStep
  <2>2. ASSUME NEW c \in Containers, c \notin usedCt
        PROVE  cacheCt'[c].state = "absent" /\ diskCt'[c].state = "absent"
    BY <2>2, <1>3 DEF Safe, IdsMinted, CtStep
  <2>3. ASSUME NEW u \in Threads
        PROVE  fr'[u].sb \in usedSb \cup {None} /\ fr'[u].ct \in usedCt \cup {None}
               /\ fr'[u].todo \subseteq usedCt
    <3>1. CASE u = t
      <4>1. f.todo \subseteq Containers
        BY DEF Frames
      <4>2. QED
        BY <1>2, <3>1, <4>1 DEF Safe, IdsMinted, FrameStep
    <3>2. CASE u # t
      BY <1>2, <3>2 DEF Safe, IdsMinted
    <3>3. QED
      BY <3>1, <3>2
  <2>4. QED
    BY <2>1, <2>2, <2>3 DEF IdsMinted
<1>6. MintsAlone'
  <2>1. ASSUME NEW u \in Threads, fr'[u].op = "RunSandbox"
        PROVE  /\ cacheSb'[fr'[u].sb] = "absent"
               /\ \A v \in Threads \ {u} : fr'[v].sb # fr'[u].sb
    <3>1. fr[u].op = "RunSandbox" /\ fr'[u].sb = fr[u].sb
      BY <1>2, <2>1 DEF FrameStep
    <3>2. fr[u].sb \in Sandboxes
      BY <1>1, <3>1 DEF Fits
    <3>3. /\ cacheSb[fr[u].sb] = "absent"
          /\ \A v \in Threads \ {u} : fr[v].sb # fr[u].sb
      BY <3>1 DEF Safe, MintsAlone
    <3>4. cacheSb'[fr[u].sb] = "absent"
      BY <1>2, <2>1, <3>2, <3>3 DEF SbStep
    <3>5. \A v \in Threads \ {u} : fr'[v].sb \in {fr[v].sb, None}
      BY <1>2 DEF FrameStep
    <3>6. QED
      BY <1>3, <3>1, <3>2, <3>3, <3>4, <3>5
  <2>2. ASSUME NEW u \in Threads, fr'[u].op = "CreateContainer"
        PROVE  /\ cacheCt'[fr'[u].ct].state = "absent"
               /\ \A v \in Threads \ {u} : fr'[v].ct # fr'[u].ct /\ fr'[u].ct \notin fr'[v].todo
    <3>1. fr[u].op = "CreateContainer" /\ fr'[u].ct = fr[u].ct
      BY <1>2, <2>2 DEF FrameStep
    <3>2. fr[u].ct \in Containers
      BY <1>1, <3>1 DEF Fits
    <3>3. /\ cacheCt[fr[u].ct].state = "absent"
          /\ \A v \in Threads \ {u} : fr[v].ct # fr[u].ct /\ fr[u].ct \notin fr[v].todo
      BY <3>1 DEF Safe, MintsAlone
    <3>4. cacheCt'[fr[u].ct].state = "absent"
      BY <1>2, <2>2, <3>2, <3>3 DEF CtStep
    <3>5. \A v \in Threads \ {u} :
            /\ fr'[v].ct \in {fr[v].ct, None} \cup fr[v].todo
            /\ \A c \in fr'[v].todo : c \in fr[v].todo \/ cacheCt[c].state # "absent"
      BY <1>2 DEF FrameStep
    <3>6. QED
      BY <1>3, <3>1, <3>2, <3>3, <3>4, <3>5
  <2>3. QED
    BY <2>1, <2>2 DEF MintsAlone
<1>7. HandsRight'
  <2>1. ASSUME NEW u \in Threads
        PROVE  (Inserts(pc[u], fr[u]) /\ Unlinks(pc[u], fr[u]) /\ Writes(pc[u], fr[u]))'
    <3>1. CASE u = t
      BY <1>2, <3>1 DEF Settled, Inserts, Unlinks, Writes
    <3>2. CASE u # t
      <4>1. pc'[u] = pc[u] /\ fr'[u] = fr[u] /\ Fits(pc[u], fr[u])
        BY <1>1, <1>2, <3>2
      <4>2. Inserts(pc[u], fr[u]) /\ Unlinks(pc[u], fr[u]) /\ Writes(pc[u], fr[u])
        BY DEF Safe, HandsRight
      <4>3. fr[u].op = "RunSandbox" =>
              fr[u].sb \in Sandboxes /\ fr[t].sb # fr[u].sb /\ cacheSb[fr[u].sb] = "absent"
        BY <3>2, <4>1 DEF Safe, MintsAlone, Fits
      <4>4. fr[u].op = "CreateContainer" =>
              fr[u].ct \in Containers /\ fr[t].ct # fr[u].ct /\ cacheCt[fr[u].ct].state = "absent"
        BY <3>2, <4>1 DEF Safe, MintsAlone, Fits
      <4>5. pc[u] = "run_insert" => diskSb'[fr[u].sb] # "absent"
        BY <4>1, <4>2, <4>3 DEF Inserts, SbStep, Fits, RunLabels
      <4>6. pc[u] = "cc_insert" => diskCt'[fr[u].ct].state # "absent"
        BY <4>1, <4>2, <4>4 DEF Inserts, CtStep, Fits, CreateLabels
      <4>7. pc[u] = "rs_unlink" => cacheSb'[fr[u].sb] = "absent"
        <5>1. SUFFICES ASSUME pc[u] = "rs_unlink" PROVE cacheSb'[fr[u].sb] = "absent"
          OBVIOUS
        <5>2. fr[u].sb \in Sandboxes /\ cacheSb[fr[u].sb] = "absent"
          BY <4>1, <4>2, <5>1 DEF Unlinks, Fits, RemSbLabels
        <5>3. fr[t].op = "RunSandbox" => fr[u].sb # fr[t].sb
          BY <3>2 DEF Safe, MintsAlone
        <5>4. QED
          BY <5>2, <5>3 DEF SbStep
      <4>8. pc[u] \in {"rc_io", "rc_unlink"} => cacheCt'[fr[u].ct].state = "absent"
        <5>1. SUFFICES ASSUME pc[u] \in {"rc_io", "rc_unlink"}
                       PROVE  cacheCt'[fr[u].ct].state = "absent"
          OBVIOUS
        <5>2. fr[u].ct \in Containers /\ cacheCt[fr[u].ct].state = "absent"
          BY <4>1, <4>2, <5>1 DEF Unlinks, Fits, RemLabels
        <5>3. fr[t].op = "CreateContainer" => fr[u].ct # fr[t].ct
          BY <3>2 DEF Safe, MintsAlone
        <5>4. QED
          BY <5>2, <5>3 DEF CtStep
      <4>9. QED
        BY <4>1, <4>2, <4>5, <4>6, <4>7, <4>8 DEF Inserts, Unlinks, Writes
    <3>3. QED
      BY <3>1, <3>2
  <2>2. QED
    BY <2>1 DEF HandsRight
<1>8. VisibleIsDurable'
  BY DEF Safe, VisibleIsDurable, SbStep, CtStep
<1>9. DownIsIdle'
  BY DEF DownIsIdle
<1>10. QED
  BY <1>5, <1>6, <1>7, <1>8, <1>9 DEF Safe

\* So does one that moves on with its frame.
LEMMA GoOn ==
  ASSUME Typed, Safe, NEW t \in Threads, NEW l \in Labels,
         up, UNCHANGED <<up, usedSb, usedCt>>, Goto(t, l), UNCHANGED fr,
         SbStep(t, fr[t]), CtStep(t, fr[t]), Settled(l, fr[t])
  PROVE  Safe'
<1> DEFINE f == fr[t]
<1>1. f \in Frames /\ fr' = [fr EXCEPT ![t] = f]
  BY DEF Typed, StepsFit
<1>2. FrameStep(t, f)
  BY DEF FrameStep
<1>3. SbStep(t, f) /\ CtStep(t, f) /\ Settled(l, f)
  OBVIOUS
<1> HIDE DEF f
<1>4. QED
  BY <1>1, <1>2, <1>3, Keeps

\* And one whose call returns.
LEMMA GoHome ==
  ASSUME Typed, Safe, NEW t \in Threads,
         up, UNCHANGED <<up, usedSb, usedCt>>, Return(t),
         SbStep(t, IdleFrame), CtStep(t, IdleFrame)
  PROVE  Safe'
<1>1. FrameStep(t, IdleFrame)
  BY DEF FrameStep, IdleFrame
<1>2. Settled("idle", IdleFrame) /\ "idle" \in Labels
  BY DEF Settled, Writes, Labels
<1>3. QED
  BY <1>1, <1>2, IdleFrameType, Keeps DEF Return

\* A step that leaves the records alone.
LEMMA Untouched ==
  ASSUME NEW t \in Threads, NEW f
  PROVE  /\ UNCHANGED <<cacheSb, diskSb>> => SbStep(t, f)
         /\ UNCHANGED <<cacheCt, diskCt>> => CtStep(t, f)
  BY DEF SbStep, CtStep

\* What the actions do to a record never makes it absent, nor brings one back.
LEMMA RecordStates ==
  /\ Absent.state = "absent"
  /\ \A s \in Sandboxes : NewRecord(s).state = "Created"
  /\ \A rec \in CtRecords : Intent(rec).state = "Running"
  /\ \A rec \in CtRecords, k \in Codes : Exited(rec, k).state = "Exited"
  /\ \A rec \in CtRecords, p \in Pids \cup {0} : [rec EXCEPT !.pid = p].state = rec.state
  /\ \A rec \in CtRecords : rec.state # "absent" => Recovered(rec).state # "absent"
<1>1. \A rec \in CtRecords, k \in Codes : Exited(rec, k).state = "Exited"
  BY DEF Exited, CtRecords
<1>2. LostExit \in Codes
  BY DEF LostExit, Codes
<1>3. \A rec \in CtRecords : rec.state # "absent" => Recovered(rec).state # "absent"
  BY <1>1, <1>2 DEF Recovered
<1>4. QED
  BY <1>1, <1>3 DEF Absent, NewRecord, Intent, CtRecords

\* run_sandbox, stop_sandbox and remove_sandbox keep the invariant.
LEMMA SafeSandboxSteps ==
  ASSUME Typed, Safe, NEW t \in Threads, SandboxSteps(t)
  PROVE  Safe'
<1> USE DEF At, cache, disk, used, acks, IoFails, IoWorks, IoErrorReturn
<1>0. /\ StateTyped /\ fr[t] \in Frames /\ Fits(pc[t], fr[t])
      /\ Inserts(pc[t], fr[t]) /\ Unlinks(pc[t], fr[t]) /\ Writes(pc[t], fr[t])
  BY DEF Typed, StepsFit, Safe, HandsRight
<1>1. CASE RunWrite(t)
  <2>1. SbStep(t, fr[t]) /\ SbStep(t, IdleFrame)
    BY <1>0, <1>1 DEF RunWrite, SbStep, StateTyped
  <2>2. fr[t].sb \in Sandboxes
    BY <1>0, <1>1 DEF RunWrite, Fits, RunLabels
  <2>3. QED
    BY <1>0, <1>1, <2>1, <2>2, Untouched, GoOn, GoHome DEF RunWrite, StateTyped, Settled, Writes, Labels
<1>2. CASE RunInsert(t)
  <2>1. SbStep(t, IdleFrame)
    BY <1>0, <1>2 DEF RunInsert, SbStep, StateTyped, IdleFrame, Inserts, Fits, RunLabels
  <2>2. QED
    BY <1>0, <1>2, <2>1, Untouched, GoOn, GoHome DEF RunInsert
<1>3. CASE StopSandboxMark(t)
  <2>1. SbStep(t, fr[t]) /\ SbStep(t, IdleFrame)
    BY <1>0, <1>3 DEF StopSandboxMark, SbStep, StateTyped, SandboxStopped
  <2>2. QED
    BY <1>0, <1>3, <2>1, Untouched, GoOn, GoHome DEF StopSandboxMark, SandboxStopped, Settled, Writes, Labels
<1>4. CASE StopSandboxWrite(t)
  <2>1. SbStep(t, fr[t]) /\ SbStep(t, IdleFrame)
    BY <1>0, <1>4 DEF StopSandboxWrite, SbStep, StateTyped, SandboxStopped
  <2>2. QED
    BY <1>0, <1>4, <2>1, Untouched, GoOn, GoHome DEF StopSandboxWrite, SandboxStopped, Settled, Writes, Labels
<1>5. CASE RemoveSandboxScan(t)
  <2> DEFINE f == [fr[t] EXCEPT !.todo = ContainersOf(fr[t].sb)]
  <2>1. CASE Return(t)
    BY <1>0, <1>5, <2>1, Untouched, GoHome DEF RemoveSandboxScan
  <2>2. CASE fr' = [fr EXCEPT ![t] = f] /\ Goto(t, "rs_next")
    <3>1. f \in Frames /\ FrameStep(t, f)
      BY <1>0 DEF Frames, FrameStep, ContainersOf
    <3>2. Settled("rs_next", f) /\ "rs_next" \in Labels
      BY DEF Settled, Writes, Labels
    <3>3. SbStep(t, f) /\ CtStep(t, f)
      BY <1>5, Untouched DEF RemoveSandboxScan
    <3>4. up /\ UNCHANGED <<up, usedSb, usedCt>>
      BY <1>5 DEF RemoveSandboxScan
    <3> HIDE DEF f
    <3>5. QED
      BY <2>2, <3>1, <3>2, <3>3, <3>4, Keeps
  <2>3. QED
    BY <1>5, <2>1, <2>2 DEF RemoveSandboxScan
<1>6. CASE RemoveSandboxNext(t)
  <2>1. ASSUME NEW c \in fr[t].todo, Goto(t, "sc_check"),
               fr' = [fr EXCEPT ![t].ct = c, ![t].todo = @ \ {c},
                                   ![t].grace = FALSE, ![t].from = "cascade"]
        PROVE  Safe'
    <3> DEFINE f == [fr[t] EXCEPT !.ct = c, !.todo = @ \ {c}, !.grace = FALSE,
                                  !.from = "cascade"]
    <3>1. f \in Frames /\ FrameStep(t, f)
      BY <1>0, <1>6 DEF RemoveSandboxNext, Frames, FrameStep, Fits, RemSbLabels
    <3>2. Settled("sc_check", f) /\ "sc_check" \in Labels
      BY DEF Settled, Writes, Labels
    <3>3. SbStep(t, f) /\ CtStep(t, f)
      BY <1>6, Untouched DEF RemoveSandboxNext
    <3>4. up /\ UNCHANGED <<up, usedSb, usedCt>> /\ fr' = [fr EXCEPT ![t] = f]
      BY <1>6, <2>1 DEF RemoveSandboxNext
    <3> HIDE DEF f
    <3>5. QED
      BY <2>1, <3>1, <3>2, <3>3, <3>4, Keeps
  <2>2. QED
    BY <1>0, <1>6, <2>1, Untouched, GoOn, GoHome DEF RemoveSandboxNext, Settled, Writes, Labels
<1>7. CASE RemoveSandboxDrop(t)
  <2>1. SbStep(t, fr[t]) /\ SbStep(t, IdleFrame)
    BY <1>0, <1>7 DEF RemoveSandboxDrop, SbStep, StateTyped
  <2>2. fr[t].sb \in Sandboxes
    BY <1>0, <1>7 DEF RemoveSandboxDrop, Fits, RemSbLabels
  <2>3. QED
    BY <1>0, <1>7, <2>1, <2>2, Untouched, GoOn, GoHome DEF RemoveSandboxDrop, StateTyped, Settled, Writes, Labels
<1>8. CASE RemoveSandboxUnlink(t)
  <2>1. SbStep(t, IdleFrame)
    BY <1>0, <1>8 DEF RemoveSandboxUnlink, SbStep, StateTyped, Unlinks
  <2>2. QED
    BY <1>0, <1>8, <2>1, Untouched, GoOn, GoHome DEF RemoveSandboxUnlink
<1>9. QED
  BY <1>1, <1>2, <1>3, <1>4, <1>5, <1>6, <1>7, <1>8 DEF SandboxSteps

\* create_container and start_container keep the invariant.
LEMMA SafeStartSteps ==
  ASSUME Typed, Safe, NEW t \in Threads, StartSteps(t)
  PROVE  Safe'
<1> USE DEF At, cache, disk, used, acks, IoFails, IoWorks, IoErrorReturn
<1>0. /\ StateTyped /\ fr[t] \in Frames /\ Fits(pc[t], fr[t])
      /\ Inserts(pc[t], fr[t]) /\ Unlinks(pc[t], fr[t]) /\ Writes(pc[t], fr[t])
  BY DEF Typed, StepsFit, Safe, HandsRight
<1>1. CASE CreateCheck(t)
  BY <1>0, <1>1, Untouched, GoOn, GoHome DEF CreateCheck, Settled, Writes, Labels
<1>2. CASE CreateWrite(t)
  <2>1. NewRecord(fr[t].sb).state # "absent" /\ fr[t].ct \in Containers
    BY <1>0, <1>2, RecordStates DEF CreateWrite, Fits, CreateLabels
  <2>2. CtStep(t, fr[t]) /\ CtStep(t, IdleFrame)
    BY <1>0, <1>2, <2>1 DEF CreateWrite, CtStep, StateTyped
  <2>3. QED
    BY <1>0, <1>2, <2>1, <2>2, Untouched, GoOn, GoHome DEF CreateWrite, StateTyped, Settled, Writes, Labels
<1>3. CASE CreateInsert(t)
  <2>1. CtStep(t, IdleFrame)
    BY <1>0, <1>3 DEF CreateInsert, CtStep, StateTyped, IdleFrame, Inserts, Fits, CreateLabels
  <2>2. QED
    BY <1>0, <1>3, <2>1, Untouched, GoHome DEF CreateInsert
<1>4. CASE StartCheck(t)
  BY <1>0, <1>4, Untouched, GoOn, GoHome DEF StartCheck, Settled, Writes, Labels
<1>5. CASE StartIntent(t)
  <2> DEFINE f == [fr[t] EXCEPT !.rec = Intent(cacheCt[fr[t].ct])]
  <2>1. fr[t].ct \in Containers
    BY <1>0, <1>5 DEF StartIntent, Fits, StartLabels, StopLabels
  <2>2. Intent(cacheCt[fr[t].ct]) \in CtRecords
    BY <1>0, <2>1, RecordTypes DEF StateTyped, Frames, Codes, LostExit, TermExit, KillExit
  <2>3. ASSUME cacheCt' = [cacheCt EXCEPT ![fr[t].ct] = Intent(cacheCt[fr[t].ct])],
               cacheCt[fr[t].ct].state # "absent",
               fr' = [fr EXCEPT ![t] = f], Goto(t, "st_intent_write")
        PROVE  Safe'
    <3>1. Intent(cacheCt[fr[t].ct]).state # "absent"
      BY <1>0, <2>1, <2>3, RecordStates DEF StateTyped, Frames, Codes, LostExit, TermExit, KillExit
    <3>2. f \in Frames /\ FrameStep(t, f)
      BY <1>0, <2>2 DEF Frames, FrameStep
    <3>3. f.rec = Intent(cacheCt[fr[t].ct])
      BY <1>0 DEF Frames
    <3>4. Settled("st_intent_write", f) /\ "st_intent_write" \in Labels
      BY <3>1, <3>3 DEF Settled, Writes, Labels
    <3>5. CtStep(t, f)
      BY <1>0, <1>5, <2>3, <2>1 DEF StartIntent, CtStep, StateTyped
    <3>6. SbStep(t, f) /\ up /\ UNCHANGED <<up, usedSb, usedCt>>
      BY <1>5, Untouched DEF StartIntent
    <3> HIDE DEF f
    <3>7. QED
      BY <2>3, <3>2, <3>4, <3>5, <3>6, Keeps
  <2>4. CASE UNCHANGED cacheCt /\ Return(t)
    BY <1>0, <1>5, <2>4, Untouched, GoHome DEF StartIntent
  <2>5. QED
    BY <1>5, <2>3, <2>4 DEF StartIntent
<1>6. CASE StartIntentWrite(t)
  <2>1. CtStep(t, fr[t]) /\ CtStep(t, IdleFrame)
    BY <1>0, <1>6 DEF StartIntentWrite, CtStep, StateTyped, Writes
  <2>2. QED
    BY <1>0, <1>6, <2>1, Untouched, GoOn, GoHome DEF StartIntentWrite, Settled, Writes, Labels
<1>7. CASE StartSpawn(t)
  <2>1. ASSUME NEW p \in Pids, fr' = [fr EXCEPT ![t].pid = p], Goto(t, "st_io")
        PROVE  Safe'
    <3> DEFINE f == [fr[t] EXCEPT !.pid = p]
    <3>1. f \in Frames /\ FrameStep(t, f)
      BY <1>0 DEF Frames, FrameStep
    <3>2. Settled("st_io", f) /\ "st_io" \in Labels
      BY DEF Settled, Writes, Labels
    <3>3. SbStep(t, f) /\ CtStep(t, f)
      BY <1>7, Untouched DEF StartSpawn
    <3>4. up /\ UNCHANGED <<up, usedSb, usedCt>> /\ fr' = [fr EXCEPT ![t] = f]
      BY <1>7, <2>1 DEF StartSpawn
    <3> HIDE DEF f
    <3>5. QED
      BY <2>1, <3>1, <3>2, <3>3, <3>4, Keeps
  <2>2. QED
    BY <1>0, <1>7, <2>1, Untouched, GoOn DEF StartSpawn, Settled, Writes, Labels
<1>8. CASE StartFailed(t)
  <2> DEFINE f == [fr[t] EXCEPT !.rec = Exited(cacheCt[fr[t].ct], LostExit)]
  <2>1. fr[t].ct \in Containers
    BY <1>0, <1>8 DEF StartFailed, Fits, StartLabels, StopLabels
  <2>2. Exited(cacheCt[fr[t].ct], LostExit) \in CtRecords
    BY <1>0, <2>1, RecordTypes DEF StateTyped, Frames, Codes, LostExit, TermExit, KillExit
  <2>3. ASSUME cacheCt' = [cacheCt EXCEPT ![fr[t].ct] = Exited(cacheCt[fr[t].ct], LostExit)],
               cacheCt[fr[t].ct].state # "absent",
               fr' = [fr EXCEPT ![t] = f], Goto(t, "st_failed_write")
        PROVE  Safe'
    <3>1. Exited(cacheCt[fr[t].ct], LostExit).state # "absent"
      BY <1>0, <2>1, <2>3, RecordStates DEF StateTyped, Frames, Codes, LostExit, TermExit, KillExit
    <3>2. f \in Frames /\ FrameStep(t, f)
      BY <1>0, <2>2 DEF Frames, FrameStep
    <3>3. f.rec = Exited(cacheCt[fr[t].ct], LostExit)
      BY <1>0 DEF Frames
    <3>4. Settled("st_failed_write", f) /\ "st_failed_write" \in Labels
      BY <3>1, <3>3 DEF Settled, Writes, Labels
    <3>5. CtStep(t, f)
      BY <1>0, <1>8, <2>3, <2>1 DEF StartFailed, CtStep, StateTyped
    <3>6. SbStep(t, f) /\ up /\ UNCHANGED <<up, usedSb, usedCt>>
      BY <1>8, Untouched DEF StartFailed
    <3> HIDE DEF f
    <3>7. QED
      BY <2>3, <3>2, <3>4, <3>5, <3>6, Keeps
  <2>4. CASE UNCHANGED cacheCt /\ Return(t)
    BY <1>0, <1>8, <2>4, Untouched, GoHome DEF StartFailed
  <2>5. QED
    BY <1>8, <2>3, <2>4 DEF StartFailed
<1>9. CASE StartFailedWrite(t)
  <2>1. CtStep(t, IdleFrame)
    BY <1>0, <1>9 DEF StartFailedWrite, CtStep, StateTyped, Writes
  <2>2. QED
    BY <1>0, <1>9, <2>1, Untouched, GoHome DEF StartFailedWrite
<1>10. CASE StartIo(t)
  BY <1>0, <1>10, Untouched, GoOn, GoHome DEF StartIo, Settled, Writes, Labels
<1>11. CASE StartPid(t)
  <2> DEFINE f == [fr[t] EXCEPT !.rec = [cacheCt[fr[t].ct] EXCEPT !.pid = fr[t].pid]]
  <2>1. fr[t].ct \in Containers
    BY <1>0, <1>11 DEF StartPid, Fits, StartLabels, StopLabels
  <2>2. [cacheCt[fr[t].ct] EXCEPT !.pid = fr[t].pid] \in CtRecords
    BY <1>0, <2>1, RecordTypes DEF StateTyped, Frames, Codes, LostExit, TermExit, KillExit
  <2>3. ASSUME cacheCt' = [cacheCt EXCEPT ![fr[t].ct] = [cacheCt[fr[t].ct] EXCEPT !.pid = fr[t].pid]],
               cacheCt[fr[t].ct].state # "absent",
               fr' = [fr EXCEPT ![t] = f], Goto(t, "st_pid_write")
        PROVE  Safe'
    <3>1. [cacheCt[fr[t].ct] EXCEPT !.pid = fr[t].pid].state # "absent"
      BY <1>0, <2>1, <2>3, RecordStates DEF StateTyped, Frames, Codes, LostExit, TermExit, KillExit
    <3>2. f \in Frames /\ FrameStep(t, f)
      BY <1>0, <2>2 DEF Frames, FrameStep
    <3>3. f.rec = [cacheCt[fr[t].ct] EXCEPT !.pid = fr[t].pid]
      BY <1>0 DEF Frames
    <3>4. Settled("st_pid_write", f) /\ "st_pid_write" \in Labels
      BY <3>1, <3>3 DEF Settled, Writes, Labels
    <3>5. CtStep(t, f)
      BY <1>0, <1>11, <2>3, <2>1 DEF StartPid, CtStep, StateTyped
    <3>6. SbStep(t, f) /\ up /\ UNCHANGED <<up, usedSb, usedCt>>
      BY <1>11, Untouched DEF StartPid
    <3> HIDE DEF f
    <3>7. QED
      BY <2>3, <3>2, <3>4, <3>5, <3>6, Keeps
  <2>4. CASE UNCHANGED cacheCt /\ Return(t)
    BY <1>0, <1>11, <2>4, Untouched, GoHome DEF StartPid
  <2>5. QED
    BY <1>11, <2>3, <2>4 DEF StartPid
<1>12. CASE StartPidWrite(t)
  <2>1. CtStep(t, IdleFrame)
    BY <1>0, <1>12 DEF StartPidWrite, CtStep, StateTyped, Writes
  <2>2. QED
    BY <1>0, <1>12, <2>1, Untouched, GoHome DEF StartPidWrite
<1>13. QED
  BY <1>1, <1>2, <1>3, <1>4, <1>5, <1>6, <1>7, <1>8, <1>9, <1>10, <1>11, <1>12 DEF StartSteps

\* stop_container and remove_container keep the invariant.
LEMMA SafeStopSteps ==
  ASSUME Typed, Safe, NEW t \in Threads, StopSteps(t)
  PROVE  Safe'
<1> USE DEF At, cache, disk, used, acks, IoFails, IoWorks, IoErrorReturn
<1>0. /\ StateTyped /\ fr[t] \in Frames /\ Fits(pc[t], fr[t])
      /\ Inserts(pc[t], fr[t]) /\ Unlinks(pc[t], fr[t]) /\ Writes(pc[t], fr[t])
  BY DEF Typed, StepsFit, Safe, HandsRight
<1>1. CASE StopCheck(t)
  <2>1. ASSUME NEW l \in {"sc_term", "sc_kill"}, cacheCt[fr[t].ct].pid # 0,
               fr' = [fr EXCEPT ![t].pid = cacheCt[fr[t].ct].pid], Goto(t, l)
        PROVE  Safe'
    <3> DEFINE f == [fr[t] EXCEPT !.pid = cacheCt[fr[t].ct].pid]
    <3>0. cacheCt[fr[t].ct].pid \in Pids \cup {0}
      BY <1>0, <1>1 DEF StopCheck, StateTyped, CtRecords, Fits, StopLabels
    <3>1. f \in Frames /\ FrameStep(t, f)
      BY <1>0, <3>0 DEF Frames, FrameStep
    <3>2. Settled(l, f) /\ l \in Labels
      BY DEF Settled, Writes, Labels
    <3>3. SbStep(t, f) /\ CtStep(t, f)
      BY <1>1, Untouched DEF StopCheck
    <3>4. up /\ UNCHANGED <<up, usedSb, usedCt>> /\ fr' = [fr EXCEPT ![t] = f]
      BY <1>1, <2>1 DEF StopCheck
    <3> HIDE DEF f
    <3>5. QED
      BY <2>1, <3>1, <3>2, <3>3, <3>4, Keeps
  <2>2. QED
    BY <1>0, <1>1, <2>1, Untouched, GoOn, GoHome DEF StopCheck, ContainerStopped, Settled, Writes, Labels
<1>2. CASE StopTerm(t)
  BY <1>0, <1>2, Untouched, GoOn, GoHome DEF StopTerm, Settled, Writes, Labels
<1>3. CASE StopGrace(t)
  BY <1>0, <1>3, Untouched, GoOn, GoHome DEF StopGrace, ContainerStopped, Settled, Writes, Labels
<1>4. CASE StopKill(t)
  BY <1>0, <1>4, Untouched, GoOn, GoHome DEF StopKill, Settled, Writes, Labels
<1>5. CASE StopWait(t)
  BY <1>0, <1>5, Untouched, GoOn, GoHome DEF StopWait, ContainerStopped, Settled, Writes, Labels
<1>6. CASE StopMark(t)
  <2>1. fr[t].ct \in Containers
    BY <1>0, <1>6 DEF StopMark, Fits, StopLabels
  <2>2. ASSUME NEW k \in {TermExit, KillExit},
               fr' = [fr EXCEPT ![t].rec = Exited(cacheCt[fr[t].ct], k)],
               cacheCt[fr[t].ct].state = "Running",
               cacheCt' = [cacheCt EXCEPT ![fr[t].ct] = Exited(cacheCt[fr[t].ct], k)],
               Goto(t, "sc_mark_write")
        PROVE  Safe'
    <3> DEFINE closed == Exited(cacheCt[fr[t].ct], k)
               f == [fr[t] EXCEPT !.rec = closed]
    <3>1. closed \in CtRecords /\ closed.state # "absent"
      <4>1. cacheCt[fr[t].ct] \in CtRecords /\ k \in Codes
        BY <1>0, <2>1, <2>2 DEF StateTyped, Codes, TermExit, KillExit
      <4>2. QED
        BY <4>1, RecordTypes, RecordStates
    <3>2. f \in Frames /\ FrameStep(t, f) /\ f.rec = closed
      BY <1>0, <3>1 DEF Frames, FrameStep
    <3>3. Settled("sc_mark_write", f) /\ "sc_mark_write" \in Labels
      BY <3>1, <3>2 DEF Settled, Writes, Labels
    <3>4. CtStep(t, f)
      BY <1>0, <1>6, <2>1, <2>2 DEF StopMark, CtStep, StateTyped
    <3>5. SbStep(t, f) /\ up /\ UNCHANGED <<up, usedSb, usedCt>>
      BY <1>6, Untouched DEF StopMark
    <3>6. fr' = [fr EXCEPT ![t] = f]
      BY <2>2
    <3> HIDE DEF f, closed
    <3>7. QED
      BY <2>2, <3>2, <3>3, <3>4, <3>5, <3>6, Keeps
  <2>3. CASE ContainerStopped(t) /\ UNCHANGED cacheCt
    BY <1>0, <1>6, <2>3, Untouched, GoOn, GoHome DEF StopMark, ContainerStopped, Settled, Writes, Labels
  <2>4. QED
    BY <1>6, <2>2, <2>3 DEF StopMark
<1>7. CASE StopMarkWrite(t)
  <2>1. CtStep(t, fr[t]) /\ CtStep(t, IdleFrame)
    BY <1>0, <1>7 DEF StopMarkWrite, CtStep, StateTyped, Writes
  <2>2. QED
    BY <1>0, <1>7, <2>1, Untouched, GoOn, GoHome DEF StopMarkWrite, ContainerStopped, Settled, Writes, Labels
<1>8. CASE RemoveCheck(t)
  <2>1. ASSUME Goto(t, "sc_check"),
               fr' = [fr EXCEPT ![t].from = "force", ![t].grace = FALSE]
        PROVE  Safe'
    <3> DEFINE f == [fr[t] EXCEPT !.from = "force", !.grace = FALSE]
    <3>1. f \in Frames /\ FrameStep(t, f)
      BY <1>0 DEF Frames, FrameStep
    <3>2. Settled("sc_check", f) /\ "sc_check" \in Labels
      BY DEF Settled, Writes, Labels
    <3>3. SbStep(t, f) /\ CtStep(t, f)
      BY <1>8, Untouched DEF RemoveCheck
    <3>4. up /\ UNCHANGED <<up, usedSb, usedCt>> /\ fr' = [fr EXCEPT ![t] = f]
      BY <1>8, <2>1 DEF RemoveCheck
    <3> HIDE DEF f
    <3>5. QED
      BY <2>1, <3>1, <3>2, <3>3, <3>4, Keeps
  <2>2. QED
    BY <1>0, <1>8, <2>1, Untouched, GoOn, GoHome DEF RemoveCheck, ContainerRemoved, Settled, Writes, Labels
<1>9. CASE RemoveDrop(t)
  <2>1. fr[t].ct \in Containers
    BY <1>0, <1>9 DEF RemoveDrop, Fits, RemLabels
  <2>2. CtStep(t, fr[t])
    BY <1>0, <1>9, RecordStates DEF RemoveDrop, CtStep, StateTyped
  <2>3. cacheCt'[fr[t].ct].state = "absent"
    BY <1>0, <1>9, <2>1, RecordStates DEF RemoveDrop, StateTyped
  <2>4. QED
    BY <1>0, <1>9, <2>2, <2>3, Untouched, GoOn DEF RemoveDrop, Settled, Writes, Labels
<1>10. CASE RemoveIo(t)
  BY <1>0, <1>10, Untouched, GoOn DEF RemoveIo, Settled, Writes, Unlinks, Labels
<1>11. CASE RemoveUnlink(t)
  <2>1. CtStep(t, fr[t]) /\ CtStep(t, IdleFrame)
    BY <1>0, <1>11, RecordStates DEF RemoveUnlink, CtStep, StateTyped, Unlinks
  <2>2. QED
    BY <1>0, <1>11, <2>1, Untouched, GoOn, GoHome DEF RemoveUnlink, ContainerRemoved, Settled, Writes, Labels
<1>12. QED
  BY <1>1, <1>2, <1>3, <1>4, <1>5, <1>6, <1>7, <1>8, <1>9, <1>10, <1>11 DEF StopSteps

-----------------------------------------------------------------------------
(* Steps in which no thread moves *)

\* A step that neither moves a thread nor brings a record to the cache or takes one
\* from cache or disk.
LEMMA Aside ==
  ASSUME Typed, Safe, UNCHANGED <<up, usedSb, usedCt, pc, fr, cacheSb, diskSb>>,
         \A c \in Containers :
           /\ cacheCt'[c].state # "absent" <=> cacheCt[c].state # "absent"
           /\ diskCt'[c].state # "absent" <=> diskCt[c].state # "absent"
  PROVE  Safe'
<1>1. IdsMinted' /\ DownIsIdle' /\ VisibleIsDurable'
  BY DEF Safe, IdsMinted, DownIsIdle, VisibleIsDurable
<1>2. MintsAlone'
  <2>1. \A t \in Threads : fr[t].op = "CreateContainer" => fr[t].ct \in Containers
    BY DEF Typed, StepsFit, Fits
  <2>2. QED
    BY <2>1 DEF Safe, MintsAlone
<1>3. HandsRight'
  <2>1. \A t \in Threads : pc[t] \in CreateLabels \cup RemLabels => fr[t].ct \in Containers
    BY DEF Typed, StepsFit, Fits
  <2>2. QED
    BY <2>1 DEF Safe, HandsRight, Inserts, Unlinks, Writes, CreateLabels, RemLabels
<1>4. QED
  BY <1>1, <1>2, <1>3 DEF Safe

\* The reaper writes the record of a container the cache has, which is on disk.
LEMMA SafeReaperSteps ==
  ASSUME Typed, Safe, NEW p \in Pids, ReaperStep(p)
  PROVE  Safe'
<1> USE DEF cache, disk, used, acks, IoFails, IoWorks
<1>0. StateTyped
  BY DEF Typed
<1>1. CASE ReaperWait(p)
  BY <1>1, Aside DEF ReaperWait
<1>2. CASE ReaperIo(p)
  BY <1>2, Aside DEF ReaperIo
<1>3. CASE ReaperRecord(p)
  <2> DEFINE c == proc[p].ct
             closed == Exited(cacheCt[c], proc[p].code)
  <2>1. CASE UNCHANGED <<cacheCt, diskCt>>
    BY <1>3, <2>1, Aside DEF ReaperRecord
  <2>2. ASSUME cacheCt[c].state = "Running", c \in Containers,
               cacheCt' = [cacheCt EXCEPT ![c] = closed],
               diskCt' \in {diskCt, [diskCt EXCEPT ![c] = closed]}
        PROVE  Safe'
    <3>1. closed.state = "Exited"
      BY <1>0, <2>2, RecordStates DEF StateTyped, Processes
    <3>2. diskCt[c].state # "absent"
      BY <2>2 DEF Safe, VisibleIsDurable
    <3> HIDE DEF closed, c
    <3>3. \A d \in Containers :
            /\ cacheCt'[d].state # "absent" <=> cacheCt[d].state # "absent"
            /\ diskCt'[d].state # "absent" <=> diskCt[d].state # "absent"
      BY <1>0, <2>2, <3>1, <3>2 DEF StateTyped
    <3>4. QED
      BY <1>3, <3>3, Aside DEF ReaperRecord
  <2>3. c \notin Containers => UNCHANGED <<cacheCt, diskCt>>
    <3>1. c \notin Containers => [cacheCt EXCEPT ![c] = closed] = cacheCt
      BY <1>0 DEF StateTyped
    <3>2. c \notin Containers => [diskCt EXCEPT ![c] = closed] = diskCt
      BY <1>0 DEF StateTyped
    <3>3. QED
      BY <1>0, <1>3, <3>1, <3>2 DEF ReaperRecord, StateTyped
  <2>4. QED
    BY <1>3, <2>1, <2>2, <2>3 DEF ReaperRecord, OpenToReaper
<1>4. QED
  BY <1>1, <1>2, <1>3 DEF ReaperStep

\* What the kernel does to processes, a crash, and `open`.
LEMMA SafeEnvironment ==
  ASSUME Typed, Safe, Environment
  PROVE  Safe'
<1> USE DEF cache, disk, used, acks, IoFails, IoWorks
<1>0. StateTyped /\ \A t \in Threads : fr[t] \in Frames /\ Fits(pc[t], fr[t])
  BY DEF Typed, StepsFit
<1>1. CASE Crash
  <2>1. \A t \in Threads : pc'[t] = "idle" /\ fr'[t] = IdleFrame
    BY <1>1 DEF Crash
  <2>2. \A c \in Containers : cacheCt'[c].state = "absent"
    BY <1>1 DEF Crash, Absent
  <2>3. \A s \in Sandboxes : cacheSb'[s] = "absent"
    BY <1>1 DEF Crash
  <2>4. UNCHANGED <<diskSb, diskCt, usedSb, usedCt>>
    BY <1>1 DEF Crash
  <2>5. IdsMinted'
    BY <2>1, <2>2, <2>3, <2>4 DEF Safe, IdsMinted, IdleFrame
  <2>6. MintsAlone'
    BY <2>1 DEF MintsAlone, IdleFrame
  <2>7. HandsRight'
    BY <2>1 DEF HandsRight, Inserts, Unlinks, Writes
  <2>8. DownIsIdle' /\ VisibleIsDurable'
    BY <2>1, <2>2, <2>3 DEF DownIsIdle, VisibleIsDurable
  <2>9. QED
    BY <2>5, <2>6, <2>7, <2>8 DEF Safe
<1>2. CASE Opened
  <2>1. \A t \in Threads : pc[t] = "idle" /\ fr[t].op = "none"
    BY <1>0, <1>2 DEF Opened, Safe, DownIsIdle, Fits
  <2>2. UNCHANGED <<pc, fr, diskSb, diskCt, cacheCt, usedSb, usedCt>> /\ up' = TRUE
        /\ cacheSb' = diskSb
    BY <1>2 DEF Opened
  <2>3. IdsMinted'
    BY <2>2 DEF Safe, IdsMinted
  <2>4. MintsAlone' /\ HandsRight'
    BY <2>1, <2>2 DEF MintsAlone, HandsRight, Inserts, Unlinks, Writes
  <2>5. DownIsIdle' /\ VisibleIsDurable'
    BY <2>2 DEF Safe, DownIsIdle, VisibleIsDurable
  <2>6. QED
    BY <2>3, <2>4, <2>5 DEF Safe
<1>3. ASSUME NEW c \in Containers, OpenContainer(c) PROVE Safe'
  <2>1. \A t \in Threads : pc[t] = "idle" /\ fr[t].op = "none"
    BY <1>0, <1>3 DEF OpenContainer, Safe, DownIsIdle, Fits
  <2>2. UNCHANGED <<pc, fr, up, cacheSb, diskSb, usedSb, usedCt>>
    BY <1>3 DEF OpenContainer
  <2>3. Recovered(diskCt[c]).state # "absent" /\ diskCt[c].state # "absent"
    BY <1>0, <1>3, RecordStates DEF OpenContainer, StateTyped
  <2>4. \A d \in Containers :
          /\ cacheCt'[d].state # "absent" => cacheCt[d].state # "absent" \/ d = c
          /\ diskCt'[d].state # "absent" <=> diskCt[d].state # "absent"
    BY <1>0, <1>3, <2>3 DEF OpenContainer, StateTyped
  <2>5. c \in usedCt
    BY <2>3 DEF Safe, IdsMinted
  <2>6. IdsMinted'
    BY <2>2, <2>4, <2>5 DEF Safe, IdsMinted
  <2>7. MintsAlone' /\ HandsRight'
    BY <2>1, <2>2 DEF MintsAlone, HandsRight, Inserts, Unlinks, Writes
  <2>8. DownIsIdle' /\ VisibleIsDurable'
    BY <2>2, <2>3, <2>4 DEF Safe, DownIsIdle, VisibleIsDurable
  <2>9. QED
    BY <2>6, <2>7, <2>8 DEF Safe
<1>4. ASSUME NEW p \in Pids, ProcessExits(p) \/ PidReused(p) PROVE Safe'
  BY <1>4, Aside DEF ProcessExits, PidReused
<1>5. QED
  BY <1>1, <1>2, <1>3, <1>4 DEF Environment

-----------------------------------------------------------------------------
(* Calls *)

\* A call names ids that were minted and that no other call is minting; a call that
\* mints takes ids no frame and no record has.
LEMMA SafeCall ==
  ASSUME Typed, Safe, NEW t \in Threads, NEW l \in Labels, NEW f, Call(t, l, f),
         usedSb \subseteq usedSb', usedCt \subseteq usedCt',
         f.todo = {}, f.rec = Absent, l \in {"run_write", "ss_mark", "cc_check", "st_check",
                                             "sc_check", "rc_check"},
         f.sb \in usedSb' \cup {None}, f.ct \in usedCt' \cup {None},
         \A u \in Threads : /\ fr[u].op = "RunSandbox" => f.sb # fr[u].sb
                            /\ fr[u].op = "CreateContainer" => f.ct # fr[u].ct,
         f.op = "RunSandbox" => f.sb \in Sandboxes \ usedSb,
         f.op = "CreateContainer" => f.ct \in Containers \ usedCt
  PROVE  Safe'
<1> USE DEF cache, disk, used
<1>1. /\ fr'[t] = f /\ pc'[t] = l /\ pc[t] = "idle"
      /\ \A u \in Threads \ {t} : fr'[u] = fr[u] /\ pc'[u] = pc[u]
  BY DEF Call, Goto, At, Typed, StepsFit
<1>2. UNCHANGED <<cacheSb, cacheCt, diskSb, diskCt, up>> /\ up
  BY DEF Call, At
<1>3. None \notin Sandboxes /\ None \notin Containers
  BY ConstantsOK
<1>4. IdsMinted'
  <2>1. \A u \in Threads : fr'[u].sb \in usedSb' \cup {None} /\ fr'[u].ct \in usedCt' \cup {None}
                           /\ fr'[u].todo \subseteq usedCt'
    <3>1. ASSUME NEW u \in Threads
          PROVE  fr'[u].sb \in usedSb' \cup {None} /\ fr'[u].ct \in usedCt' \cup {None}
                 /\ fr'[u].todo \subseteq usedCt'
      <4>1. CASE u = t
        BY <1>1, <4>1
      <4>2. CASE u # t
        BY <1>1, <4>2 DEF Safe, IdsMinted
      <4>3. QED
        BY <4>1, <4>2
    <3>2. QED
      BY <3>1
  <2>2. QED
    BY <1>2, <2>1 DEF Safe, IdsMinted
<1>5. MintsAlone'
  <2>1. ASSUME NEW u \in Threads, fr'[u].op = "RunSandbox"
        PROVE  /\ cacheSb'[fr'[u].sb] = "absent"
               /\ \A v \in Threads \ {u} : fr'[v].sb # fr'[u].sb
    <3>1. CASE u = t
      BY <1>1, <1>2, <1>3, <2>1, <3>1 DEF Safe, IdsMinted
    <3>2. CASE u # t
      BY <1>1, <1>2, <2>1, <3>2 DEF Safe, MintsAlone
    <3>3. QED
      BY <3>1, <3>2
  <2>2. ASSUME NEW u \in Threads, fr'[u].op = "CreateContainer"
        PROVE  /\ cacheCt'[fr'[u].ct].state = "absent"
               /\ \A v \in Threads \ {u} : fr'[v].ct # fr'[u].ct /\ fr'[u].ct \notin fr'[v].todo
    <3>1. CASE u = t
      BY <1>1, <1>2, <1>3, <2>2, <3>1 DEF Safe, IdsMinted
    <3>2. CASE u # t
      BY <1>1, <1>2, <2>2, <3>2 DEF Safe, MintsAlone
    <3>3. QED
      BY <3>1, <3>2
  <2>3. QED
    BY <2>1, <2>2 DEF MintsAlone
<1>6. HandsRight'
  <2>1. ASSUME NEW u \in Threads
        PROVE  (Inserts(pc[u], fr[u]) /\ Unlinks(pc[u], fr[u]) /\ Writes(pc[u], fr[u]))'
    <3>1. CASE u = t
      BY <1>1, <3>1 DEF Inserts, Unlinks, Writes
    <3>2. CASE u # t
      BY <1>1, <1>2, <3>2 DEF Safe, HandsRight, Inserts, Unlinks, Writes
    <3>3. QED
      BY <3>1, <3>2
  <2>2. QED
    BY <2>1 DEF HandsRight
<1>7. DownIsIdle' /\ VisibleIsDurable'
  BY <1>2 DEF Safe, DownIsIdle, VisibleIsDurable
<1>8. QED
  BY <1>4, <1>5, <1>6, <1>7 DEF Safe

\* A call starts with nothing in its hands, or mints an id nobody has.
LEMMA SafeCalls ==
  ASSUME Typed, Safe, NEW t \in Threads, Calls(t)
  PROVE  Safe'
<1>0. /\ None \notin Sandboxes /\ None \notin Containers
      /\ usedSb \subseteq Sandboxes /\ usedCt \subseteq Containers
  BY ConstantsOK DEF Typed, StateTyped
<1>a. \A u \in Threads : /\ fr[u].op = "RunSandbox" => fr[u].sb \in Sandboxes \cap usedSb
                         /\ fr[u].op = "CreateContainer" => fr[u].ct \in Containers \cap usedCt
  BY <1>0 DEF Typed, StepsFit, Fits, Safe, IdsMinted
<1>b. \A u \in Threads : /\ fr[u].op = "RunSandbox" => fr[u].sb \notin KnownSb
                         /\ fr[u].op = "CreateContainer" => fr[u].ct \notin KnownCt
  BY DEF KnownSb, KnownCt, Minting
<1>c. KnownSb \subseteq usedSb /\ KnownCt \subseteq usedCt
  BY DEF KnownSb, KnownCt
<1>1. CASE CallRunSandbox(t)
  <2>1. PICK s \in Sandboxes \ usedSb :
          /\ Call(t, "run_write", [IdleFrame EXCEPT !.op = "RunSandbox", !.sb = s])
          /\ usedSb' = usedSb \cup {s} /\ UNCHANGED usedCt
    BY <1>1 DEF CallRunSandbox, used
  <2> DEFINE f == [IdleFrame EXCEPT !.op = "RunSandbox", !.sb = s]
  <2>2. /\ f.todo = {} /\ f.rec = Absent
        /\ f.op = "RunSandbox"
        /\ f.sb = s /\ f.ct = None
    BY DEF IdleFrame
  <2>3. Call(t, "run_write", f) /\ "run_write" \in Labels
    BY <2>1 DEF Labels
  <2> HIDE DEF f
  <2>4. QED
    BY <1>0, <1>a, <1>b, <1>c, <2>1, <2>2, <2>3, SafeCall
<1>2. CASE CallStopSandbox(t)
  <2>1. PICK s \in KnownSb :
          /\ Call(t, "ss_mark", [IdleFrame EXCEPT !.op = "StopSandbox", !.sb = s])
          /\ UNCHANGED <<usedSb, usedCt>>
    BY <1>2 DEF CallStopSandbox, used
  <2> DEFINE f == [IdleFrame EXCEPT !.op = "StopSandbox", !.sb = s]
  <2>2. /\ f.todo = {} /\ f.rec = Absent
        /\ f.op = "StopSandbox"
        /\ f.sb = s /\ f.ct = None
    BY DEF IdleFrame
  <2>3. Call(t, "ss_mark", f) /\ "ss_mark" \in Labels
    BY <2>1 DEF Labels
  <2> HIDE DEF f
  <2>4. QED
    BY <1>0, <1>a, <1>b, <1>c, <2>1, <2>2, <2>3, SafeCall
<1>3. CASE CallRemoveSandbox(t)
  <2>1. PICK s \in KnownSb :
          /\ Call(t, "ss_mark", [IdleFrame EXCEPT !.op = "RemoveSandbox", !.sb = s])
          /\ UNCHANGED <<usedSb, usedCt>>
    BY <1>3 DEF CallRemoveSandbox, used
  <2> DEFINE f == [IdleFrame EXCEPT !.op = "RemoveSandbox", !.sb = s]
  <2>2. /\ f.todo = {} /\ f.rec = Absent
        /\ f.op = "RemoveSandbox"
        /\ f.sb = s /\ f.ct = None
    BY DEF IdleFrame
  <2>3. Call(t, "ss_mark", f) /\ "ss_mark" \in Labels
    BY <2>1 DEF Labels
  <2> HIDE DEF f
  <2>4. QED
    BY <1>0, <1>a, <1>b, <1>c, <2>1, <2>2, <2>3, SafeCall
<1>4. CASE CallCreateContainer(t)
  <2>1. PICK s \in KnownSb, c \in Containers \ usedCt :
          /\ Call(t, "cc_check", [IdleFrame EXCEPT !.op = "CreateContainer", !.sb = s, !.ct = c])
          /\ UNCHANGED usedSb /\ usedCt' = usedCt \cup {c}
    BY <1>4 DEF CallCreateContainer, used
  <2> DEFINE f == [IdleFrame EXCEPT !.op = "CreateContainer", !.sb = s, !.ct = c]
  <2>2. /\ f.todo = {} /\ f.rec = Absent
        /\ f.op = "CreateContainer"
        /\ f.sb = s /\ f.ct = c
    BY DEF IdleFrame
  <2>3. Call(t, "cc_check", f) /\ "cc_check" \in Labels
    BY <2>1 DEF Labels
  <2> HIDE DEF f
  <2>4. QED
    BY <1>0, <1>a, <1>b, <1>c, <2>1, <2>2, <2>3, SafeCall
<1>5. CASE CallStartContainer(t)
  <2>1. PICK c \in KnownCt :
          /\ Call(t, "st_check", [IdleFrame EXCEPT !.op = "StartContainer", !.ct = c])
          /\ UNCHANGED <<usedSb, usedCt>>
    BY <1>5 DEF CallStartContainer, used
  <2> DEFINE f == [IdleFrame EXCEPT !.op = "StartContainer", !.ct = c]
  <2>2. /\ f.todo = {} /\ f.rec = Absent
        /\ f.op = "StartContainer"
        /\ f.sb = None /\ f.ct = c
    BY DEF IdleFrame
  <2>3. Call(t, "st_check", f) /\ "st_check" \in Labels
    BY <2>1 DEF Labels
  <2> HIDE DEF f
  <2>4. QED
    BY <1>0, <1>a, <1>b, <1>c, <2>1, <2>2, <2>3, SafeCall
<1>6. CASE CallStopContainer(t)
  <2>1. PICK c \in KnownCt, g \in BOOLEAN :
          /\ Call(t, "sc_check", [IdleFrame EXCEPT !.op = "StopContainer", !.ct = c, !.grace = g])
          /\ UNCHANGED <<usedSb, usedCt>>
    BY <1>6 DEF CallStopContainer, used
  <2> DEFINE f == [IdleFrame EXCEPT !.op = "StopContainer", !.ct = c, !.grace = g]
  <2>2. /\ f.todo = {} /\ f.rec = Absent
        /\ f.op = "StopContainer"
        /\ f.sb = None /\ f.ct = c
    BY DEF IdleFrame
  <2>3. Call(t, "sc_check", f) /\ "sc_check" \in Labels
    BY <2>1 DEF Labels
  <2> HIDE DEF f
  <2>4. QED
    BY <1>0, <1>a, <1>b, <1>c, <2>1, <2>2, <2>3, SafeCall
<1>7. CASE CallRemoveContainer(t)
  <2>1. PICK c \in KnownCt :
          /\ Call(t, "rc_check", [IdleFrame EXCEPT !.op = "RemoveContainer", !.ct = c])
          /\ UNCHANGED <<usedSb, usedCt>>
    BY <1>7 DEF CallRemoveContainer, used
  <2> DEFINE f == [IdleFrame EXCEPT !.op = "RemoveContainer", !.ct = c]
  <2>2. /\ f.todo = {} /\ f.rec = Absent
        /\ f.op = "RemoveContainer"
        /\ f.sb = None /\ f.ct = c
    BY DEF IdleFrame
  <2>3. Call(t, "rc_check", f) /\ "rc_check" \in Labels
    BY <2>1 DEF Labels
  <2> HIDE DEF f
  <2>4. QED
    BY <1>0, <1>a, <1>b, <1>c, <2>1, <2>2, <2>3, SafeCall
<1>8. QED
  BY <1>1, <1>2, <1>3, <1>4, <1>5, <1>6, <1>7 DEF Calls

-----------------------------------------------------------------------------
(* Every behaviour *)

\* A new server has no records and idle threads.
LEMMA SafeInit == ASSUME Init PROVE Safe
<1>1. IdsMinted
  BY DEF Init, IdsMinted, IdleFrame, Absent
<1>2. MintsAlone
  BY DEF Init, MintsAlone, IdleFrame
<1>3. HandsRight
  BY DEF Init, HandsRight, Inserts, Unlinks, Writes
<1>4. DownIsIdle /\ VisibleIsDurable
  BY DEF Init, DownIsIdle, VisibleIsDurable, Absent
<1>5. QED
  BY <1>1, <1>2, <1>3, <1>4 DEF Safe

\* Every step of calls, reapers, programs, crashes and recovery keeps the invariant.
LEMMA SafeStep == ASSUME Typed, Safe, [Next]_vars PROVE Safe'
<1>1. CASE UNCHANGED vars
  BY <1>1, Aside DEF vars, cache, disk, used
<1>2. CASE Next
  BY <1>2, SafeCalls, SafeSandboxSteps, SafeStartSteps, SafeStopSteps, SafeReaperSteps,
     SafeEnvironment DEF Next, ThreadStep
<1>3. QED
  BY <1>1, <1>2

\* Persist before visible (the cache and the file writes of every lifecycle call):
\* whatever the cache shows is on disk, whatever interleaves, crashes or fails.
THEOREM CacheIsDurable == Spec => []VisibleIsDurable
<1>1. Spec => []Typed
  BY AlwaysTyped
<1>2. Init => Safe
  BY SafeInit
<1>3. Typed /\ Safe /\ [Next]_vars => Safe'
  BY SafeStep
<1>4. Safe => VisibleIsDurable
  BY DEF Safe
<1>5. QED
  BY <1>1, <1>2, <1>3, <1>4, PTL DEF Spec

-----------------------------------------------------------------------------
(* What was removed stays removed.  Only the call that mints an id brings    *)
(* its record into the cache of a running server, and it is not over before  *)
(* anyone can name the id.                                                   *)

MintsSb(t, s) == fr[t].op = "RunSandbox" /\ fr[t].sb = s
MintsCt(t, c) == fr[t].op = "CreateContainer" /\ fr[t].ct = c

\* A removal can only be told of an id that is minted for good.
Gone ==
  /\ \A s \in Sandboxes : "gone" \in ackSb[s] => s \in usedSb /\ \A t \in Threads : ~MintsSb(t, s)
  /\ \A c \in Containers : "gone" \in ackCt[c] => c \in usedCt /\ \A t \in Threads : ~MintsCt(t, c)

\* A step that mints nothing, and tells of removals only of ids minted for good.
LEMMA GoneKeeps ==
  ASSUME Gone, usedSb \subseteq usedSb', usedCt \subseteq usedCt',
         \A t \in Threads, s \in Sandboxes : MintsSb(t, s)' => MintsSb(t, s) \/ s \notin usedSb,
         \A t \in Threads, c \in Containers : MintsCt(t, c)' => MintsCt(t, c) \/ c \notin usedCt,
         \A s \in Sandboxes : "gone" \in ackSb'[s] =>
           "gone" \in ackSb[s] \/ (s \in usedSb /\ \A t \in Threads : ~MintsSb(t, s)),
         \A c \in Containers : "gone" \in ackCt'[c] =>
           "gone" \in ackCt[c] \/ (c \in usedCt /\ \A t \in Threads : ~MintsCt(t, c))
  PROVE  Gone'
  BY DEF Gone

\* What a thread's step does to its frame and to the acknowledgements.
GoneStep(t) ==
  /\ \A u \in Threads \ {t} : fr'[u] = fr[u]
  /\ fr'[t].op = fr[t].op \/ fr'[t].op = "none"
  /\ fr'[t].op = "RunSandbox" => fr'[t].sb = fr[t].sb
  /\ fr'[t].op = "CreateContainer" => fr'[t].ct = fr[t].ct
  /\ \/ UNCHANGED ackSb
     \/ \E fact \in {"exists", "stopped"} : ackSb' = [ackSb EXCEPT ![fr[t].sb] = Learn(@, fact)]
     \/ fr[t].op = "RemoveSandbox" /\ ackSb' = [ackSb EXCEPT ![fr[t].sb] = Learn(@, "gone")]
  /\ \/ UNCHANGED ackCt
     \/ \E fact \in {"exists", "started", "stopped"} : ackCt' = [ackCt EXCEPT ![fr[t].ct] = Learn(@, fact)]
     \/ fr[t].op = "RemoveContainer" /\ fr[t].ct \in Containers
        /\ ackCt' = [ackCt EXCEPT ![fr[t].ct] = Learn(@, "gone")]

\* What replacing one thread's frame leaves.
LEMMA NewFrame ==
  ASSUME fr \in [Threads -> Frames], NEW t \in Threads, NEW f, fr' = [fr EXCEPT ![t] = f]
  PROVE  fr'[t] = f /\ \A u \in Threads \ {t} : fr'[u] = fr[u]
OBVIOUS

\* Such a step keeps the removed ones removed.
LEMMA GoneAfter ==
  ASSUME Typed, Safe, Gone, NEW t \in Threads, GoneStep(t), UNCHANGED <<usedSb, usedCt>>
  PROVE  Gone'
<1> USE DEF MintsSb, MintsCt
<1>0. StateTyped /\ Fits(pc[t], fr[t]) /\ IdsMinted /\ MintsAlone
  BY DEF Typed, StepsFit, Safe
<1>1. None \notin Sandboxes /\ None \notin Containers
  BY ConstantsOK
<1>2. \A u \in Threads, s \in Sandboxes : MintsSb(u, s)' => MintsSb(u, s)
  BY DEF GoneStep
<1>3. \A u \in Threads, c \in Containers : MintsCt(u, c)' => MintsCt(u, c)
  BY DEF GoneStep
<1>4. ASSUME NEW s \in Sandboxes, "gone" \in ackSb'[s], "gone" \notin ackSb[s]
      PROVE  s \in usedSb /\ \A u \in Threads : ~MintsSb(u, s)
  <2>1. fr[t].op = "RemoveSandbox" /\ s = fr[t].sb
    BY <1>0, <1>4 DEF GoneStep, StateTyped, Learn
  <2>2. QED
    BY <1>0, <1>1, <2>1 DEF IdsMinted, MintsAlone
<1>5. ASSUME NEW c \in Containers, "gone" \in ackCt'[c], "gone" \notin ackCt[c]
      PROVE  c \in usedCt /\ \A u \in Threads : ~MintsCt(u, c)
  <2>1. fr[t].op = "RemoveContainer" /\ c = fr[t].ct
    BY <1>0, <1>5 DEF GoneStep, StateTyped, Learn
  <2>2. QED
    BY <1>0, <1>1, <2>1 DEF IdsMinted, MintsAlone
<1>6. QED
  BY <1>2, <1>3, <1>4, <1>5, GoneKeeps

\* A sandbox call.
LEMMA GoneSandboxSteps ==
  ASSUME Typed, Safe, Gone, NEW t \in Threads, SandboxSteps(t)
  PROVE  Gone'
<1> USE DEF At, cache, disk, used, acks, Goto, IoErrorReturn
<1>0. /\ fr \in [Threads -> Frames] /\ fr[t] \in Frames /\ Fits(pc[t], fr[t]) /\ IdleFrame.op = "none"
  BY DEF Typed, StepsFit, IdleFrame
<1>1. UNCHANGED <<usedSb, usedCt>>
  BY DEF SandboxSteps, RunWrite, RunInsert, StopSandboxMark, StopSandboxWrite,
     RemoveSandboxScan, RemoveSandboxNext, RemoveSandboxDrop, RemoveSandboxUnlink
<1>2. CASE RunWrite(t) \/ RunInsert(t) \/ StopSandboxMark(t) \/ StopSandboxWrite(t)
           \/ RemoveSandboxDrop(t) \/ RemoveSandboxUnlink(t)
  <2>1. UNCHANGED fr \/ fr' = [fr EXCEPT ![t] = IdleFrame]
    BY <1>2 DEF RunWrite, RunInsert, StopSandboxMark, StopSandboxWrite, RemoveSandboxDrop,
       RemoveSandboxUnlink, SandboxStopped, Return
  <2>2. /\ UNCHANGED ackCt
        /\ \/ UNCHANGED ackSb
           \/ \E fact \in {"exists", "stopped"} : ackSb' = [ackSb EXCEPT ![fr[t].sb] = Learn(@, fact)]
           \/ fr[t].op = "RemoveSandbox" /\ ackSb' = [ackSb EXCEPT ![fr[t].sb] = Learn(@, "gone")]
    BY <1>0, <1>2 DEF RunWrite, RunInsert, StopSandboxMark, StopSandboxWrite, RemoveSandboxDrop,
       RemoveSandboxUnlink, SandboxStopped, Fits, RemSbLabels, AckSb
  <2>3. GoneStep(t)
    BY <1>0, <2>1, <2>2 DEF GoneStep
  <2>4. QED
    BY <1>1, <2>3, GoneAfter
<1>3. CASE RemoveSandboxScan(t)
  <2>1. /\ fr[t].op = "RemoveSandbox"
        /\ \/ UNCHANGED acks /\ fr' = [fr EXCEPT ![t].todo = ContainersOf(fr[t].sb)]
           \/ /\ fr' = [fr EXCEPT ![t] = IdleFrame] /\ UNCHANGED ackCt
              /\ ackSb' = [ackSb EXCEPT ![fr[t].sb] = Learn(@, "gone")]
    BY <1>0, <1>3 DEF RemoveSandboxScan, Return, AckSb, Fits, RemSbLabels
  <2>2. GoneStep(t)
    BY <1>0, <2>1 DEF GoneStep, Frames
  <2>3. QED
    BY <1>1, <2>2, GoneAfter
<1>4. CASE RemoveSandboxNext(t)
  <2>1. UNCHANGED <<ackSb, ackCt>> /\ fr[t].op = "RemoveSandbox"
    BY <1>0, <1>4 DEF RemoveSandboxNext, Fits, RemSbLabels
  <2>2. UNCHANGED fr \/ \E c : fr' = [fr EXCEPT ![t] = [fr[t] EXCEPT !.ct = c, !.todo = @ \ {c},
                                                     !.grace = FALSE, !.from = "cascade"]]
    <3>1. UNCHANGED fr \/ \E c : fr' = [fr EXCEPT ![t].ct = c, ![t].todo = @ \ {c},
                                                ![t].grace = FALSE, ![t].from = "cascade"]
      BY <1>4 DEF RemoveSandboxNext
    <3>2. ASSUME NEW c
          PROVE  [fr EXCEPT ![t].ct = c, ![t].todo = @ \ {c}, ![t].grace = FALSE, ![t].from = "cascade"]
                   = [fr EXCEPT ![t] = [fr[t] EXCEPT !.ct = c, !.todo = @ \ {c},
                                                     !.grace = FALSE, !.from = "cascade"]]
      BY <1>0
    <3>3. QED
      BY <3>1, <3>2
  <2>3. fr'[t].op = "RemoveSandbox" /\ \A u \in Threads \ {t} : fr'[u] = fr[u]
    <3>1. CASE UNCHANGED fr
      BY <2>1, <3>1
    <3>2. CASE \E c : fr' = [fr EXCEPT ![t] = [fr[t] EXCEPT !.ct = c, !.todo = @ \ {c},
                                             !.grace = FALSE, !.from = "cascade"]]
      <4>1. PICK c : fr' = [fr EXCEPT ![t] = [fr[t] EXCEPT !.ct = c, !.todo = @ \ {c},
                                             !.grace = FALSE, !.from = "cascade"]]
        BY <3>2
      <4>2. [fr[t] EXCEPT !.ct = c, !.todo = @ \ {c}, !.grace = FALSE, !.from = "cascade"].op = fr[t].op
        BY <1>0 DEF Frames
      <4>3. QED
        BY <1>0, <2>1, <4>1, <4>2, NewFrame
    <3>3. QED
      BY <2>2, <3>1, <3>2
  <2>4. GoneStep(t)
    BY <2>1, <2>3 DEF GoneStep
  <2>5. QED
    BY <1>1, <2>4, GoneAfter
<1>5. QED
  BY <1>2, <1>3, <1>4 DEF SandboxSteps

\* create_container and start_container tell of no removal.
LEMMA GoneStartSteps ==
  ASSUME Typed, Safe, Gone, NEW t \in Threads, StartSteps(t)
  PROVE  Gone'
<1> USE DEF At, cache, disk, used, acks, Goto, IoErrorReturn
<1>0. /\ fr \in [Threads -> Frames] /\ fr[t] \in Frames /\ IdleFrame.op = "none"
  BY DEF Typed, StepsFit, IdleFrame
<1>1. UNCHANGED <<usedSb, usedCt, ackSb>>
  BY DEF StartSteps, CreateCheck, CreateWrite, CreateInsert, StartCheck, StartIntent,
     StartIntentWrite, StartSpawn, StartFailed, StartFailedWrite, StartIo, StartPid, StartPidWrite, AckCt
<1>2. \/ UNCHANGED ackCt
      \/ \E fact \in {"exists", "started", "stopped"} : ackCt' = [ackCt EXCEPT ![fr[t].ct] = Learn(@, fact)]
  BY DEF StartSteps, CreateCheck, CreateWrite, CreateInsert, StartCheck, StartIntent,
     StartIntentWrite, StartSpawn, StartFailed, StartFailedWrite, StartIo, StartPid, StartPidWrite, AckCt
<1>3. \/ UNCHANGED fr \/ fr' = [fr EXCEPT ![t] = IdleFrame]
      \/ \E p : fr' = [fr EXCEPT ![t].pid = p]
      \/ \E r : fr' = [fr EXCEPT ![t].rec = r]
  BY DEF StartSteps, CreateCheck, CreateWrite, CreateInsert, StartCheck, StartIntent,
     StartIntentWrite, StartSpawn, StartFailed, StartFailedWrite, StartIo, StartPid, StartPidWrite, Return
<1>4. GoneStep(t)
  BY <1>0, <1>1, <1>2, <1>3 DEF GoneStep, Frames
<1>5. QED
  BY <1>1, <1>4, GoneAfter

\* stop_container and remove_container: only the client's own removal tells of one.
LEMMA GoneStopSteps ==
  ASSUME Typed, Safe, Gone, NEW t \in Threads, StopSteps(t)
  PROVE  Gone'
<1> USE DEF At, cache, disk, used, acks, Goto, IoErrorReturn
<1>0. /\ fr \in [Threads -> Frames] /\ fr[t] \in Frames /\ IdleFrame.op = "none" /\ Fits(pc[t], fr[t])
  BY DEF Typed, StepsFit, IdleFrame
<1>1. UNCHANGED <<usedSb, usedCt, ackSb>>
  BY DEF StopSteps, StopCheck, StopTerm, StopGrace, StopKill, StopWait, StopMark, StopMarkWrite,
     RemoveCheck, RemoveDrop, RemoveIo, RemoveUnlink, ContainerStopped, ContainerRemoved, AckCt
<1>2. CASE StopCheck(t) \/ StopTerm(t) \/ StopGrace(t) \/ StopKill(t) \/ StopWait(t)
           \/ StopMark(t) \/ StopMarkWrite(t)
  <2>1. UNCHANGED ackCt \/ ackCt' = [ackCt EXCEPT ![fr[t].ct] = Learn(@, "stopped")]
    BY <1>2 DEF StopCheck, StopTerm, StopGrace, StopKill, StopWait, StopMark, StopMarkWrite,
       ContainerStopped, AckCt
  <2>2. \/ UNCHANGED fr \/ fr' = [fr EXCEPT ![t] = IdleFrame]
        \/ \E p : fr' = [fr EXCEPT ![t].pid = p]
        \/ \E r : fr' = [fr EXCEPT ![t].rec = r]
    BY <1>2 DEF StopCheck, StopTerm, StopGrace, StopKill, StopWait, StopMark, StopMarkWrite,
       ContainerStopped, Return
  <2>3. GoneStep(t)
    BY <1>0, <1>1, <2>1, <2>2 DEF GoneStep, Frames
  <2>4. QED
    BY <1>1, <2>3, GoneAfter
<1>3. CASE RemoveCheck(t) \/ RemoveDrop(t) \/ RemoveIo(t) \/ RemoveUnlink(t)
  <2>1. fr[t].op \in {"RemoveContainer", "RemoveSandbox"} /\ fr[t].ct \in Containers
    BY <1>0, <1>3 DEF RemoveCheck, RemoveDrop, RemoveIo, RemoveUnlink, Fits, RemLabels
  <2>2. \/ UNCHANGED ackCt
        \/ fr[t].op = "RemoveContainer" /\ ackCt' = [ackCt EXCEPT ![fr[t].ct] = Learn(@, "gone")]
    BY <1>3, <2>1 DEF RemoveCheck, RemoveDrop, RemoveIo, RemoveUnlink, ContainerRemoved, AckCt
  <2>3. \/ UNCHANGED fr \/ fr' = [fr EXCEPT ![t] = IdleFrame]
        \/ fr' = [fr EXCEPT ![t] = [fr[t] EXCEPT !.from = "force", !.grace = FALSE]]
    BY <1>0, <1>3 DEF RemoveCheck, RemoveDrop, RemoveIo, RemoveUnlink, ContainerRemoved, Return
  <2>4. /\ \A u \in Threads \ {t} : fr'[u] = fr[u]
        /\ fr'[t].op = fr[t].op \/ fr'[t].op = "none"
    <3>1. [fr[t] EXCEPT !.from = "force", !.grace = FALSE].op = fr[t].op
      BY <1>0 DEF Frames
    <3>2. QED
      BY <1>0, <2>3, <3>1, NewFrame
  <2>5. GoneStep(t)
    BY <1>0, <1>1, <2>1, <2>2, <2>4 DEF GoneStep
  <2>6. QED
    BY <1>1, <2>5, GoneAfter
<1>4. QED
  BY <1>2, <1>3 DEF StopSteps

\* A call that begins mints an id nobody was told of, or none.
LEMMA GoneCalls ==
  ASSUME Typed, Safe, Gone, NEW t \in Threads, Calls(t)
  PROVE  Gone'
<1> USE DEF cache, disk, used, acks, MintsSb, MintsCt
<1>0. /\ fr \in [Threads -> Frames] /\ StateTyped
  BY DEF Typed, StepsFit
<1>1. /\ usedSb \subseteq usedSb' /\ usedCt \subseteq usedCt'
      /\ \A u \in Threads \ {t} : fr'[u] = fr[u]
  BY <1>0 DEF Calls, CallRunSandbox, CallStopSandbox, CallRemoveSandbox, CallCreateContainer,
     CallStartContainer, CallStopContainer, CallRemoveContainer, Call
<1>2. /\ fr'[t].op = "RunSandbox" => fr'[t].sb \notin usedSb
      /\ fr'[t].op = "CreateContainer" => fr'[t].ct \notin usedCt
  <2>1. CASE CallRunSandbox(t)
    <3>1. PICK s \in Sandboxes \ usedSb : Call(t, "run_write", [IdleFrame EXCEPT !.op = "RunSandbox", !.sb = s])
      BY <2>1 DEF CallRunSandbox
    <3>2. fr'[t] = [IdleFrame EXCEPT !.op = "RunSandbox", !.sb = s]
      BY <1>0, <3>1, NewFrame DEF Call
    <3>3. fr'[t].op = "RunSandbox" /\ fr'[t].sb = s
      BY <3>2 DEF IdleFrame
    <3>4. QED
      BY <3>1, <3>3
  <2>2. CASE CallCreateContainer(t)
    <3>1. PICK s \in KnownSb, c \in Containers \ usedCt :
            Call(t, "cc_check", [IdleFrame EXCEPT !.op = "CreateContainer", !.sb = s, !.ct = c])
      BY <2>2 DEF CallCreateContainer
    <3>2. fr'[t] = [IdleFrame EXCEPT !.op = "CreateContainer", !.sb = s, !.ct = c]
      BY <1>0, <3>1, NewFrame DEF Call
    <3>3. fr'[t].op = "CreateContainer" /\ fr'[t].ct = c
      BY <3>2 DEF IdleFrame
    <3>4. QED
      BY <3>1, <3>3
  <2>3. CASE CallStopSandbox(t)
    <3>1. PICK s \in KnownSb : Call(t, "ss_mark", [IdleFrame EXCEPT !.op = "StopSandbox", !.sb = s])
      BY <2>3 DEF CallStopSandbox
    <3>2. fr'[t] = [IdleFrame EXCEPT !.op = "StopSandbox", !.sb = s]
      BY <1>0, <3>1, NewFrame DEF Call
    <3>3. fr'[t].op = "StopSandbox"
      BY <3>2 DEF IdleFrame
    <3>4. QED
      BY <3>3
  <2>4. CASE CallRemoveSandbox(t)
    <3>1. PICK s \in KnownSb : Call(t, "ss_mark", [IdleFrame EXCEPT !.op = "RemoveSandbox", !.sb = s])
      BY <2>4 DEF CallRemoveSandbox
    <3>2. fr'[t] = [IdleFrame EXCEPT !.op = "RemoveSandbox", !.sb = s]
      BY <1>0, <3>1, NewFrame DEF Call
    <3>3. fr'[t].op = "RemoveSandbox"
      BY <3>2 DEF IdleFrame
    <3>4. QED
      BY <3>3
  <2>5. CASE CallStartContainer(t)
    <3>1. PICK c \in KnownCt : Call(t, "st_check", [IdleFrame EXCEPT !.op = "StartContainer", !.ct = c])
      BY <2>5 DEF CallStartContainer
    <3>2. fr'[t] = [IdleFrame EXCEPT !.op = "StartContainer", !.ct = c]
      BY <1>0, <3>1, NewFrame DEF Call
    <3>3. fr'[t].op = "StartContainer"
      BY <3>2 DEF IdleFrame
    <3>4. QED
      BY <3>3
  <2>6. CASE CallStopContainer(t)
    <3>1. PICK c \in KnownCt, g \in BOOLEAN : Call(t, "sc_check", [IdleFrame EXCEPT !.op = "StopContainer", !.ct = c, !.grace = g])
      BY <2>6 DEF CallStopContainer
    <3>2. fr'[t] = [IdleFrame EXCEPT !.op = "StopContainer", !.ct = c, !.grace = g]
      BY <1>0, <3>1, NewFrame DEF Call
    <3>3. fr'[t].op = "StopContainer"
      BY <3>2 DEF IdleFrame
    <3>4. QED
      BY <3>3
  <2>7. CASE CallRemoveContainer(t)
    <3>1. PICK c \in KnownCt : Call(t, "rc_check", [IdleFrame EXCEPT !.op = "RemoveContainer", !.ct = c])
      BY <2>7 DEF CallRemoveContainer
    <3>2. fr'[t] = [IdleFrame EXCEPT !.op = "RemoveContainer", !.ct = c]
      BY <1>0, <3>1, NewFrame DEF Call
    <3>3. fr'[t].op = "RemoveContainer"
      BY <3>2 DEF IdleFrame
    <3>4. QED
      BY <3>3
  <2>8. QED
    BY <2>1, <2>2, <2>3, <2>4, <2>5, <2>6, <2>7 DEF Calls
<1>3. /\ \A s \in Sandboxes : "gone" \in ackSb'[s] => "gone" \in ackSb[s]
      /\ \A c \in Containers : "gone" \in ackCt'[c] => "gone" \in ackCt[c]
  <2>1. CASE CallRunSandbox(t) \/ CallCreateContainer(t) \/ CallStopSandbox(t) \/ CallStopContainer(t)
    BY <2>1 DEF CallRunSandbox, CallCreateContainer, CallStopSandbox, CallStopContainer
  <2>2. CASE CallRemoveSandbox(t)
    BY <1>0, <2>2 DEF CallRemoveSandbox, StateTyped
  <2>3. CASE CallStartContainer(t)
    BY <1>0, <2>3 DEF CallStartContainer, StateTyped
  <2>4. CASE CallRemoveContainer(t)
    BY <1>0, <2>4 DEF CallRemoveContainer, StateTyped
  <2>5. QED
    BY <2>1, <2>2, <2>3, <2>4 DEF Calls
<1>4. QED
  BY <1>1, <1>2, <1>3, GoneKeeps

\* Reapers, programs, the kernel, a crash and `open` tell nobody of anything.
LEMMA GoneAround ==
  ASSUME Gone, (\E p \in Pids : ReaperStep(p)) \/ Environment \/ UNCHANGED vars
  PROVE  Gone'
<1> USE DEF cache, disk, used, acks, vars, MintsSb, MintsCt
<1>1. UNCHANGED <<usedSb, usedCt, ackSb, ackCt>>
  BY DEF ReaperStep, ReaperWait, ReaperIo, ReaperRecord,
     Environment, Crash, Opened, OpenContainer, ProcessExits, PidReused
<1>2. UNCHANGED fr \/ \A t \in Threads : fr'[t].op = "none"
  BY DEF ReaperStep, ReaperWait, ReaperIo, ReaperRecord,
     Environment, Crash, Opened, OpenContainer, ProcessExits, PidReused, IdleFrame
<1>3. QED
  BY <1>1, <1>2, GoneKeeps

\* Every step does.
LEMMA GoneStepKeeps == ASSUME Typed, Safe, Gone, [Next]_vars PROVE Gone'
  BY GoneCalls, GoneSandboxSteps, GoneStartSteps, GoneStopSteps, GoneAround DEF Next, ThreadStep

\* Only the call that mints an id brings it into the cache of a running server.
LEMMA CacheGains ==
  ASSUME Typed, [Next]_vars, up, up'
  PROVE  /\ \A s \in Sandboxes : cacheSb[s] = "absent" /\ cacheSb'[s] # "absent" =>
              \E t \in Threads : MintsSb(t, s)
         /\ \A c \in Containers : cacheCt[c].state = "absent" /\ cacheCt'[c].state # "absent" =>
              \E t \in Threads : MintsCt(t, c)
<1> USE DEF At, cache, disk, used, acks, vars, MintsSb, MintsCt, CreateLabels, StartLabels, StopLabels
<1>0. /\ StateTyped /\ fr \in [Threads -> Frames] /\ \A t \in Threads : Fits(pc[t], fr[t])
  BY DEF Typed, StepsFit
<1> DEFINE Gains == /\ \A s \in Sandboxes : cacheSb[s] = "absent" /\ cacheSb'[s] # "absent" =>
                         \E t \in Threads : MintsSb(t, s)
                    /\ \A c \in Containers : cacheCt[c].state = "absent" /\ cacheCt'[c].state # "absent" =>
                         \E t \in Threads : MintsCt(t, c)
<1>1. ASSUME NEW t \in Threads, RunInsert(t) \/ StopSandboxMark(t) \/ RemoveSandboxDrop(t) PROVE Gains
  BY <1>0, <1>1 DEF RunInsert, StopSandboxMark, RemoveSandboxDrop, StateTyped, Fits, RunLabels
<1>2. ASSUME NEW t \in Threads, CreateInsert(t) PROVE Gains
  BY <1>0, <1>2 DEF CreateInsert, StateTyped, Fits
<1>3. ASSUME NEW t \in Threads, StartIntent(t) \/ StartFailed(t) \/ StartPid(t) \/ StopMark(t) PROVE Gains
  <2>1. UNCHANGED cacheSb /\ \A c \in Containers : cacheCt[c].state = "absent" => cacheCt'[c] = cacheCt[c]
    BY <1>0, <1>3 DEF StartIntent, StartFailed, StartPid, StopMark, StateTyped
  <2>2. QED
    BY <2>1
<1>4. ASSUME NEW t \in Threads, RemoveDrop(t) PROVE Gains
  BY <1>0, <1>4 DEF RemoveDrop, StateTyped, Absent
<1>5. ASSUME NEW p \in Pids, ReaperRecord(p) PROVE Gains
  <2>1. UNCHANGED cacheSb /\ \A c \in Containers : cacheCt[c].state = "absent" => cacheCt'[c] = cacheCt[c]
    BY <1>0, <1>5 DEF ReaperRecord, OpenToReaper, StateTyped
  <2>2. QED
    BY <2>1
<1>6. ASSUME UNCHANGED <<cacheSb, cacheCt>> PROVE Gains
  BY <1>6
<1>7. ASSUME NEW t \in Threads, Calls(t) PROVE UNCHANGED <<cacheSb, cacheCt>>
  BY <1>7 DEF Calls, CallRunSandbox, CallStopSandbox, CallRemoveSandbox, CallCreateContainer,
     CallStartContainer, CallStopContainer, CallRemoveContainer, Call
<1>8. ASSUME NEW t \in Threads, SandboxSteps(t) PROVE Gains
  BY <1>1, <1>6, <1>8 DEF SandboxSteps, RunWrite, StopSandboxWrite, RemoveSandboxScan,
     RemoveSandboxNext, RemoveSandboxUnlink
<1>9. ASSUME NEW t \in Threads, StartSteps(t) PROVE Gains
  BY <1>2, <1>3, <1>6, <1>9 DEF StartSteps, CreateCheck, CreateWrite, StartCheck, StartIntentWrite,
     StartSpawn, StartFailedWrite, StartIo, StartPidWrite
<1>10. ASSUME NEW t \in Threads, StopSteps(t) PROVE Gains
  BY <1>3, <1>4, <1>6, <1>10 DEF StopSteps, StopCheck, StopTerm, StopGrace, StopKill, StopWait,
     StopMarkWrite, RemoveCheck, RemoveIo, RemoveUnlink
<1>11. ASSUME NEW p \in Pids, ReaperStep(p) PROVE Gains
  BY <1>5, <1>6, <1>11 DEF ReaperStep, ReaperWait, ReaperIo
<1>12. CASE Environment
  BY <1>6, <1>12 DEF Environment, Crash, Opened, OpenContainer, ProcessExits, PidReused
<1>13. QED
  BY <1>6, <1>7, <1>8, <1>9, <1>10, <1>11, <1>12 DEF Next, ThreadStep

\* Within one life of the server an id whose removal was told is never seen again, whatever
\* calls run at once: no thread that still holds it can bring its record back.
THEOREM RemovedForGood == Spec => GoneStaysGone
<1>1. Init => Safe /\ Gone
  BY SafeInit DEF Init, Gone
<1>2. Typed /\ Safe /\ Gone /\ [Next]_vars => Safe' /\ Gone'
  BY SafeStep, GoneStepKeeps
<1>3. Typed /\ Safe /\ Gone /\ [Next]_vars =>
        [up /\ up' =>
           /\ \A s \in Sandboxes : "gone" \in ackSb[s] /\ cacheSb[s] = "absent" => cacheSb'[s] = "absent"
           /\ \A c \in Containers : "gone" \in ackCt[c] /\ cacheCt[c].state = "absent" =>
                                      cacheCt'[c].state = "absent"]_vars
  BY CacheGains DEF Gone
<1>4. QED
  BY <1>1, <1>2, <1>3, AlwaysTyped, PTL DEF Spec, GoneStaysGone

=============================================================================

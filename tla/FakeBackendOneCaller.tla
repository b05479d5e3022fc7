------------------------ MODULE FakeBackendOneCaller ------------------------
(***************************************************************************)
(* What the backend promises a client whose calls come one at a time, for  *)
(* every set of ids and pids and every number of crashes: reapers,         *)
(* programs and crashes still interleave with the caller.  A container's   *)
(* program is spawned once whatever fails; the rest holds as long as no    *)
(* file operation has failed, and past a failed one it does not.           *)
(***************************************************************************)
EXTENDS FakeBackendProofs, FakeBackendRefinement

-----------------------------------------------------------------------------
(* Spawned once.  A process shows that its container left Created in cache *)
(* and on disk, and the only call that can spawn knows of no process.      *)

NoProcessOf(c) == \A p \in Pids : proc[p].st # "free" => proc[p].ct # c

Begun(c) == c \in usedCt /\ cacheCt[c].state # "Created" /\ diskCt[c].state # "Created"

\* What a call at this label, with this frame, knows of what was spawned.
BeforeSpawn(l, f) ==
  /\ f.op = "CreateContainer" => NoProcessOf(f.ct)
  /\ l \in {"st_intent", "st_intent_write", "st_spawn"} => NoProcessOf(f.ct)
  /\ l \in {"st_intent_write", "st_spawn"} => cacheCt[f.ct].state # "Created"
  /\ l = "st_spawn" => diskCt[f.ct].state # "Created"
  /\ l \in {"st_intent_write", "st_failed_write", "st_pid_write", "sc_mark_write"} =>
       f.rec.state # "Created"
  /\ l \in {"st_io", "st_pid"} => Begun(f.ct)

Once ==
  /\ SpawnedOnce
  /\ \A p \in Pids : proc[p].st # "free" => Begun(proc[p].ct)
  /\ \A t \in Threads : BeforeSpawn(pc[t], fr[t])

-----------------------------------------------------------------------------
(* Cache and disk agree, but for the record the caller is in the middle of. *)

WithPid(rec, p) == [rec EXCEPT !.pid = p]

\* The places of a call between its change of the cache and its file operation.
HalfSb == {"run_insert", "ss_write", "rs_unlink"}
HalfCt == {"cc_insert", "st_intent_write", "st_failed_write", "st_pid_write",
           "rc_io", "rc_unlink"}

SbAgree(l, f) ==
  \A s \in Sandboxes : up => cacheSb[s] = diskSb[s] \/ (l \in HalfSb /\ s = f.sb)

CtAgree(l, f) ==
  \A c \in Containers :
    \/ cacheCt[c] = diskCt[c]
    \/ cacheCt[c].state = "absent" /\ (~up \/ diskCt[c].state = "absent")
    \/ l \in HalfCt /\ c = f.ct

\* What the caller knows of its sandbox: a removal goes on with a stopped one, a
\* create with a ready one.
SbHands(l, f) ==
  /\ l = "run_insert" => diskSb[f.sb] = "Ready"
  /\ l = "ss_write" => cacheSb[f.sb] = "NotReady" /\ diskSb[f.sb] = "Ready"
  /\ l = "rs_scan" => cacheSb[f.sb] # "Ready"
  /\ l \in RemSbLabels \ {"rs_scan", "rs_unlink"} => cacheSb[f.sb] = "NotReady"
  /\ l \in StopLabels \cup RemLabels /\ f.op = "RemoveSandbox" => cacheSb[f.sb] = "NotReady"
  /\ l = "rs_unlink" => diskSb[f.sb] = "NotReady"
  /\ l \in {"cc_write", "cc_insert"} => cacheSb[f.sb] = "Ready"

\* And of its container's record.
CtHands(l, f) ==
  /\ l = "cc_insert" => diskCt[f.ct] = NewRecord(f.sb)
  /\ l = "st_intent" => cacheCt[f.ct].state = "Created"
  /\ l = "st_intent_write" =>
       /\ diskCt[f.ct].state = "Created"
       /\ f.rec = Intent(diskCt[f.ct]) /\ cacheCt[f.ct] = f.rec
  /\ l \in {"st_spawn", "st_failed", "st_io", "st_pid"} =>
       cacheCt[f.ct].state = "Running" /\ cacheCt[f.ct].pid = 0
  /\ l = "st_failed_write" =>
       /\ diskCt[f.ct].state = "Running"
       /\ f.rec = Exited(diskCt[f.ct], LostExit) /\ cacheCt[f.ct] = f.rec
  /\ l = "st_pid_write" =>
       /\ diskCt[f.ct].state = "Running"
       /\ f.rec = WithPid(diskCt[f.ct], f.pid) /\ cacheCt[f.ct] = f.rec
  /\ l \in {"sc_term", "sc_grace", "sc_kill"} => cacheCt[f.ct].pid = f.pid
  /\ l \in {"sc_mark", "sc_mark_write"} => FALSE
  /\ l \in StopLabels /\ f.from = "force" => cacheCt[f.ct].state # "absent"
  /\ l = "rc_drop" => cacheCt[f.ct].state # "absent"
  /\ l \in {"rc_io", "rc_unlink"} => diskCt[f.ct].state # "absent"

\* The places of a start whose record says Running with no pid; any other Running
\* record has one.
Pidless == {"st_intent_write", "st_spawn", "st_failed", "st_io", "st_pid"}

PidKnown(l, f) ==
  \A c \in Containers : cacheCt[c].state = "Running" /\ cacheCt[c].pid = 0 =>
    l \in Pidless /\ f.ct = c

Agree ==
  \A t \in Threads : /\ SbAgree(pc[t], fr[t]) /\ CtAgree(pc[t], fr[t])
                     /\ SbHands(pc[t], fr[t]) /\ CtHands(pc[t], fr[t])
                     /\ PidKnown(pc[t], fr[t])

-----------------------------------------------------------------------------
(* A container has its sandbox: the containers a removal has yet to remove  *)
(* are in its hands.                                                        *)

Gathered(l, f) ==
  /\ l = "rs_next" => ContainersOf(f.sb) \subseteq f.todo
  /\ l \in StopLabels \cup RemLabels /\ f.op = "RemoveSandbox" =>
       ContainersOf(f.sb) \subseteq f.todo \cup {f.ct}
  /\ l \in {"rs_drop", "rs_unlink"} => ContainersOf(f.sb) = {}

Housed ==
  /\ \A c \in Containers : diskCt[c].state # "absent" => diskCt[c].sandbox \in Sandboxes
  /\ \A c \in Containers : cacheCt[c].state # "absent" => cacheCt[c].sandbox \in Sandboxes
  /\ NoOrphanContainer
  /\ \A t \in Threads : Gathered(pc[t], fr[t])

-----------------------------------------------------------------------------
(* Processes and their reapers *)

NoLiveChild(c) == \A p \in Pids : proc[p].ct = c => ~(proc[p].st = "live" /\ proc[p].child)

NoReaperOf(c) == \A p \in Pids : proc[p].ct = c => reaper[p] = "none"

\* The child a start has spawned is its own, with no reaper as yet; a stop that waited has
\* no live one left.
ChildHands(l, f) ==
  /\ l \in StartLabels \ {"st_io", "st_pid", "st_pid_write"} => f.pid = 0
  /\ l \in StartLabels \ {"st_check", "st_intent"} => NoReaperOf(f.ct)
  /\ l \in {"st_io", "st_pid", "st_pid_write"} =>
       f.pid \in Pids /\ proc[f.pid].st # "free" /\ proc[f.pid].ct = f.ct
  /\ l \in {"sc_wait", "rc_drop"} => NoLiveChild(f.ct)

Starting(p) == \E t \in Threads : fr[t].op = "StartContainer" /\ fr[t].pid = p

\* A reaper past its wait has collected the child, a crashed server has no children,
\* and a child whose record says Running has a reaper, or the call that spawned it
\* is about to start one.
Reaped ==
  /\ \A p \in Pids : reaper[p] # "none" => proc[p].st # "free"
  /\ \A p \in Pids : reaper[p] \in {"io", "record"} => proc[p].st \in {"dead", "foreign"}
  /\ \A p \in Pids : proc[p].child => up /\ proc[p].st # "free"
  /\ \A p \in Pids : proc[p].child /\ cacheCt[proc[p].ct].state = "Running" =>
       reaper[p] # "none" \/ Starting(p)

RealCode(c, rec) ==
  rec.state = "Exited" /\ rec.code # LostExit =>
    \E p \in Pids : proc[p].ct = c /\ proc[p].st \notin {"free", "live"} /\ proc[p].code = rec.code

Family ==
  /\ \A t \in Threads : ChildHands(pc[t], fr[t])
  /\ ChildIsTracked /\ Reaped
  /\ \A c \in Containers : RealCode(c, cacheCt[c]) /\ RealCode(c, diskCt[c])

-----------------------------------------------------------------------------
(* What calls that returned Ok have promised *)

Withdrawn(l, f) ==
  /\ f.op = "RunSandbox" => ackSb[f.sb] = {}
  /\ f.op = "CreateContainer" => ackCt[f.ct] = {}
  /\ f.op = "RemoveSandbox" =>
       /\ "exists" \notin ackSb[f.sb]
       /\ \A c \in Containers : c \in f.todo \/ cacheCt[c].sandbox = f.sb => "exists" \notin ackCt[c]
  /\ l \in StopLabels \cup RemLabels /\ f.op \in {"RemoveSandbox", "RemoveContainer"} =>
       "exists" \notin ackCt[f.ct]

Kept ==
  /\ \A s \in Sandboxes : s \notin usedSb => ackSb[s] = {}
  /\ \A c \in Containers : c \notin usedCt => ackCt[c] = {}
  /\ \A t \in Threads : Withdrawn(pc[t], fr[t])
  /\ Durable

Ordered == Agree /\ Housed /\ Family /\ Kept

OrderedYet == ioErrors = 0 => Ordered

-----------------------------------------------------------------------------
(* What a step makes of the caller's frame *)

\* remove_sandbox takes its next container, or has none left.
LEMMA NextFrame ==
  ASSUME Typed, NEW t \in Threads, RemoveSandboxNext(t)
  PROVE  \/ pc'[t] = "rs_drop" /\ fr' = fr /\ fr[t].todo = {}
         \/ /\ pc'[t] = "sc_check" /\ fr'[t].from = "cascade" /\ fr'[t].ct \in fr[t].todo
            /\ fr'[t].todo = fr[t].todo \ {fr'[t].ct} /\ fr'[t].grace = FALSE
            /\ fr'[t].op = fr[t].op /\ fr'[t].sb = fr[t].sb /\ fr'[t].pid = fr[t].pid
            /\ fr'[t].rec = fr[t].rec
<1>0. /\ pc \in [Threads -> Labels] /\ fr \in [Threads -> Frames] /\ fr[t] \in Frames
  BY DEF Typed, StepsFit
<1>1. ASSUME NEW c \in fr[t].todo,
             fr' = [fr EXCEPT ![t].ct = c, ![t].todo = @ \ {c},
                                ![t].grace = FALSE, ![t].from = "cascade"]
      PROVE  /\ fr'[t].from = "cascade" /\ fr'[t].ct = c
             /\ fr'[t].todo = fr[t].todo \ {c} /\ fr'[t].grace = FALSE
             /\ fr'[t].op = fr[t].op /\ fr'[t].sb = fr[t].sb /\ fr'[t].pid = fr[t].pid
             /\ fr'[t].rec = fr[t].rec
  <2>1. fr'[t] = [fr[t] EXCEPT !.ct = c, !.todo = @ \ {c}, !.grace = FALSE, !.from = "cascade"]
    BY <1>0, <1>1
  <2>2. QED
    BY <1>0, <2>1 DEF Frames
<1>2. QED
  BY <1>0, <1>1 DEF RemoveSandboxNext, Goto

\* remove_container force-stops the Running container first.
LEMMA ForceFrame ==
  ASSUME Typed, NEW t \in Threads, RemoveCheck(t), StopsFirst(cacheCt[fr[t].ct])
  PROVE  /\ pc'[t] = "sc_check" /\ fr'[t].from = "force" /\ fr'[t].grace = FALSE
            /\ fr'[t].ct = fr[t].ct /\ fr'[t].todo = fr[t].todo
            /\ fr'[t].op = fr[t].op /\ fr'[t].sb = fr[t].sb /\ fr'[t].rec = fr[t].rec
            /\ UNCHANGED acks
<1>0. /\ pc \in [Threads -> Labels] /\ fr \in [Threads -> Frames] /\ fr[t] \in Frames
  BY DEF Typed, StepsFit
<1>1. cacheCt[fr[t].ct].state # "absent" /\ fr' = [fr EXCEPT ![t].from = "force", ![t].grace = FALSE]
      /\ Goto(t, "sc_check") /\ UNCHANGED acks
  BY DEF RemoveCheck, StopsFirst
<1>2. fr'[t] = [fr[t] EXCEPT !.from = "force", !.grace = FALSE]
  BY <1>0, <1>1
<1>3. QED
  BY <1>0, <1>1, <1>2 DEF Goto, Frames

\* The frame a call starts with, and the acknowledgements it withdraws.
LEMMA CallFrame ==
  ASSUME Typed, NEW t \in Threads, Calls(t)
  PROVE  /\ up /\ pc[t] = "idle" /\ fr'[t].todo = {} /\ fr'[t].from = "client" /\ fr'[t].pid = 0
         /\ UNCHANGED <<up, cache, io, disk, proc, reaper, crashes, ioErrors>>
         /\ \/ /\ pc'[t] = "run_write" /\ fr'[t].op = "RunSandbox"
               /\ fr'[t].sb \in Sandboxes \ usedSb /\ usedSb' = usedSb \cup {fr'[t].sb}
               /\ UNCHANGED <<usedCt, acks>>
            \/ /\ pc'[t] = "ss_mark" /\ fr'[t].op = "StopSandbox"
               /\ fr'[t].sb \in KnownSb /\ UNCHANGED <<used, acks>>
            \/ /\ pc'[t] = "ss_mark" /\ fr'[t].op = "RemoveSandbox"
               /\ fr'[t].sb \in KnownSb /\ UNCHANGED used
               /\ ackSb' = [ackSb EXCEPT ![fr'[t].sb] = @ \ {"exists"}]
               /\ ackCt' = [c \in Containers |-> IF cacheCt[c].sandbox = fr'[t].sb
                                              THEN ackCt[c] \ {"exists"} ELSE ackCt[c]]
            \/ /\ pc'[t] = "cc_check" /\ fr'[t].op = "CreateContainer"
               /\ fr'[t].sb \in KnownSb /\ fr'[t].ct \in Containers \ usedCt
               /\ usedCt' = usedCt \cup {fr'[t].ct} /\ UNCHANGED <<usedSb, acks>>
            \/ /\ pc'[t] = "st_check" /\ fr'[t].op = "StartContainer"
               /\ fr'[t].ct \in KnownCt /\ UNCHANGED <<used, ackSb>>
               /\ ackCt' = [ackCt EXCEPT ![fr'[t].ct] = @ \ {"stopped"}]
            \/ /\ pc'[t] = "sc_check" /\ fr'[t].op = "StopContainer"
               /\ fr'[t].ct \in KnownCt /\ UNCHANGED <<used, acks>>
            \/ /\ pc'[t] = "rc_check" /\ fr'[t].op = "RemoveContainer"
               /\ fr'[t].ct \in KnownCt /\ UNCHANGED <<used, ackSb>>
               /\ ackCt' = [ackCt EXCEPT ![fr'[t].ct] = @ \ {"exists"}]
<1> USE DEF Call, At, Goto
<1>0. pc \in [Threads -> Labels] /\ fr \in [Threads -> Frames]
  BY DEF Typed, StepsFit
<1>1. CASE CallRunSandbox(t)
  <2>1. PICK s \in Sandboxes \ usedSb :
          /\ Call(t, "run_write", [IdleFrame EXCEPT !.op = "RunSandbox", !.sb = s])
          /\ usedSb' = usedSb \cup {s} /\ UNCHANGED <<usedCt, acks>>
    BY <1>1 DEF CallRunSandbox
  <2>2. fr'[t] = [IdleFrame EXCEPT !.op = "RunSandbox", !.sb = s] /\ pc'[t] = "run_write"
    BY <1>0, <2>1
  <2>3. fr'[t].op = "RunSandbox" /\ fr'[t].sb = s
        /\ fr'[t].todo = {} /\ fr'[t].from = "client" /\ fr'[t].pid = 0
    BY <2>2 DEF IdleFrame
  <2>4. QED
    BY <2>1, <2>2, <2>3
<1>2. CASE CallStopSandbox(t)
  <2>1. PICK s \in KnownSb :
          /\ Call(t, "ss_mark", [IdleFrame EXCEPT !.op = "StopSandbox", !.sb = s])
          /\ UNCHANGED <<used, acks>>
    BY <1>2 DEF CallStopSandbox
  <2>2. fr'[t] = [IdleFrame EXCEPT !.op = "StopSandbox", !.sb = s] /\ pc'[t] = "ss_mark"
    BY <1>0, <2>1
  <2>3. fr'[t].op = "StopSandbox" /\ fr'[t].sb = s
        /\ fr'[t].todo = {} /\ fr'[t].from = "client" /\ fr'[t].pid = 0
    BY <2>2 DEF IdleFrame
  <2>4. QED
    BY <2>1, <2>2, <2>3
<1>3. CASE CallRemoveSandbox(t)
  <2>1. PICK s \in KnownSb :
          /\ Call(t, "ss_mark", [IdleFrame EXCEPT !.op = "RemoveSandbox", !.sb = s])
          /\ ackSb' = [ackSb EXCEPT ![s] = @ \ {"exists"}]
          /\ ackCt' = [c \in Containers |-> IF cacheCt[c].sandbox = s THEN ackCt[c] \ {"exists"}
                                                                    ELSE ackCt[c]]
          /\ UNCHANGED used
    BY <1>3 DEF CallRemoveSandbox
  <2>2. fr'[t] = [IdleFrame EXCEPT !.op = "RemoveSandbox", !.sb = s] /\ pc'[t] = "ss_mark"
    BY <1>0, <2>1
  <2>3. fr'[t].op = "RemoveSandbox" /\ fr'[t].sb = s
        /\ fr'[t].todo = {} /\ fr'[t].from = "client" /\ fr'[t].pid = 0
    BY <2>2 DEF IdleFrame
  <2>4. QED
    BY <2>1, <2>2, <2>3
<1>4. CASE CallCreateContainer(t)
  <2>1. PICK s \in KnownSb, c \in Containers \ usedCt :
          /\ Call(t, "cc_check", [IdleFrame EXCEPT !.op = "CreateContainer", !.sb = s, !.ct = c])
          /\ usedCt' = usedCt \cup {c} /\ UNCHANGED <<usedSb, acks>>
    BY <1>4 DEF CallCreateContainer
  <2>2. fr'[t] = [IdleFrame EXCEPT !.op = "CreateContainer", !.sb = s, !.ct = c] /\ pc'[t] = "cc_check"
    BY <1>0, <2>1
  <2>3. fr'[t].op = "CreateContainer" /\ fr'[t].sb = s /\ fr'[t].ct = c
        /\ fr'[t].todo = {} /\ fr'[t].from = "client" /\ fr'[t].pid = 0
    BY <2>2 DEF IdleFrame
  <2>4. QED
    BY <2>1, <2>2, <2>3
<1>5. CASE CallStartContainer(t)
  <2>1. PICK c \in KnownCt :
          /\ Call(t, "st_check", [IdleFrame EXCEPT !.op = "StartContainer", !.ct = c])
          /\ ackCt' = [ackCt EXCEPT ![c] = @ \ {"stopped"}] /\ UNCHANGED <<used, ackSb>>
    BY <1>5 DEF CallStartContainer
  <2>2. fr'[t] = [IdleFrame EXCEPT !.op = "StartContainer", !.ct = c] /\ pc'[t] = "st_check"
    BY <1>0, <2>1
  <2>3. fr'[t].op = "StartContainer" /\ fr'[t].ct = c
        /\ fr'[t].todo = {} /\ fr'[t].from = "client" /\ fr'[t].pid = 0
    BY <2>2 DEF IdleFrame
  <2>4. QED
    BY <2>1, <2>2, <2>3
<1>6. CASE CallStopContainer(t)
  <2>1. PICK c \in KnownCt, g \in BOOLEAN :
          /\ Call(t, "sc_check", [IdleFrame EXCEPT !.op = "StopContainer", !.ct = c, !.grace = g])
          /\ UNCHANGED <<used, acks>>
    BY <1>6 DEF CallStopContainer
  <2>2. fr'[t] = [IdleFrame EXCEPT !.op = "StopContainer", !.ct = c, !.grace = g] /\ pc'[t] = "sc_check"
    BY <1>0, <2>1
  <2>3. fr'[t].op = "StopContainer" /\ fr'[t].ct = c
        /\ fr'[t].todo = {} /\ fr'[t].from = "client" /\ fr'[t].pid = 0
    BY <2>2 DEF IdleFrame
  <2>4. QED
    BY <2>1, <2>2, <2>3
<1>7. CASE CallRemoveContainer(t)
  <2>1. PICK c \in KnownCt :
          /\ Call(t, "rc_check", [IdleFrame EXCEPT !.op = "RemoveContainer", !.ct = c])
          /\ ackCt' = [ackCt EXCEPT ![c] = @ \ {"exists"}] /\ UNCHANGED <<used, ackSb>>
    BY <1>7 DEF CallRemoveContainer
  <2>2. fr'[t] = [IdleFrame EXCEPT !.op = "RemoveContainer", !.ct = c] /\ pc'[t] = "rc_check"
    BY <1>0, <2>1
  <2>3. fr'[t].op = "RemoveContainer" /\ fr'[t].ct = c
        /\ fr'[t].todo = {} /\ fr'[t].from = "client" /\ fr'[t].pid = 0
    BY <2>2 DEF IdleFrame
  <2>4. QED
    BY <2>1, <2>2, <2>3
<1>8. QED
  BY <1>1, <1>2, <1>3, <1>4, <1>5, <1>6, <1>7 DEF Calls

-----------------------------------------------------------------------------
(* A container's program is spawned once. *)

\* A step that spawns nothing and leaves the records alone.
LEMMA OnceStays ==
  ASSUME Once, NEW t, Threads = {t}, UNCHANGED <<proc, usedCt, cacheCt, diskCt>>,
         BeforeSpawn(pc[t], fr[t])'
  PROVE  Once'
<1>1. SpawnedOnce' /\ \A p \in Pids : proc'[p].st # "free" => Begun(proc[p].ct)'
  BY DEF Once, SpawnedOnce, Begun
<1>2. QED
  BY <1>1 DEF Once

\* Nothing is remembered of spawning between the calls, nor by calls about sandboxes.
LEMMA OnceForgets ==
  ASSUME Typed', NEW t \in Threads, fr'[t].op \notin {"CreateContainer", "StartContainer"},
         pc'[t] # "sc_mark_write"
  PROVE  BeforeSpawn(pc[t], fr[t])'
<1>1. Fits(pc'[t], fr'[t])
  BY DEF Typed, StepsFit
<1>2. QED
  BY <1>1 DEF BeforeSpawn, Fits, StartLabels

\* Sandbox calls touch no process and no record of a container.
LEMMA OnceSandboxSteps ==
  ASSUME Typed, Typed', Once, NEW t, Threads = {t}, SandboxSteps(t)
  PROVE  Once'
<1> USE DEF At, cache, disk, used, acks, IoErrorReturn, Goto, Return
<1>0. /\ t \in Threads /\ pc \in [Threads -> Labels] /\ fr \in [Threads -> Frames]
      /\ Fits(pc[t], fr[t])
  BY DEF Typed, StepsFit
<1>1. UNCHANGED <<proc, usedCt, cacheCt, diskCt>>
  BY DEF SandboxSteps, RunWrite, RunInsert, StopSandboxMark, StopSandboxWrite, RemoveSandboxScan,
         RemoveSandboxNext, RemoveSandboxDrop, RemoveSandboxUnlink
<1>2. /\ fr'[t].op \notin {"CreateContainer", "StartContainer"}
      /\ pc'[t] # "sc_mark_write"
  <2> USE DEF Fits, RunLabels, StopSbLabels, RemSbLabels, IdleFrame, SandboxStopped
  <2>1. CASE RunWrite(t)
    BY <1>0, <2>1 DEF RunWrite
  <2>2. CASE RunInsert(t)
    BY <1>0, <2>2 DEF RunInsert
  <2>3. CASE StopSandboxMark(t)
    BY <1>0, <2>3 DEF StopSandboxMark
  <2>4. CASE StopSandboxWrite(t)
    BY <1>0, <2>4 DEF StopSandboxWrite
  <2>5. CASE RemoveSandboxScan(t)
    BY <1>0, <2>5 DEF RemoveSandboxScan, Frames
  <2>6. CASE RemoveSandboxNext(t)
    BY <1>0, <2>6, NextFrame DEF RemoveSandboxNext
  <2>7. CASE RemoveSandboxDrop(t)
    BY <1>0, <2>7 DEF RemoveSandboxDrop
  <2>8. CASE RemoveSandboxUnlink(t)
    BY <1>0, <2>8 DEF RemoveSandboxUnlink
  <2>9. QED
    BY <2>1, <2>2, <2>3, <2>4, <2>5, <2>6, <2>7, <2>8 DEF SandboxSteps
<1>3. QED
  BY <1>0, <1>1, <1>2, OnceStays, OnceForgets

\* The record written or inserted is of a container no process runs; a start that found
\* the container Created leaves no Created record behind before it spawns.
LEMMA OnceStartSteps ==
  ASSUME Typed, Typed', Safe, Once, NEW t, Threads = {t}, StartSteps(t)
  PROVE  Once'
<1> USE DEF At, cache, disk, used, acks, IoErrorReturn, Goto, Return
<1>0. /\ t \in Threads /\ pc \in [Threads -> Labels] /\ fr \in [Threads -> Frames]
      /\ Fits(pc[t], fr[t]) /\ StateTyped /\ Fits(pc'[t], fr'[t]) /\ BeforeSpawn(pc[t], fr[t])
      /\ SpawnedOnce /\ \A p \in Pids : proc[p].st # "free" => Begun(proc[p].ct)
  BY DEF Typed, StepsFit, Once
<1>a. fr[t].ct # None => fr[t].ct \in usedCt
  BY <1>0 DEF Safe, IdsMinted
<1>b. IdleFrame.op = "none" /\ None \notin Containers
  BY ConstantsOK DEF IdleFrame
<1>1. CASE CreateCheck(t)
  <2>1. UNCHANGED <<proc, usedCt, cacheCt, diskCt>>
    BY <1>1 DEF CreateCheck
  <2>2. BeforeSpawn(pc[t], fr[t])'
    BY <1>0, <1>1, <1>b, <2>1 DEF CreateCheck, BeforeSpawn, Fits, CreateLabels, NoProcessOf
  <2>3. QED
    BY <2>1, <2>2, OnceStays
<1>2. CASE CreateWrite(t)
  <2>1. UNCHANGED <<proc, usedCt, cacheCt>> /\ fr[t].op = "CreateContainer" /\ fr[t].ct \in Containers
    BY <1>0, <1>2 DEF CreateWrite, Fits, CreateLabels
  <2>2. \A c \in Containers : diskCt'[c] = diskCt[c] \/ c = fr[t].ct
    BY <1>0, <1>2 DEF CreateWrite, StateTyped
  <2>3. \A p \in Pids : proc'[p].st # "free" => Begun(proc[p].ct)'
    BY <1>0, <2>1, <2>2 DEF Begun, BeforeSpawn, NoProcessOf, StateTyped
  <2>4. BeforeSpawn(pc[t], fr[t])'
    BY <1>0, <1>2, <1>b, <2>1 DEF CreateWrite, BeforeSpawn, Fits, CreateLabels, NoProcessOf
  <2>5. QED
    BY <1>0, <2>1, <2>3, <2>4 DEF Once, SpawnedOnce
<1>3. CASE CreateInsert(t)
  <2>1. UNCHANGED <<proc, usedCt, diskCt>> /\ fr[t].op = "CreateContainer" /\ fr[t].ct \in Containers
    BY <1>0, <1>3 DEF CreateInsert, Fits, CreateLabels
  <2>2. \A c \in Containers : cacheCt'[c] = cacheCt[c] \/ c = fr[t].ct
    BY <1>0, <1>3 DEF CreateInsert, StateTyped
  <2>3. \A p \in Pids : proc'[p].st # "free" => Begun(proc[p].ct)'
    BY <1>0, <2>1, <2>2 DEF Begun, BeforeSpawn, NoProcessOf, StateTyped
  <2>4. BeforeSpawn(pc[t], fr[t])'
    BY <1>0, <1>3, <1>b DEF CreateInsert, BeforeSpawn
  <2>5. QED
    BY <1>0, <2>1, <2>3, <2>4 DEF Once, SpawnedOnce
<1>4. CASE StartCheck(t)
  <2>1. UNCHANGED <<proc, usedCt, cacheCt, diskCt>>
    BY <1>4 DEF StartCheck
  <2>2. cacheCt[fr[t].ct].state = "Created" => NoProcessOf(fr[t].ct)
    BY <1>0 DEF Begun, NoProcessOf
  <2>3. BeforeSpawn(pc[t], fr[t])'
    BY <1>0, <1>4, <1>b, <2>1, <2>2 DEF StartCheck, MayStart, BeforeSpawn, Fits, StartLabels, NoProcessOf
  <2>4. QED
    BY <2>1, <2>3, OnceStays
<1>5. CASE StartIntent(t)
  <2>1. UNCHANGED <<proc, usedCt, diskCt>> /\ fr[t].op = "StartContainer" /\ fr[t].ct \in Containers
        /\ pc[t] = "st_intent"
    BY <1>0, <1>5 DEF StartIntent, Fits, StartLabels
  <2>2. \A c \in Containers : cacheCt'[c] = cacheCt[c] \/ c = fr[t].ct
    BY <1>0, <1>5 DEF StartIntent, StateTyped
  <2>3. \A p \in Pids : proc'[p].st # "free" => Begun(proc[p].ct)'
    BY <1>0, <2>1, <2>2 DEF Begun, BeforeSpawn, NoProcessOf, StateTyped
  <2>4. \/ pc'[t] = "idle" /\ fr'[t] = IdleFrame
        \/ /\ pc'[t] = "st_intent_write" /\ fr'[t].ct = fr[t].ct /\ fr'[t].op = "StartContainer"
           /\ fr'[t].rec = cacheCt'[fr[t].ct]
           /\ cacheCt'[fr[t].ct] = Intent(cacheCt[fr[t].ct])
    BY <1>0, <1>5, <2>1 DEF StartIntent, StateTyped, Frames
  <2>5. Intent(cacheCt[fr[t].ct]).state = "Running"
    BY <1>0, <2>1, RecordStates DEF StateTyped
  <2>6. BeforeSpawn(pc[t], fr[t])'
    BY <1>0, <1>b, <2>1, <2>4, <2>5 DEF BeforeSpawn, NoProcessOf
  <2>7. QED
    BY <1>0, <2>1, <2>3, <2>6 DEF Once, SpawnedOnce
<1>6. CASE StartIntentWrite(t)
  <2>1. UNCHANGED <<proc, usedCt, cacheCt>> /\ fr[t].op = "StartContainer" /\ fr[t].ct \in Containers
        /\ pc[t] = "st_intent_write"
    BY <1>0, <1>6 DEF StartIntentWrite, Fits, StartLabels
  <2>2. \A c \in Containers : diskCt'[c] = diskCt[c] \/ c = fr[t].ct
    BY <1>0, <1>6 DEF StartIntentWrite, StateTyped
  <2>3. \A p \in Pids : proc'[p].st # "free" => Begun(proc[p].ct)'
    BY <1>0, <2>1, <2>2 DEF Begun, BeforeSpawn, NoProcessOf, StateTyped
  <2>4. \/ pc'[t] = "idle" /\ fr'[t] = IdleFrame
        \/ pc'[t] = "st_spawn" /\ fr'[t] = fr[t] /\ diskCt'[fr[t].ct] = fr[t].rec
    BY <1>0, <1>6, <2>1 DEF StartIntentWrite, StateTyped
  <2>5. BeforeSpawn(pc[t], fr[t])'
    BY <1>0, <1>b, <2>1, <2>4 DEF BeforeSpawn, NoProcessOf
  <2>6. QED
    BY <1>0, <2>1, <2>3, <2>5 DEF Once, SpawnedOnce
<1>7. CASE StartSpawn(t)
  <2>1. UNCHANGED <<usedCt, cacheCt, diskCt>> /\ fr[t].op = "StartContainer" /\ fr[t].ct \in Containers
        /\ pc[t] = "st_spawn"
    BY <1>0, <1>7 DEF StartSpawn, Fits, StartLabels
  <2>2. Begun(fr[t].ct)
    BY <1>0, <1>a, <1>b, <2>1 DEF Begun, BeforeSpawn
  <2>3. CASE UNCHANGED <<proc, fr>> /\ pc'[t] = "st_failed"
    <3>1. BeforeSpawn(pc[t], fr[t])'
      BY <2>1, <2>3 DEF BeforeSpawn
    <3>2. QED
      BY <2>1, <2>3, <3>1, OnceStays
  <2>4. ASSUME NEW p \in Pids, proc' = [proc EXCEPT ![p] = Spawned(fr[t].ct)],
               fr' = [fr EXCEPT ![t].pid = p], pc'[t] = "st_io"
        PROVE  Once'
    <3>1. fr'[t].op = "StartContainer" /\ fr'[t].ct = fr[t].ct
      BY <1>0, <2>1, <2>4 DEF Frames
    <3>2. proc'[p].ct = fr[t].ct /\ \A q \in Pids \ {p} : proc'[q] = proc[q]
      BY <1>0, <2>4 DEF StateTyped, Spawned
    <3>3. SpawnedOnce'
      BY <1>0, <2>1, <3>2 DEF SpawnedOnce, BeforeSpawn, NoProcessOf
    <3>4. \A q \in Pids : proc'[q].st # "free" => Begun(proc[q].ct)'
      BY <1>0, <2>1, <2>2, <3>2 DEF Begun
    <3>5. BeforeSpawn(pc[t], fr[t])'
      BY <2>1, <2>2, <2>4, <3>1 DEF BeforeSpawn, Begun
    <3>6. QED
      BY <3>3, <3>4, <3>5 DEF Once
  <2>5. QED
    BY <1>0, <1>7, <2>3, <2>4 DEF StartSpawn
<1>8. CASE StartFailed(t)
  <2>1. UNCHANGED <<proc, usedCt, diskCt>> /\ fr[t].op = "StartContainer" /\ fr[t].ct \in Containers
        /\ pc[t] = "st_failed"
    BY <1>0, <1>8 DEF StartFailed, Fits, StartLabels
  <2>2. \/ pc'[t] = "idle" /\ fr'[t] = IdleFrame /\ UNCHANGED cacheCt
        \/ /\ pc'[t] = "st_failed_write" /\ fr'[t].op = "StartContainer"
           /\ fr'[t].rec = Exited(cacheCt[fr[t].ct], LostExit)
           /\ cacheCt' = [cacheCt EXCEPT ![fr[t].ct] = Exited(cacheCt[fr[t].ct], LostExit)]
    BY <1>0, <1>8, <2>1 DEF StartFailed, StateTyped, Frames
  <2>3. Exited(cacheCt[fr[t].ct], LostExit).state = "Exited"
    BY <1>0, <2>1, RecordStates DEF StateTyped, LostExit, Codes
  <2>4. \A c \in Containers : cacheCt'[c] = cacheCt[c] \/ cacheCt'[c].state = "Exited"
    BY <1>0, <2>1, <2>2, <2>3 DEF StateTyped
  <2>5. \A p \in Pids : proc'[p].st # "free" => Begun(proc[p].ct)'
    BY <1>0, <2>1, <2>4 DEF Begun, StateTyped
  <2>6. BeforeSpawn(pc[t], fr[t])'
    BY <1>b, <2>2, <2>3 DEF BeforeSpawn
  <2>7. QED
    BY <1>0, <2>1, <2>5, <2>6 DEF Once, SpawnedOnce
<1>9. CASE StartFailedWrite(t)
  <2>1. UNCHANGED <<proc, usedCt, cacheCt>> /\ pc[t] = "st_failed_write"
        /\ pc'[t] = "idle" /\ fr'[t] = IdleFrame
    BY <1>0, <1>9 DEF StartFailedWrite
  <2>2. \A c \in Containers : diskCt'[c] = diskCt[c] \/ diskCt'[c] = fr[t].rec
    BY <1>0, <1>9 DEF StartFailedWrite, StateTyped
  <2>3. \A p \in Pids : proc'[p].st # "free" => Begun(proc[p].ct)'
    BY <1>0, <2>1, <2>2 DEF Begun, BeforeSpawn, StateTyped
  <2>4. BeforeSpawn(pc[t], fr[t])'
    BY <1>b, <2>1 DEF BeforeSpawn
  <2>5. QED
    BY <1>0, <2>1, <2>3, <2>4 DEF Once, SpawnedOnce
<1>10. CASE StartIo(t)
  <2>1. UNCHANGED <<proc, usedCt, cacheCt, diskCt>>
    BY <1>10 DEF StartIo
  <2>2. BeforeSpawn(pc[t], fr[t])'
    BY <1>0, <1>10, <1>b, <2>1 DEF StartIo, BeforeSpawn, Fits, StartLabels, Begun
  <2>3. QED
    BY <2>1, <2>2, OnceStays
<1>11. CASE StartPid(t)
  <2>1. UNCHANGED <<proc, usedCt, diskCt>> /\ fr[t].op = "StartContainer" /\ fr[t].ct \in Containers
        /\ pc[t] = "st_pid" /\ fr[t].pid \in Pids \cup {0}
    BY <1>0, <1>11 DEF StartPid, Fits, StartLabels, Frames
  <2> DEFINE rec == WithPid(cacheCt[fr[t].ct], fr[t].pid)
  <2>2. rec.state = cacheCt[fr[t].ct].state
    BY <1>0, <2>1, RecordStates DEF StateTyped, WithPid
  <2>3. \/ pc'[t] = "idle" /\ fr'[t] = IdleFrame /\ UNCHANGED cacheCt
        \/ /\ pc'[t] = "st_pid_write" /\ fr'[t].op = "StartContainer"
           /\ fr'[t].rec = rec /\ cacheCt' = [cacheCt EXCEPT ![fr[t].ct] = rec]
    <3>1. cacheCt[fr[t].ct] \in CtRecords
      BY <1>0, <2>1 DEF StateTyped
    <3>2. [cacheCt EXCEPT ![fr[t].ct].pid = fr[t].pid] = [cacheCt EXCEPT ![fr[t].ct] = rec]
      BY DEF WithPid
    <3>3. ASSUME fr' = [fr EXCEPT ![t].rec = [cacheCt[fr[t].ct] EXCEPT !.pid = fr[t].pid]]
          PROVE  fr'[t].rec = rec /\ fr'[t].op = fr[t].op
      <4>1. fr' = [fr EXCEPT ![t].rec = rec]
        BY <3>3 DEF WithPid
      <4> HIDE DEF rec
      <4>2. QED
        BY <1>0, <4>1 DEF Frames
    <3> HIDE DEF rec
    <3>4. QED
      BY <1>0, <1>11, <2>1, <3>2, <3>3 DEF StartPid
  <2> HIDE DEF rec
  <2>4. rec.state # "Created"
    BY <1>0, <2>1, <2>2 DEF BeforeSpawn, Begun
  <2>5. \A c \in Containers : cacheCt'[c] = cacheCt[c] \/ cacheCt'[c].state # "Created"
    BY <1>0, <2>1, <2>3, <2>4 DEF StateTyped
  <2>6. \A p \in Pids : proc'[p].st # "free" => Begun(proc[p].ct)'
    BY <1>0, <2>1, <2>5 DEF Begun, StateTyped
  <2>7. BeforeSpawn(pc[t], fr[t])'
    BY <1>b, <2>3, <2>4 DEF BeforeSpawn
  <2>8. QED
    BY <1>0, <2>1, <2>6, <2>7 DEF Once, SpawnedOnce
<1>12. CASE StartPidWrite(t)
  <2>1. UNCHANGED <<proc, usedCt, cacheCt>> /\ pc[t] = "st_pid_write"
        /\ pc'[t] = "idle" /\ fr'[t] = IdleFrame
    BY <1>0, <1>12 DEF StartPidWrite
  <2>2. \A c \in Containers : diskCt'[c] = diskCt[c] \/ diskCt'[c] = fr[t].rec
    BY <1>0, <1>12 DEF StartPidWrite, StateTyped
  <2>3. \A p \in Pids : proc'[p].st # "free" => Begun(proc[p].ct)'
    BY <1>0, <2>1, <2>2 DEF Begun, BeforeSpawn, StateTyped
  <2>4. BeforeSpawn(pc[t], fr[t])'
    BY <1>b, <2>1 DEF BeforeSpawn
  <2>5. QED
    BY <1>0, <2>1, <2>3, <2>4 DEF Once, SpawnedOnce
<1>13. QED
  BY <1>1, <1>2, <1>3, <1>4, <1>5, <1>6, <1>7, <1>8, <1>9, <1>10, <1>11, <1>12 DEF StartSteps

\* What can become of a process, by whatever step but a spawn: it stays its container's,
\* does not come back to life, and keeps its exit code.
Fate(q, r) ==
  /\ r.ct = q.ct /\ (r.st = "free" <=> q.st = "free")
  /\ r.st = "live" => q.st = "live"
  /\ r.child => q.child
  /\ q.st \notin {"free", "live"} => r.code = q.code
  /\ q.st \in {"dead", "foreign"} => r.st \in {"dead", "foreign"}

\* What the kernel, a signal or a reaper makes of a process is a fate of it.
LEMMA Fates ==
  ASSUME NEW q \in Processes
  PROVE  /\ Fate(q, q)
         /\ Fate(q, Killed(q)) /\ Killed(q).st # "live"
         /\ Fate(q, Terminated(q))
         /\ Fate(q, Orphaned(q)) /\ ~Orphaned(q).child
         /\ \A k \in Codes : q.st = "live" => Fate(q, Ended(q, k)) /\ Ended(q, k).st # "live"
         /\ q.st \notin {"free", "live"} => Fate(q, [q EXCEPT !.st = "dead"])
         /\ q.st = "dead" => Fate(q, [q EXCEPT !.st = "foreign"])
<1>1. KillExit \in Codes /\ q.child \in BOOLEAN
  BY DEF KillExit, Codes, Processes
<1>2. \A k \in Codes : q.st = "live" => Fate(q, Ended(q, k)) /\ Ended(q, k).st # "live"
  BY DEF Processes, Ended, Fate
<1>3. Fate(q, Killed(q)) /\ Killed(q).st # "live"
  BY <1>1, <1>2 DEF Processes, Killed, Fate
<1>4. Fate(q, Terminated(q)) /\ Fate(q, q)
  BY DEF Processes, Terminated, Fate
<1>5. Fate(q, Orphaned(q)) /\ ~Orphaned(q).child
  BY DEF Processes, Orphaned, Fate
<1>6. /\ q.st \notin {"free", "live"} => Fate(q, [q EXCEPT !.st = "dead"])
      /\ q.st = "dead" => Fate(q, [q EXCEPT !.st = "foreign"])
  BY DEF Processes, Fate
<1>7. QED
  BY <1>2, <1>3, <1>4, <1>5, <1>6

\* Every step but a spawn leaves each process a fate.
LEMMA StepFates ==
  ASSUME Typed, NEW t \in Threads,
         StopSteps(t) \/ (\E p \in Pids : ReaperStep(p)) \/ Environment
  PROVE  \A p \in Pids : Fate(proc[p], proc'[p])
<1>0. proc \in [Pids -> Processes]
  BY DEF Typed, StateTyped
<1>1. \A p \in Pids : Fate(proc[p], proc[p])
  BY <1>0, Fates
<1>2. CASE UNCHANGED proc
  BY <1>1, <1>2
<1>3. ASSUME NEW p, NEW q, proc' = [proc EXCEPT ![p] = q], p \in Pids => Fate(proc[p], q)
      PROVE  \A r \in Pids : Fate(proc[r], proc'[r])
  BY <1>0, <1>1, <1>3
<1>4. CASE StopTerm(t) \/ StopKill(t)
  <2>1. fr[t].pid \in Pids => /\ Fate(proc[fr[t].pid], Terminated(proc[fr[t].pid]))
                              /\ Fate(proc[fr[t].pid], Killed(proc[fr[t].pid]))
    BY <1>0, Fates
  <2>2. QED
    BY <1>3, <1>4, <2>1 DEF StopTerm, StopKill
<1>5. ASSUME NEW p \in Pids, ReaperWait(p) \/ PidReused(p)
      PROVE  \A r \in Pids : Fate(proc[r], proc'[r])
  <2>1. proc[p] \in Processes
    BY <1>0
  <2>2. /\ proc[p].st = "zombie" => Fate(proc[p], [proc[p] EXCEPT !.st = "dead"])
        /\ proc[p].st = "dead" => Fate(proc[p], [proc[p] EXCEPT !.st = "foreign"])
    BY <2>1, Fates
  <2>3. CASE ReaperWait(p)
    BY <1>3, <2>2, <2>3 DEF ReaperWait
  <2>4. CASE PidReused(p)
    BY <1>3, <2>2, <2>4 DEF PidReused
  <2>5. QED
    BY <1>5, <2>3, <2>4
<1>6. ASSUME NEW p \in Pids, ProcessExits(p) PROVE \A r \in Pids : Fate(proc[r], proc'[r])
  <2>1. PICK k \in Codes : proc' = [proc EXCEPT ![p] = Ended(proc[p], k)]
    BY <1>6 DEF ProcessExits, Codes
  <2>2. Fate(proc[p], Ended(proc[p], k))
    BY <1>0, <1>6, Fates DEF ProcessExits
  <2>3. QED
    BY <1>3, <2>1, <2>2
<1>7. CASE Crash
  <2>1. \A p \in Pids : proc'[p] = Orphaned(proc[p]) /\ proc[p] \in Processes
    BY <1>0, <1>7 DEF Crash
  <2>2. QED
    BY <2>1, Fates
<1>8. CASE StopSteps(t)
  BY <1>2, <1>4, <1>8 DEF StopSteps, StopCheck, StopGrace, StopWait, StopMark, StopMarkWrite,
     RemoveCheck, RemoveDrop, RemoveIo, RemoveUnlink
<1>9. CASE \E p \in Pids : ReaperStep(p)
  BY <1>2, <1>5, <1>9 DEF ReaperStep, ReaperIo, ReaperRecord
<1>10. CASE Environment
  BY <1>2, <1>5, <1>6, <1>7, <1>10 DEF Environment, Opened, OpenContainer
<1>11. QED
  BY <1>8, <1>9, <1>10

\* A step that spawns nothing and brings no record to Created.
LEMMA OnceGoesOn ==
  ASSUME Typed, Once, NEW t, Threads = {t}, usedCt \subseteq usedCt',
         \A p \in Pids : Fate(proc[p], proc'[p]),
         \A c \in Containers : /\ cacheCt'[c].state = "Created" => cacheCt[c].state = "Created"
                               /\ diskCt'[c].state = "Created" => diskCt[c].state = "Created",
         BeforeSpawn(pc[t], fr[t])'
  PROVE  Once'
<1>1. SpawnedOnce'
  BY DEF Once, SpawnedOnce, Fate
<1>2. \A p \in Pids : proc'[p].st # "free" => Begun(proc[p].ct)'
  BY DEF Once, Begun, Fate, Typed, StateTyped
<1>3. QED
  BY <1>1, <1>2 DEF Once

\* And one that does not move the caller.
LEMMA OnceAside ==
  ASSUME Typed, Once, NEW t, Threads = {t}, UNCHANGED <<usedCt, pc, fr>>,
         \A p \in Pids : Fate(proc[p], proc'[p]),
         \A c \in Containers : /\ cacheCt'[c].state = "Created" => cacheCt[c].state = "Created"
                               /\ diskCt'[c].state = "Created" => diskCt[c].state = "Created"
  PROVE  Once'
<1>1. BeforeSpawn(pc[t], fr[t]) /\ Fits(pc[t], fr[t])
  BY DEF Once, Typed, StepsFit
<1>2. \A c : NoProcessOf(c) => NoProcessOf(c)'
  BY DEF NoProcessOf, Fate
<1>3. fr[t].ct \in Containers => (Begun(fr[t].ct) => Begun(fr[t].ct)')
  BY DEF Begun
<1>4. BeforeSpawn(pc[t], fr[t])'
  BY <1>1, <1>2, <1>3 DEF BeforeSpawn, Fits, StartLabels, CreateLabels
<1>5. QED
  BY <1>4, OnceGoesOn

\* stop_container and remove_container spawn nothing and create nothing.
LEMMA OnceStopSteps ==
  ASSUME Typed, Typed', Once, NEW t, Threads = {t}, StopSteps(t)
  PROVE  Once'
<1> USE DEF At, cache, disk, used, acks, IoErrorReturn, Goto, Return
<1>0. /\ t \in Threads /\ pc \in [Threads -> Labels] /\ fr \in [Threads -> Frames]
      /\ Fits(pc[t], fr[t]) /\ BeforeSpawn(pc[t], fr[t]) /\ StateTyped
  BY DEF Typed, StepsFit, Once
<1>1. UNCHANGED usedCt /\ pc[t] \in StopLabels \cup RemLabels
  BY DEF StopSteps, StopCheck, StopTerm, StopGrace, StopKill, StopWait, StopMark, StopMarkWrite,
         RemoveCheck, RemoveDrop, RemoveIo, RemoveUnlink, StopLabels, RemLabels
<1>2. \A p \in Pids : Fate(proc[p], proc'[p])
  BY <1>0, StepFates
<1>3. fr[t].op \notin {"CreateContainer", "StartContainer"} /\ fr[t].ct \in Containers
  BY <1>0, <1>1 DEF Fits
<1>4. CASE StopMark(t)
  <2>1. \A k \in {TermExit, KillExit} : Exited(cacheCt[fr[t].ct], k).state = "Exited"
    BY <1>0, <1>3, RecordStates DEF StateTyped, TermExit, KillExit, Codes
  <2>2. UNCHANGED diskCt /\ \A c \in Containers : cacheCt'[c] = cacheCt[c] \/ cacheCt'[c].state = "Exited"
    BY <1>0, <1>4, <2>1 DEF StopMark, StateTyped
  <2>3. BeforeSpawn(pc[t], fr[t])'
    <3>1. fr'[t].op \notin {"CreateContainer", "StartContainer"}
          /\ (pc'[t] = "sc_mark_write" => fr'[t].rec.state = "Exited")
          /\ pc'[t] \notin StartLabels
      BY <1>0, <1>3, <1>4, <2>1
         DEF StopMark, ContainerStopped, Frames, IdleFrame, StartLabels
    <3>2. QED
      BY <3>1 DEF BeforeSpawn, StartLabels
  <2>4. QED
    BY <1>1, <1>2, <2>2, <2>3, OnceGoesOn
<1>5. ASSUME ~StopMark(t)
      PROVE  fr'[t].op \notin {"CreateContainer", "StartContainer"} /\ pc'[t] # "sc_mark_write"
  <2> USE DEF ContainerStopped, ContainerRemoved, IdleFrame
  <2>1. CASE StopCheck(t)
    BY <1>0, <1>3, <2>1 DEF StopCheck, Frames
  <2>2. CASE StopTerm(t) \/ StopGrace(t) \/ StopKill(t) \/ StopWait(t)
    BY <1>0, <1>3, <2>2 DEF StopTerm, StopGrace, StopKill, StopWait
  <2>3. CASE StopMarkWrite(t)
    BY <1>0, <1>3, <2>3 DEF StopMarkWrite
  <2>4. CASE RemoveCheck(t) /\ StopsFirst(cacheCt[fr[t].ct])
    BY <1>0, <1>3, <2>4, ForceFrame
  <2>5. CASE RemoveCheck(t) /\ ~StopsFirst(cacheCt[fr[t].ct])
    BY <1>0, <1>3, <2>5 DEF RemoveCheck
  <2>6. CASE RemoveDrop(t) \/ RemoveIo(t) \/ RemoveUnlink(t)
    BY <1>0, <1>3, <2>6 DEF RemoveDrop, RemoveIo, RemoveUnlink
  <2>7. QED
    BY <1>5, <2>1, <2>2, <2>3, <2>4, <2>5, <2>6 DEF StopSteps
<1>6. CASE StopMarkWrite(t) \/ RemoveDrop(t) \/ RemoveUnlink(t)
  <2>1. /\ \A c \in Containers : cacheCt'[c] \in {cacheCt[c], Absent}
        /\ \A c \in Containers : diskCt'[c] \in {diskCt[c], Absent, fr[t].rec}
        /\ pc[t] # "sc_mark_write" => \A c \in Containers : diskCt'[c] \in {diskCt[c], Absent}
        /\ ~StopMark(t)
    BY <1>0, <1>6 DEF StopMark, StopMarkWrite, RemoveDrop, RemoveUnlink, StateTyped
  <2>2. \A c \in Containers : /\ cacheCt'[c].state = "Created" => cacheCt[c].state = "Created"
                              /\ diskCt'[c].state = "Created" => diskCt[c].state = "Created"
    BY <1>0, <2>1 DEF BeforeSpawn, Absent
  <2>3. QED
    BY <1>0, <1>1, <1>2, <1>5, <2>1, <2>2, OnceGoesOn, OnceForgets
<1>7. CASE UNCHANGED <<cacheCt, diskCt>> /\ ~StopMark(t)
  BY <1>0, <1>1, <1>2, <1>5, <1>7, OnceGoesOn, OnceForgets
<1>8. QED
  BY <1>4, <1>6, <1>7 DEF StopSteps, StopCheck, StopTerm, StopGrace, StopKill, StopWait, StopMark,
     RemoveCheck, RemoveIo

\* Reapers and `open` close records; a crash forgets them.
LEMMA OnceAround ==
  ASSUME Typed, Typed', Safe, Once, NEW t, Threads = {t},
         (\E p \in Pids : ReaperStep(p)) \/ Environment
  PROVE  Once'
<1> USE DEF cache, disk, used, acks
<1>0. StateTyped /\ t \in Threads
  BY DEF Typed
<1>1. \A p \in Pids : Fate(proc[p], proc'[p])
  BY <1>0, StepFates
<1>2. ASSUME NEW p \in Pids, ReaperStep(p) PROVE Once'
  <2>1. UNCHANGED <<usedCt, pc, fr>>
    BY <1>2 DEF ReaperStep, ReaperWait, ReaperIo, ReaperRecord
  <2>2. \A c \in Containers : Exited(cacheCt[c], proc[p].code).state = "Exited"
    BY <1>0, RecordStates DEF StateTyped, Processes
  <2>3. \A c \in Containers : /\ cacheCt'[c].state \in {cacheCt[c].state, "Exited"}
                              /\ diskCt'[c].state \in {diskCt[c].state, "Exited"}
    BY <1>0, <1>2, <2>2 DEF ReaperStep, ReaperWait, ReaperIo, ReaperRecord, StateTyped
  <2>4. QED
    BY <1>1, <2>1, <2>3, OnceAside
<1>3. CASE Crash
  <2>1. fr'[t] = IdleFrame /\ pc'[t] = "idle" /\ UNCHANGED usedCt
        /\ \A c \in Containers : cacheCt'[c] = Absent /\ diskCt'[c] = diskCt[c]
    BY <1>0, <1>3 DEF Crash
  <2>2. BeforeSpawn(pc[t], fr[t])'
    BY <1>0, <2>1, OnceForgets DEF IdleFrame
  <2>3. QED
    BY <1>1, <2>1, <2>2, OnceGoesOn DEF Absent
<1>4. ASSUME NEW c \in Containers, OpenContainer(c) PROVE Once'
  <2>1. Recovered(diskCt[c]).state \in {diskCt[c].state, "Exited"}
    BY <1>0, RecordStates DEF StateTyped, Recovered, LostExit, Codes
  <2>2. UNCHANGED <<usedCt, pc, fr>> /\ cacheCt' = [cacheCt EXCEPT ![c] = Recovered(diskCt[c])]
        /\ diskCt' \in {diskCt, [diskCt EXCEPT ![c] = Recovered(diskCt[c])]}
    BY <1>4 DEF OpenContainer
  <2>3. ~up /\ fr[t].op = "none" /\ pc[t] = "idle"
    BY <1>0, <1>4 DEF OpenContainer, Safe, DownIsIdle, Typed, StepsFit, Fits
  <2>4. BeforeSpawn(pc[t], fr[t])'
    BY <1>0, <2>2, <2>3, OnceForgets
  <2>5. \A d \in Containers : /\ cacheCt'[d].state = "Created" => \/ cacheCt[d].state = "Created"
                                                                  \/ diskCt[d].state = "Created"
                              /\ diskCt'[d].state = "Created" => diskCt[d].state = "Created"
    BY <1>0, <2>1, <2>2 DEF StateTyped
  <2>6. SpawnedOnce' /\ \A p \in Pids : proc'[p].st # "free" => Begun(proc[p].ct)'
    BY <1>0, <1>1, <2>2, <2>5 DEF Once, SpawnedOnce, Begun, Fate, StateTyped
  <2>7. QED
    BY <2>4, <2>6 DEF Once
<1>5. CASE Opened \/ \E p \in Pids : ProcessExits(p) \/ PidReused(p)
  BY <1>1, <1>5, OnceAside DEF Opened, ProcessExits, PidReused
<1>6. QED
  BY <1>2, <1>3, <1>4, <1>5 DEF Environment

\* A container just minted has no process.
LEMMA OnceCalls ==
  ASSUME Typed, Typed', Once, NEW t, Threads = {t}, Calls(t)
  PROVE  Once'
<1> USE DEF cache, disk, used, acks, Call, At, Goto
<1>0. /\ t \in Threads /\ pc \in [Threads -> Labels] /\ fr \in [Threads -> Frames] /\ StateTyped
      /\ \A p \in Pids : proc[p].st # "free" => Begun(proc[p].ct)
  BY DEF Typed, StepsFit, Once
<1>1. UNCHANGED <<proc, cacheCt, diskCt>> /\ usedCt \subseteq usedCt'
  BY DEF Calls, CallRunSandbox, CallStopSandbox, CallRemoveSandbox, CallCreateContainer,
         CallStartContainer, CallStopContainer, CallRemoveContainer
<1>2. \A p \in Pids : Fate(proc[p], proc'[p])
  BY <1>0, <1>1 DEF Fate
<1>3. fr'[t].op = "CreateContainer" => NoProcessOf(fr[t].ct)'
  BY <1>0, <1>1, CallFrame DEF NoProcessOf, Begun
<1>4. pc'[t] \in {"run_write", "ss_mark", "cc_check", "st_check", "sc_check", "rc_check"}
  BY <1>0, CallFrame
<1>5. BeforeSpawn(pc[t], fr[t])'
  BY <1>3, <1>4 DEF BeforeSpawn
<1>6. QED
  BY <1>1, <1>2, <1>5, OnceGoesOn

\* A server that starts on an empty directory has spawned nothing.
LEMMA OnceInit == ASSUME Init PROVE Once
  BY DEF Init, Once, SpawnedOnce, BeforeSpawn, NoProcess, IdleFrame

\* Every step of one caller keeps it so.
LEMMA OnceStep ==
  ASSUME Typed, Typed', Safe, Once, NEW t, Threads = {t}, [Next]_vars
  PROVE  Once'
<1>1. CASE UNCHANGED vars
  BY <1>1, OnceStays DEF vars, cache, disk, used, Once, BeforeSpawn, NoProcessOf, Begun
<1>2. CASE Next
  BY <1>2, OnceCalls, OnceSandboxSteps, OnceStartSteps, OnceStopSteps, OnceAround DEF Next, ThreadStep
<1>3. QED
  BY <1>1, <1>2

\* Start only from Created (start_container's check and its persisted intent): a client
\* whose calls come one at a time never has a container's program spawned twice, whatever
\* crashes or fails in between.
THEOREM ProgramSpawnedOnce == ASSUME NEW t, Threads = {t} PROVE Spec => []SpawnedOnce
<1>1. Spec => []Typed
  BY AlwaysTyped
<1>2. Init => Safe /\ Once
  BY SafeInit, OnceInit
<1>3. Typed /\ Typed' /\ Safe /\ Once /\ [Next]_vars => Safe' /\ Once'
  BY SafeStep, OnceStep
<1>4. Once => SpawnedOnce
  BY DEF Once
<1>5. QED
  BY <1>1, <1>2, <1>3, <1>4, PTL DEF Spec

-----------------------------------------------------------------------------
(* Calls in order: steps that leave records and processes alone *)

\* What the caller knows at this label, with this frame.
Knows(l, f) ==
  SbHands(l, f) /\ CtHands(l, f) /\ Gathered(l, f) /\ ChildHands(l, f) /\ Withdrawn(l, f)

\* A start that has a child keeps it, and goes on with a record that has no pid.
StartGoesOn(t) ==
  /\ fr[t].op = "StartContainer" /\ fr[t].pid \in Pids =>
       fr'[t].op = "StartContainer" /\ fr'[t].pid = fr[t].pid
  /\ pc[t] \in Pidless => pc'[t] \in Pidless /\ fr'[t].ct = fr[t].ct

\* Agreement, when neither cache nor disk changes.
LEMMA AgreeMoves ==
  ASSUME Agree, NEW t, Threads = {t}, UNCHANGED <<up, cacheSb, cacheCt, diskSb, diskCt>>,
         pc[t] \notin HalfSb \cup HalfCt, Knows(pc[t], fr[t])', StartGoesOn(t)
  PROVE  Agree'
<1>1. SbAgree(pc[t], fr[t])' /\ CtAgree(pc[t], fr[t])'
  BY DEF Agree, SbAgree, CtAgree
<1>2. PidKnown(pc[t], fr[t])'
  BY DEF Agree, PidKnown, StartGoesOn
<1>3. QED
  BY <1>1, <1>2 DEF Agree, Knows

\* No container loses its sandbox, when neither cache nor disk changes.
LEMMA HousedMoves ==
  ASSUME Housed, NEW t, Threads = {t}, UNCHANGED <<up, cacheSb, cacheCt, diskSb, diskCt>>,
         Knows(pc[t], fr[t])'
  PROVE  Housed'
  BY DEF Housed, NoOrphanContainer, Knows

\* Children stay tracked, when neither records nor processes change.
LEMMA FamilyMoves ==
  ASSUME Family, NEW t, Threads = {t}, UNCHANGED <<up, proc, reaper, cacheCt, diskCt>>,
         Knows(pc[t], fr[t])', StartGoesOn(t)
  PROVE  Family'
<1>1. \A p \in Pids : Starting(p) => Starting(p)'
  BY DEF Starting, StartGoesOn
<1>2. Reaped'
  BY <1>1 DEF Family, Reaped
<1>3. ChildIsTracked'
  BY <1>1 DEF Family, ChildIsTracked, Starting
<1>4. \A c \in Containers : RealCode(c, cacheCt[c])' /\ RealCode(c, diskCt[c])'
  BY DEF Family, RealCode
<1>5. QED
  BY <1>2, <1>3, <1>4 DEF Family, Knows

\* Promises are kept, when neither they nor the disk change.
LEMMA KeptMoves ==
  ASSUME Kept, NEW t, Threads = {t}, UNCHANGED <<diskSb, diskCt, usedSb, usedCt, ackSb, ackCt>>,
         Knows(pc[t], fr[t])'
  PROVE  Kept'
  BY DEF Kept, Durable, Knows

\* A step that only moves the caller on.
LEMMA OrderedMoves ==
  ASSUME Ordered, NEW t, Threads = {t},
         UNCHANGED <<up, cacheSb, cacheCt, diskSb, diskCt, usedSb, usedCt, proc, reaper, ackSb, ackCt>>,
         pc[t] \notin HalfSb \cup HalfCt, Knows(pc[t], fr[t])', StartGoesOn(t)
  PROVE  Ordered'
  BY AgreeMoves, HousedMoves, FamilyMoves, KeptMoves DEF Ordered

\* Between calls the caller knows nothing.
LEMMA KnowsNothing ==
  ASSUME NEW t \in Threads, Return(t), pc \in [Threads -> Labels], fr \in [Threads -> Frames]
  PROVE  /\ Knows(pc[t], fr[t])' /\ pc'[t] = "idle" /\ fr'[t] = IdleFrame
         /\ fr[t].op # "StartContainer" /\ pc[t] \notin Pidless => StartGoesOn(t)
<1>1. pc'[t] = "idle" /\ fr'[t] = IdleFrame /\ IdleFrame.op = "none"
  BY DEF Return, Goto, IdleFrame
<1>2. SbHands(pc[t], fr[t])' /\ CtHands(pc[t], fr[t])'
  BY <1>1 DEF SbHands, CtHands, RemSbLabels, StopLabels, RemLabels
<1>3. Gathered(pc[t], fr[t])' /\ ChildHands(pc[t], fr[t])' /\ Withdrawn(pc[t], fr[t])'
  BY <1>1 DEF Gathered, ChildHands, Withdrawn, StartLabels, StopLabels, RemLabels
<1>4. QED
  BY <1>1, <1>2, <1>3 DEF Knows, StartGoesOn

\* What the calls that return now promise is true of the disk.
LEMMA KeptAckSb ==
  ASSUME Kept, StateTyped, Safe', NEW t, Threads = {t}, NEW s \in usedSb,
         NEW fact \in {"exists", "stopped", "gone"},
         AckSb(s, fact), UNCHANGED <<diskCt, usedSb, usedCt>>, Knows(pc[t], fr[t])',
         \A r \in Sandboxes : diskSb'[r] = diskSb[r] \/ r = s,
         fact = "exists" => diskSb'[s] # "absent" /\ ackSb[s] = {},
         fact = "stopped" => diskSb'[s] # "Ready" /\ (diskSb'[s] = "absent" <=> diskSb[s] = "absent"),
         fact = "gone" => diskSb'[s] = "absent" 
  PROVE  Kept'
<1>1. /\ ackSb' = [ackSb EXCEPT ![s] = Learn(ackSb[s], fact)] /\ UNCHANGED ackCt
      /\ \A r \in Sandboxes : ackSb'[r] = ackSb[r] \/ (r = s /\ ackSb'[r] = Learn(ackSb[s], fact))
  BY DEF AckSb, StateTyped
<1>2. \A r \in Sandboxes \ usedSb : ackSb'[r] = {}
  BY <1>1 DEF Kept
<1>3. ASSUME NEW r \in Sandboxes
      PROVE  /\ "exists"  \in ackSb'[r] => diskSb'[r] # "absent"
             /\ "stopped" \in ackSb'[r] => diskSb'[r] # "Ready"
             /\ "gone"    \in ackSb'[r] => diskSb'[r] = "absent"
  <2>1. CASE r # s
    BY <1>1, <2>1 DEF Kept, Durable
  <2>2. CASE r = s
    <3>1. /\ "exists"  \in ackSb[s] => diskSb[s] # "absent"
          /\ "stopped" \in ackSb[s] => diskSb[s] # "Ready"
          /\ "gone"    \in ackSb[s] => diskSb[s] = "absent"
      BY <2>2 DEF Kept, Durable
    <3>2. ackSb'[s] = Learn(ackSb[s], fact)
      BY <1>1, <2>2 DEF StateTyped
    <3>3. QED
      BY <2>2, <3>1, <3>2 DEF Learn
  <2>3. QED
    BY <2>1, <2>2
<1>4. Durable'
  BY <1>1, <1>3 DEF Kept, Durable
<1>5. QED
  BY <1>1, <1>2, <1>4 DEF Kept, Knows

\* A call on a container returns Ok: what it promises is on disk.
LEMMA KeptAckCt ==
  ASSUME Kept, StateTyped, NEW t, Threads = {t}, NEW c \in usedCt,
         NEW fact \in {"exists", "started", "stopped", "gone"},
         AckCt(c, fact), UNCHANGED <<diskSb, usedSb, usedCt>>, Knows(pc[t], fr[t])',
         \A d \in Containers : diskCt'[d] = diskCt[d] \/ d = c,
         fact = "exists" => diskCt'[c].state # "absent" /\ ackCt[c] = {},
         fact = "started" => diskCt'[c].state \notin {"absent", "Created"} /\ diskCt[c].state # "absent",
         fact = "stopped" => diskCt'[c] = diskCt[c],
         fact = "gone" => diskCt'[c].state = "absent"
  PROVE  Kept'
<1>1. /\ ackCt' = [ackCt EXCEPT ![c] = Learn(ackCt[c], fact)] /\ UNCHANGED ackSb
      /\ \A d \in Containers : ackCt'[d] = ackCt[d] \/ (d = c /\ ackCt'[d] = Learn(ackCt[c], fact))
  BY DEF AckCt, StateTyped
<1>2. \A d \in Containers \ usedCt : ackCt'[d] = {}
  BY <1>1 DEF Kept
<1>3. ASSUME NEW d \in Containers
      PROVE  /\ "exists"  \in ackCt'[d] => diskCt'[d].state # "absent"
             /\ "started" \in ackCt'[d] => diskCt'[d].state # "Created"
             /\ "gone"    \in ackCt'[d] => diskCt'[d].state = "absent"
  <2>1. CASE d # c
    BY <1>1, <2>1 DEF Kept, Durable
  <2>2. CASE d = c
    <3>1. /\ "exists"  \in ackCt[c] => diskCt[c].state # "absent"
          /\ "started" \in ackCt[c] => diskCt[c].state # "Created"
          /\ "gone"    \in ackCt[c] => diskCt[c].state = "absent"
      BY <2>2 DEF Kept, Durable
    <3>2. ackCt'[c] = Learn(ackCt[c], fact)
      BY <1>1, <2>2 DEF StateTyped
    <3>3. QED
      BY <2>2, <3>1, <3>2 DEF Learn
  <2>3. QED
    BY <2>1, <2>2
<1>4. Durable'
  BY <1>1, <1>3 DEF Kept, Durable
<1>5. QED
  BY <1>1, <1>2, <1>4 DEF Kept, Knows


-----------------------------------------------------------------------------
(* Calls in order: one case per step, while no file operation fails *)

\* run_sandbox, stop_sandbox, and remove_sandbox but for its containers.
LEMMA OrderedSandboxSteps ==
  ASSUME Typed, Typed', Safe, Safe', Ordered, NEW t, Threads = {t}, SandboxSteps(t),
         UNCHANGED ioErrors
  PROVE  Ordered'
<1> USE DEF At, cache, disk, used, acks, Goto, HalfSb, HalfCt, Pidless, RunLabels, StopSbLabels,
            RemSbLabels, CreateLabels, StartLabels, StopLabels, RemLabels
<1>0. /\ t \in Threads /\ pc \in [Threads -> Labels] /\ fr \in [Threads -> Frames] /\ fr[t] \in Frames
      /\ Fits(pc[t], fr[t]) /\ StateTyped
      /\ Agree /\ Housed /\ Family /\ Kept /\ Knows(pc[t], fr[t])
  BY DEF Typed, StepsFit, Ordered, Agree, Housed, Family, Kept, Knows
<1>a. ~IoFails
  BY <1>0 DEF IoFails, StateTyped
<1>b. None \notin Sandboxes /\ None \notin Containers /\ IdleFrame.op = "none"
  BY ConstantsOK DEF IdleFrame
<1>c. /\ UNCHANGED <<up, proc, reaper, cacheCt, diskCt, usedSb, usedCt>> /\ up
      /\ fr[t].op # "StartContainer" /\ StartGoesOn(t) /\ fr[t].sb \in Sandboxes
  <2>1. /\ UNCHANGED <<up, proc, reaper, cacheCt, diskCt, usedSb, usedCt>> /\ up
        /\ pc[t] \in {"run_write", "run_insert", "ss_mark", "ss_write",
                      "rs_scan", "rs_next", "rs_drop", "rs_unlink"}
    BY DEF SandboxSteps, RunWrite, RunInsert, StopSandboxMark, StopSandboxWrite,
       RemoveSandboxScan, RemoveSandboxNext, RemoveSandboxDrop, RemoveSandboxUnlink, IoErrorReturn
  <2>2. fr[t].op \in {"RunSandbox", "StopSandbox", "RemoveSandbox"} /\ fr[t].sb \in Sandboxes
    BY <1>0, <2>1 DEF Fits
  <2>3. QED
    BY <2>1, <2>2 DEF StartGoesOn
<1>d. fr[t].sb \in usedSb
  BY <1>b, <1>c DEF Safe, IdsMinted
<1>1. CASE RunWrite(t)
  <2>1. /\ pc[t] = "run_write" /\ pc'[t] = "run_insert" /\ UNCHANGED <<cacheSb, ackSb, ackCt, fr>>
        /\ diskSb' = [diskSb EXCEPT ![fr[t].sb] = "Ready"]
        /\ fr[t].op = "RunSandbox"
    BY <1>0, <1>1, <1>a DEF RunWrite, IoErrorReturn, Fits
  <2>2. diskSb'[fr[t].sb] = "Ready" /\ \A s \in Sandboxes : s # fr[t].sb => diskSb'[s] = diskSb[s]
    BY <1>0, <1>c, <2>1 DEF StateTyped
  <2>3. Knows(pc[t], fr[t])'
    BY <1>0, <1>c, <2>1, <2>2 DEF Knows, SbHands, CtHands, Gathered, ChildHands, Withdrawn
  <2>4. Agree'
    BY <1>0, <1>c, <2>1, <2>2, <2>3 DEF Agree, SbAgree, CtAgree, PidKnown, Knows
  <2>5. Housed'
    BY <1>0, <1>c, <2>1, <2>2, <2>3 DEF Housed, NoOrphanContainer, Knows
  <2>6. Kept'
    BY <1>0, <1>c, <2>1, <2>2, <2>3 DEF Kept, Durable, Knows, Withdrawn
  <2>7. QED
    BY <1>0, <1>c, <2>3, <2>4, <2>5, <2>6, FamilyMoves DEF Ordered
<1>2. CASE RunInsert(t)
  <2>1. /\ pc[t] = "run_insert" /\ Return(t) /\ AckSb(fr[t].sb, "exists") /\ UNCHANGED diskSb
        /\ cacheSb' = [cacheSb EXCEPT ![fr[t].sb] = "Ready"]
        /\ fr[t].op = "RunSandbox"
    BY <1>0, <1>2 DEF RunInsert, Fits
  <2>2. cacheSb'[fr[t].sb] = "Ready" /\ \A s \in Sandboxes : s # fr[t].sb => cacheSb'[s] = cacheSb[s]
    BY <1>0, <1>c, <2>1 DEF StateTyped
  <2>3. Knows(pc[t], fr[t])' /\ pc'[t] = "idle" /\ fr'[t].op = "none"
    BY <1>0, <1>b, <2>1, KnowsNothing
  <2>4. Agree'
    BY <1>0, <1>c, <2>1, <2>2, <2>3 DEF Agree, SbAgree, CtAgree, PidKnown, Knows, SbHands
  <2>5. Housed'
    BY <1>0, <1>c, <2>1, <2>2, <2>3 DEF Housed, NoOrphanContainer, Knows
  <2>6. Kept'
    BY <1>0, <1>c, <1>d, <2>1, <2>3, KeptAckSb DEF Knows, SbHands, Withdrawn
  <2>7. QED
    BY <1>0, <1>c, <2>3, <2>4, <2>5, <2>6, FamilyMoves DEF Ordered
<1>3. CASE StopSandboxMark(t) /\ cacheSb[fr[t].sb] = "Ready"
  <2>1. /\ pc[t] = "ss_mark" /\ pc'[t] = "ss_write" /\ UNCHANGED <<diskSb, ackSb, ackCt, fr>>
        /\ cacheSb' = [cacheSb EXCEPT ![fr[t].sb] = "NotReady"]
        /\ fr[t].op \in {"StopSandbox", "RemoveSandbox"}
    BY <1>0, <1>3 DEF StopSandboxMark, Fits
  <2>2. cacheSb'[fr[t].sb] = "NotReady" /\ \A s \in Sandboxes : s # fr[t].sb => cacheSb'[s] = cacheSb[s]
    BY <1>0, <1>c, <2>1 DEF StateTyped
  <2>3. diskSb[fr[t].sb] = "Ready"
    BY <1>0, <1>3, <1>c, <2>1 DEF Agree, SbAgree
  <2>4. Knows(pc[t], fr[t])'
    BY <1>0, <1>c, <2>1, <2>2, <2>3 DEF Knows, SbHands, CtHands, Gathered, ChildHands, Withdrawn
  <2>5. Agree'
    BY <1>0, <1>c, <2>1, <2>2, <2>4 DEF Agree, SbAgree, CtAgree, PidKnown, Knows
  <2>6. Housed'
    BY <1>0, <1>c, <2>1, <2>2, <2>4 DEF Housed, NoOrphanContainer, Knows
  <2>7. QED
    BY <1>0, <1>c, <2>1, <2>4, <2>5, <2>6, FamilyMoves, KeptMoves DEF Ordered
<1>4. CASE StopSandboxMark(t) /\ cacheSb[fr[t].sb] # "Ready"
  <2>1. pc[t] = "ss_mark" /\ SandboxStopped(t) /\ UNCHANGED <<cacheSb, diskSb>>
        /\ fr[t].op \in {"StopSandbox", "RemoveSandbox"}
    BY <1>0, <1>4 DEF StopSandboxMark, Fits
  <2>2. CASE fr[t].op = "RemoveSandbox"
    <3>1. pc'[t] = "rs_scan" /\ UNCHANGED <<fr, ackSb, ackCt>>
      BY <1>0, <2>1, <2>2 DEF SandboxStopped
    <3>2. Knows(pc[t], fr[t])'
      BY <1>0, <1>4, <1>c, <2>1, <3>1 DEF Knows, SbHands, CtHands, Gathered, ChildHands, Withdrawn
    <3>3. QED
      BY <1>0, <1>c, <2>1, <3>1, <3>2, OrderedMoves DEF Ordered
  <2>3. CASE fr[t].op = "StopSandbox"
    <3>1. Return(t) /\ AckSb(fr[t].sb, "stopped")
      BY <2>1, <2>3 DEF SandboxStopped
    <3>2. Knows(pc[t], fr[t])'
      BY <1>0, <3>1, KnowsNothing
    <3>3. diskSb[fr[t].sb] = cacheSb[fr[t].sb]
      BY <1>0, <1>c, <2>1 DEF Agree, SbAgree
    <3>4. Kept'
      BY <1>0, <1>4, <1>c, <1>d, <2>1, <3>1, <3>2, <3>3, KeptAckSb
    <3>5. QED
      BY <1>0, <1>c, <2>1, <3>2, <3>4, AgreeMoves, HousedMoves, FamilyMoves DEF Ordered
  <2>4. QED
    BY <2>1, <2>2, <2>3
<1>5. CASE StopSandboxWrite(t)
  <2>1. /\ pc[t] = "ss_write" /\ SandboxStopped(t) /\ UNCHANGED cacheSb
        /\ diskSb' = [diskSb EXCEPT ![fr[t].sb] = "NotReady"]
        /\ fr[t].op \in {"StopSandbox", "RemoveSandbox"}
    BY <1>0, <1>5, <1>a DEF StopSandboxWrite, IoErrorReturn, Fits
  <2>2. diskSb'[fr[t].sb] = "NotReady" /\ \A s \in Sandboxes : s # fr[t].sb => diskSb'[s] = diskSb[s]
    BY <1>0, <1>c, <2>1 DEF StateTyped
  <2>3. cacheSb[fr[t].sb] = "NotReady" /\ diskSb[fr[t].sb] = "Ready"
    BY <1>0, <2>1 DEF Knows, SbHands
  <2>4. CASE fr[t].op = "RemoveSandbox"
    <3>1. pc'[t] = "rs_scan" /\ UNCHANGED <<fr, ackSb, ackCt>>
      BY <1>0, <2>1, <2>4 DEF SandboxStopped
    <3>2. Knows(pc[t], fr[t])'
      BY <1>0, <1>c, <2>1, <2>3, <3>1 DEF Knows, SbHands, CtHands, Gathered, ChildHands, Withdrawn
    <3>3. Agree'
      BY <1>0, <1>c, <2>1, <2>2, <2>3, <3>1, <3>2 DEF Agree, SbAgree, CtAgree, PidKnown, Knows
    <3>4. Housed'
      BY <1>0, <1>c, <2>1, <2>2, <3>1, <3>2 DEF Housed, NoOrphanContainer, Knows
    <3>5. Kept'
      BY <1>0, <1>c, <2>1, <2>2, <2>3, <3>1, <3>2 DEF Kept, Durable, Knows
    <3>6. QED
      BY <1>0, <1>c, <3>2, <3>3, <3>4, <3>5, FamilyMoves DEF Ordered
  <2>5. CASE fr[t].op = "StopSandbox"
    <3>1. Return(t) /\ AckSb(fr[t].sb, "stopped")
      BY <2>1, <2>5 DEF SandboxStopped
    <3>2. Knows(pc[t], fr[t])' /\ pc'[t] = "idle" /\ fr'[t].op = "none"
      BY <1>0, <1>b, <3>1, KnowsNothing
    <3>3. Agree'
      BY <1>0, <1>c, <2>1, <2>2, <2>3, <3>1, <3>2 DEF Agree, SbAgree, CtAgree, PidKnown, Knows
    <3>4. Housed'
      BY <1>0, <1>c, <2>1, <2>2, <3>1, <3>2 DEF Housed, NoOrphanContainer, Knows
    <3>5. Kept'
      BY <1>0, <1>c, <1>d, <2>1, <2>2, <2>3, <3>1, <3>2, KeptAckSb
    <3>6. QED
      BY <1>0, <1>c, <3>2, <3>3, <3>4, <3>5, FamilyMoves DEF Ordered
  <2>6. QED
    BY <2>1, <2>4, <2>5
<1>6. CASE RemoveSandboxScan(t) /\ cacheSb[fr[t].sb] = "absent"
  <2>1. pc[t] = "rs_scan" /\ Return(t) /\ AckSb(fr[t].sb, "gone") /\ UNCHANGED <<cacheSb, diskSb>>
    BY <1>6 DEF RemoveSandboxScan
  <2>2. Knows(pc[t], fr[t])'
    BY <1>0, <2>1, KnowsNothing
  <2>3. diskSb[fr[t].sb] = "absent"
    BY <1>0, <1>6, <1>c, <2>1 DEF Agree, SbAgree
  <2>4. Kept'
    BY <1>0, <1>c, <1>d, <2>1, <2>2, <2>3, KeptAckSb
  <2>5. QED
    BY <1>0, <1>c, <2>1, <2>2, <2>4, AgreeMoves, HousedMoves, FamilyMoves DEF Ordered
<1>7. CASE RemoveSandboxScan(t) /\ cacheSb[fr[t].sb] # "absent"
  <2>1. /\ pc[t] = "rs_scan" /\ pc'[t] = "rs_next" /\ UNCHANGED <<cacheSb, diskSb, ackSb, ackCt>>
        /\ fr' = [fr EXCEPT ![t].todo = ContainersOf(fr[t].sb)] /\ fr[t].op = "RemoveSandbox"
    BY <1>0, <1>7 DEF RemoveSandboxScan, Fits
  <2>2. fr'[t].todo = ContainersOf(fr[t].sb) /\ fr'[t].op = fr[t].op /\ fr'[t].sb = fr[t].sb
    BY <1>0, <2>1 DEF Frames
  <2>3. cacheSb[fr[t].sb] = "NotReady"
    BY <1>0, <1>7, <1>c, <2>1 DEF Knows, SbHands, StateTyped, SbStates
  <2>4. Knows(pc[t], fr[t])'
    BY <1>0, <1>c, <2>1, <2>2, <2>3 DEF Knows, SbHands, CtHands, Gathered, ChildHands, Withdrawn, ContainersOf
  <2>5. QED
    BY <1>0, <1>c, <2>1, <2>4, OrderedMoves DEF Ordered
<1>8. CASE RemoveSandboxNext(t)
  <2>1. /\ pc[t] = "rs_next" /\ UNCHANGED <<cacheSb, diskSb, ackSb, ackCt>> /\ fr[t].op = "RemoveSandbox"
    BY <1>0, <1>8 DEF RemoveSandboxNext, Fits
  <2>2. CASE pc'[t] = "rs_drop" /\ fr' = fr /\ fr[t].todo = {}
    <3>1. Knows(pc[t], fr[t])'
      BY <1>0, <1>c, <2>1, <2>2 DEF Knows, SbHands, CtHands, Gathered, ChildHands, Withdrawn, ContainersOf
    <3>2. QED
      BY <1>0, <1>c, <2>1, <3>1, OrderedMoves
  <2>3. CASE /\ pc'[t] = "sc_check" /\ fr'[t].from = "cascade" /\ fr'[t].ct \in fr[t].todo
             /\ fr'[t].todo = fr[t].todo \ {fr'[t].ct}
             /\ fr'[t].op = fr[t].op /\ fr'[t].sb = fr[t].sb
    <3>1. fr'[t].ct \in Containers
      BY <1>0, <2>3 DEF Frames
    <3>2. Knows(pc[t], fr[t])'
      BY <1>0, <1>c, <2>1, <2>3, <3>1 DEF Knows, SbHands, CtHands, Gathered, ChildHands, Withdrawn, ContainersOf
    <3>3. QED
      BY <1>0, <1>c, <2>1, <3>2, OrderedMoves
  <2>4. QED
    BY <1>0, <1>8, <2>2, <2>3, NextFrame
<1>9. CASE RemoveSandboxDrop(t)
  <2>1. /\ pc[t] = "rs_drop" /\ pc'[t] = "rs_unlink" /\ UNCHANGED <<fr, diskSb, ackSb, ackCt>>
        /\ cacheSb' = [cacheSb EXCEPT ![fr[t].sb] = "absent"] /\ fr[t].op = "RemoveSandbox"
        /\ cacheSb[fr[t].sb] = "NotReady" /\ diskSb[fr[t].sb] = "NotReady"
        /\ ContainersOf(fr[t].sb) = {}
    BY <1>0, <1>9, <1>c DEF RemoveSandboxDrop, Fits, Knows, SbHands, Gathered, Agree, SbAgree
  <2>2. cacheSb'[fr[t].sb] = "absent" /\ \A s \in Sandboxes : s # fr[t].sb => cacheSb'[s] = cacheSb[s]
    BY <1>0, <1>c, <2>1 DEF StateTyped
  <2>3. Knows(pc[t], fr[t])'
    BY <1>0, <1>c, <2>1, <2>2 DEF Knows, SbHands, CtHands, Gathered, ChildHands, Withdrawn, ContainersOf
  <2>4. Agree'
    BY <1>0, <1>c, <2>1, <2>2, <2>3 DEF Agree, SbAgree, CtAgree, PidKnown, Knows
  <2>5. Housed'
    BY <1>0, <1>c, <2>1, <2>2, <2>3 DEF Housed, NoOrphanContainer, Knows, ContainersOf
  <2>6. QED
    BY <1>0, <1>c, <2>1, <2>3, <2>4, <2>5, FamilyMoves, KeptMoves DEF Ordered
<1>10. CASE RemoveSandboxUnlink(t)
  <2>1. /\ pc[t] = "rs_unlink" /\ Return(t) /\ AckSb(fr[t].sb, "gone") /\ UNCHANGED cacheSb
        /\ diskSb' = [diskSb EXCEPT ![fr[t].sb] = "absent"] /\ cacheSb[fr[t].sb] = "absent"
        /\ ContainersOf(fr[t].sb) = {}
    BY <1>0, <1>10, <1>a DEF RemoveSandboxUnlink, Knows, Gathered, Safe, HandsRight, Unlinks
  <2>2. diskSb'[fr[t].sb] = "absent" /\ \A s \in Sandboxes : s # fr[t].sb => diskSb'[s] = diskSb[s]
    BY <1>0, <1>c, <2>1 DEF StateTyped
  <2>3. Knows(pc[t], fr[t])' /\ pc'[t] = "idle" /\ fr'[t].op = "none"
    BY <1>0, <1>b, <2>1, KnowsNothing
  <2>4. Agree'
    BY <1>0, <1>c, <2>1, <2>2, <2>3 DEF Agree, SbAgree, CtAgree, PidKnown, Knows
  <2>5. \A c \in Containers : diskCt[c].state # "absent" => diskCt[c].sandbox # fr[t].sb
    BY <1>0, <1>c, <2>1 DEF Agree, CtAgree, ContainersOf
  <2>6. Housed'
    BY <1>0, <1>c, <2>1, <2>2, <2>3, <2>5 DEF Housed, NoOrphanContainer, Knows
  <2>7. Kept'
    BY <1>0, <1>c, <1>d, <2>1, <2>2, <2>3, KeptAckSb
  <2>8. QED
    BY <1>0, <1>c, <2>3, <2>4, <2>6, <2>7, FamilyMoves DEF Ordered
<1>11. QED
  BY <1>1, <1>2, <1>3, <1>4, <1>5, <1>6, <1>7, <1>8, <1>9, <1>10 DEF SandboxSteps

\* What becomes of the fields of a record.
LEMMA RecordFields ==
  ASSUME NEW rec \in CtRecords
  PROVE  /\ Intent(rec) \in CtRecords /\ Intent(rec).state = "Running"
         /\ Intent(rec).pid = 0 /\ Intent(rec).sandbox = rec.sandbox /\ Intent(rec).code = rec.code
         /\ \A k \in Codes :
              /\ Exited(rec, k) \in CtRecords /\ Exited(rec, k).state = "Exited"
              /\ Exited(rec, k).sandbox = rec.sandbox /\ Exited(rec, k).code = k
              /\ Exited(rec, k).pid = rec.pid
         /\ \A p \in Pids :
              /\ WithPid(rec, p) \in CtRecords /\ WithPid(rec, p).state = rec.state
              /\ WithPid(rec, p).sandbox = rec.sandbox /\ WithPid(rec, p).code = rec.code
              /\ WithPid(rec, p).pid = p
<1>1. /\ Intent(rec).state = "Running" /\ Intent(rec).pid = 0 /\ Intent(rec).sandbox = rec.sandbox /\ Intent(rec).code = rec.code
  BY DEF CtRecords, Intent
<1>2. ASSUME NEW k \in Codes
      PROVE  /\ Exited(rec, k).state = "Exited" /\ Exited(rec, k).pid = rec.pid
             /\ Exited(rec, k).sandbox = rec.sandbox /\ Exited(rec, k).code = k
  BY DEF CtRecords, Exited
<1>3. ASSUME NEW p \in Pids
      PROVE  /\ WithPid(rec, p).state = rec.state /\ WithPid(rec, p).pid = p
             /\ WithPid(rec, p).sandbox = rec.sandbox /\ WithPid(rec, p).code = rec.code
  BY DEF CtRecords, WithPid
<1>4. /\ Intent(rec) \in CtRecords
      /\ \A k \in Codes : Exited(rec, k) \in CtRecords
      /\ \A p \in Pids : WithPid(rec, p) \in CtRecords
  BY RecordTypes DEF WithPid
<1>5. QED
  BY <1>1, <1>2, <1>3, <1>4

\* The fields of a record that gets its pid.
LEMMA PidFields ==
  ASSUME NEW rec \in CtRecords, NEW p \in Pids
  PROVE  /\ WithPid(rec, p) \in CtRecords /\ WithPid(rec, p).state = rec.state
         /\ WithPid(rec, p).sandbox = rec.sandbox /\ WithPid(rec, p).code = rec.code
         /\ WithPid(rec, p).pid = p
  BY RecordFields

\* A record on disk that is written again, with the sandbox it has, leaves every container
\* its sandbox.
LEMMA HousedRewrite ==
  ASSUME Housed, NEW t, Threads = {t}, UNCHANGED <<up, cacheSb, diskSb, cacheCt>>,
         NEW k \in Containers, diskCt[k].state # "absent",
         diskCt'[k].sandbox = diskCt[k].sandbox,
         \A c \in Containers : c # k => diskCt'[c] = diskCt[c],
         Gathered(pc[t], fr[t])'
  PROVE  Housed'
<1>1. \A c \in Containers : diskCt'[c].state # "absent" =>
         diskCt[c].state # "absent" /\ diskCt'[c].sandbox = diskCt[c].sandbox
  OBVIOUS
<1>2. \A c \in Containers : diskCt'[c].state # "absent" => diskCt'[c].sandbox \in Sandboxes
  BY <1>1 DEF Housed
<1>3. \A c \in Containers : cacheCt'[c].state # "absent" => cacheCt'[c].sandbox \in Sandboxes
  BY DEF Housed
<1>4. NoOrphanContainer'
  BY <1>1 DEF Housed, NoOrphanContainer
<1>5. \A u \in Threads : Gathered(pc[u], fr[u])'
  OBVIOUS
<1>6. QED
  BY <1>2, <1>3, <1>4, <1>5 DEF Housed

\* A file operation that writes a record with a true exit code, or none.
LEMMA FamilyWrites ==
  ASSUME Family, NEW t, Threads = {t}, UNCHANGED <<up, proc, reaper, cacheCt>>,
         Knows(pc[t], fr[t])', StartGoesOn(t),
         \A c \in Containers : diskCt'[c] = diskCt[c] \/ RealCode(c, diskCt'[c])
  PROVE  Family'
<1>1. \A p \in Pids : Starting(p) => Starting(p)'
  BY DEF Starting, StartGoesOn
<1>2. Reaped'
  BY <1>1 DEF Family, Reaped
<1>3. ChildIsTracked'
  BY <1>1 DEF Family, ChildIsTracked, Starting
<1>4. \A c \in Containers : RealCode(c, cacheCt[c])' /\ RealCode(c, diskCt[c])'
  BY DEF Family, RealCode
<1>5. QED
  BY <1>2, <1>3, <1>4 DEF Family, Knows

\* create_container: its record is on disk before it is in the cache.
LEMMA OrderedCreateSteps ==
  ASSUME Typed, Typed', Safe, Once, Ordered, NEW t, Threads = {t},
         CreateCheck(t) \/ CreateWrite(t) \/ CreateInsert(t), UNCHANGED ioErrors
  PROVE  Ordered'
<1> USE DEF At, cache, disk, used, acks, Goto, HalfSb, HalfCt, Pidless, RunLabels, StopSbLabels,
            RemSbLabels, CreateLabels, StartLabels, StopLabels, RemLabels
<1>0. /\ t \in Threads /\ pc \in [Threads -> Labels] /\ fr \in [Threads -> Frames] /\ fr[t] \in Frames
      /\ Fits(pc[t], fr[t]) /\ StateTyped
      /\ Agree /\ Housed /\ Family /\ Kept /\ Knows(pc[t], fr[t])
  BY DEF Typed, StepsFit, Ordered, Agree, Housed, Family, Kept, Knows
<1>a. ~IoFails
  BY <1>0 DEF IoFails, StateTyped
<1>b. None \notin Sandboxes /\ None \notin Containers /\ IdleFrame.op = "none"
  BY ConstantsOK DEF IdleFrame
<1>c. /\ UNCHANGED <<up, proc, reaper, cacheSb, diskSb, usedSb, usedCt>> /\ up
      /\ fr[t].op = "CreateContainer" /\ StartGoesOn(t)
      /\ fr[t].sb \in Sandboxes /\ fr[t].ct \in Containers
  <2>1. /\ UNCHANGED <<up, proc, reaper, cacheSb, diskSb, usedSb, usedCt>> /\ up
        /\ pc[t] \in {"cc_check", "cc_write", "cc_insert"}
    BY DEF CreateCheck, CreateWrite, CreateInsert, IoErrorReturn
  <2>2. fr[t].op = "CreateContainer" /\ fr[t].sb \in Sandboxes /\ fr[t].ct \in Containers
    BY <1>0, <2>1 DEF Fits
  <2>3. QED
    BY <2>1, <2>2 DEF StartGoesOn
<1>d. fr[t].ct \in usedCt /\ cacheCt[fr[t].ct].state = "absent"
  BY <1>0, <1>b, <1>c DEF Safe, IdsMinted, MintsAlone
<1>f. \A p \in Pids : proc[p].st # "free" => proc[p].ct \in Containers
  BY <1>0 DEF Once, Begun, StateTyped
<1> DEFINE new == NewRecord(fr[t].sb)
<1>e. new \in CtRecords /\ new.state = "Created" /\ new.sandbox = fr[t].sb
  BY <1>c, RecordTypes DEF NewRecord
<1> HIDE DEF new
<1>1. CASE CreateCheck(t) /\ AcceptsContainers(fr[t].sb)
  <2>1. /\ pc[t] = "cc_check" /\ pc'[t] = "cc_write" /\ cacheSb[fr[t].sb] = "Ready"
        /\ UNCHANGED <<fr, cacheCt, diskCt, ackSb, ackCt>>
    BY <1>0, <1>1 DEF CreateCheck, AcceptsContainers
  <2>2. Knows(pc[t], fr[t])'
    BY <1>0, <1>c, <2>1 DEF Knows, SbHands, CtHands, Gathered, ChildHands, Withdrawn
  <2>3. QED
    BY <1>0, <1>c, <2>1, <2>2, OrderedMoves
<1>2. CASE CreateCheck(t) /\ ~AcceptsContainers(fr[t].sb)
  <2>1. /\ pc[t] = "cc_check" /\ Return(t) /\ UNCHANGED <<cacheCt, diskCt, ackSb, ackCt>>
    BY <1>0, <1>2 DEF CreateCheck
  <2>2. Knows(pc[t], fr[t])'
    BY <1>0, <2>1, KnowsNothing
  <2>3. QED
    BY <1>0, <1>c, <2>1, <2>2, OrderedMoves
<1>3. CASE CreateWrite(t)
  <2>1. /\ pc[t] = "cc_write" /\ pc'[t] = "cc_insert" /\ UNCHANGED <<fr, cacheCt, ackSb, ackCt>>
        /\ diskCt' = [diskCt EXCEPT ![fr[t].ct] = new] /\ cacheSb[fr[t].sb] = "Ready"
    BY <1>0, <1>3, <1>a DEF CreateWrite, IoErrorReturn, Knows, SbHands, new
  <2>2. diskCt'[fr[t].ct] = new /\ \A c \in Containers : c # fr[t].ct => diskCt'[c] = diskCt[c]
    BY <1>0, <1>c, <2>1 DEF StateTyped
  <2>3. Knows(pc[t], fr[t])'
    BY <1>0, <1>c, <2>1, <2>2 DEF Knows, SbHands, CtHands, Gathered, ChildHands, Withdrawn, new
  <2>4. Agree'
    BY <1>0, <1>c, <2>1, <2>2, <2>3 DEF Agree, SbAgree, CtAgree, PidKnown, Knows
  <2>5. diskSb[fr[t].sb] = "Ready"
    BY <1>0, <1>c, <2>1 DEF Agree, SbAgree
  <2>6. Housed'
    BY <1>0, <1>c, <1>e, <2>1, <2>2, <2>3, <2>5 DEF Housed, NoOrphanContainer, Knows
  <2>7. Kept'
    BY <1>0, <1>c, <1>e, <2>1, <2>2, <2>3 DEF Kept, Durable, Knows, Withdrawn
  <2>8. Family'
    BY <1>0, <1>c, <1>e, <2>1, <2>2, <2>3, FamilyWrites DEF RealCode
  <2>9. QED
    BY <2>4, <2>6, <2>7, <2>8 DEF Ordered
<1>4. CASE CreateInsert(t)
  <2>1. /\ pc[t] = "cc_insert" /\ Return(t) /\ AckCt(fr[t].ct, "exists") /\ UNCHANGED diskCt
        /\ cacheCt' = [cacheCt EXCEPT ![fr[t].ct] = new] /\ cacheSb[fr[t].sb] = "Ready"
        /\ diskCt[fr[t].ct] = new /\ ackCt[fr[t].ct] = {}
    BY <1>0, <1>4, <1>c DEF CreateInsert, Knows, SbHands, CtHands, Withdrawn, new
  <2>2. cacheCt'[fr[t].ct] = new /\ \A c \in Containers : c # fr[t].ct => cacheCt'[c] = cacheCt[c]
    BY <1>0, <1>c, <2>1 DEF StateTyped
  <2>3. Knows(pc[t], fr[t])' /\ pc'[t] = "idle" /\ fr'[t].op = "none"
    BY <1>0, <1>b, <2>1, KnowsNothing
  <2>4. Agree'
    BY <1>0, <1>c, <1>e, <2>1, <2>2, <2>3 DEF Agree, SbAgree, CtAgree, PidKnown, Knows
  <2>5. Housed'
    BY <1>0, <1>c, <1>e, <2>1, <2>2, <2>3 DEF Housed, NoOrphanContainer, Knows
  <2>6. Kept'
    BY <1>0, <1>c, <1>d, <1>e, <2>1, <2>2, <2>3, KeptAckCt
  <2>7. Family'
    <3>1. \A p \in Pids : ~Starting(p)
      BY <1>c DEF Starting
    <3>2. ChildIsTracked'
      BY <1>0, <1>c, <1>d, <1>f, <2>2, <3>1 DEF Family, ChildIsTracked, Starting
    <3>3. Reaped'
      BY <1>0, <1>c, <1>e, <1>f, <2>2, <3>1 DEF Family, Reaped, Starting
    <3>4. \A c \in Containers : RealCode(c, cacheCt[c])' /\ RealCode(c, diskCt[c])'
      BY <1>0, <1>c, <1>e, <2>1, <2>2 DEF Family, RealCode
    <3>5. QED
      BY <1>0, <2>3, <3>2, <3>3, <3>4 DEF Family, Knows
  <2>8. QED
    BY <2>4, <2>5, <2>6, <2>7 DEF Ordered
<1>5. QED
  BY <1>1, <1>2, <1>3, <1>4


\* start_container up to the spawn, and when it fails.
LEMMA OrderedStartSteps ==
  ASSUME Typed, Typed', Safe, Once, Ordered, NEW t, Threads = {t}, UNCHANGED ioErrors,
         \/ StartCheck(t) \/ StartIntent(t) \/ StartIntentWrite(t) \/ StartSpawn(t)
         \/ StartFailed(t) \/ StartFailedWrite(t) \/ StartIo(t)
  PROVE  Ordered'
<1> USE DEF At, cache, disk, used, acks, Goto, HalfSb, HalfCt, Pidless, RunLabels, StopSbLabels,
            RemSbLabels, CreateLabels, StartLabels, StopLabels, RemLabels
<1>0. /\ t \in Threads /\ pc \in [Threads -> Labels] /\ fr \in [Threads -> Frames] /\ fr[t] \in Frames
      /\ Fits(pc[t], fr[t]) /\ StateTyped /\ BeforeSpawn(pc[t], fr[t])
      /\ Agree /\ Housed /\ Family /\ Kept /\ Knows(pc[t], fr[t])
  BY DEF Typed, StepsFit, Ordered, Agree, Housed, Family, Kept, Knows, Once
<1>a. ~IoFails
  BY <1>0 DEF IoFails, StateTyped
<1>b. None \notin Containers /\ 0 \notin Pids /\ IdleFrame.op = "none"
  BY ConstantsOK DEF IdleFrame
<1>c. /\ UNCHANGED <<up, reaper, cacheSb, diskSb, usedSb, usedCt, ackSb, ackCt>> /\ up
      /\ fr[t].op = "StartContainer" /\ fr[t].ct \in Containers /\ fr[t].ct \in usedCt
      /\ cacheCt[fr[t].ct] \in CtRecords /\ diskCt[fr[t].ct] \in CtRecords
      /\ pc[t] \in StartLabels
  <2>1. /\ UNCHANGED <<up, reaper, cacheSb, diskSb, usedSb, usedCt, ackSb, ackCt>> /\ up
        /\ pc[t] \in {"st_check", "st_intent", "st_intent_write", "st_spawn", "st_failed",
                      "st_failed_write", "st_io"}
    BY DEF StartCheck, StartIntent, StartIntentWrite, StartSpawn, StartFailed, StartFailedWrite,
           StartIo, IoErrorReturn
  <2>2. fr[t].op = "StartContainer" /\ fr[t].ct \in Containers
    BY <1>0, <2>1 DEF Fits
  <2>3. QED
    BY <1>0, <1>b, <2>1, <2>2 DEF Safe, IdsMinted, StateTyped
<1>d. \A p \in Pids : proc[p].st # "free" => proc[p].ct \in Containers
  BY <1>0 DEF Once, Begun, StateTyped
<1>e. pc[t] # "st_io" => \A p \in Pids : ~Starting(p)
  <2>1. pc[t] \notin {"st_pid", "st_pid_write"}
    BY DEF StartCheck, StartIntent, StartIntentWrite, StartSpawn, StartFailed, StartFailedWrite, StartIo
  <2>2. pc[t] # "st_io" => fr[t].pid = 0
    BY <1>0, <1>c, <2>1 DEF Knows, ChildHands
  <2>3. QED
    BY <1>b, <2>2 DEF Starting
<1>f. pc[t] \notin HalfCt =>
        (cacheCt[fr[t].ct].state # "absent" => cacheCt[fr[t].ct] = diskCt[fr[t].ct])
  BY <1>0, <1>c DEF Agree, CtAgree
<1>g. LostExit \in Codes
  BY DEF LostExit, Codes
<1>1. CASE StartCheck(t) /\ MayStart(cacheCt[fr[t].ct])
  <2>1. /\ pc[t] = "st_check" /\ pc'[t] = "st_intent" /\ cacheCt[fr[t].ct].state = "Created"
        /\ UNCHANGED <<fr, proc, cacheCt, diskCt>> /\ fr[t].pid = 0
    BY <1>0, <1>1, <1>a DEF StartCheck, MayStart, Knows, ChildHands
  <2>2. Knows(pc[t], fr[t])' /\ StartGoesOn(t)
    BY <1>0, <1>c, <2>1 DEF Knows, SbHands, CtHands, Gathered, ChildHands, Withdrawn, StartGoesOn
  <2>3. QED
    BY <1>0, <1>c, <2>1, <2>2, OrderedMoves
<1>2. CASE StartCheck(t) /\ ~MayStart(cacheCt[fr[t].ct])
  <2>1. /\ pc[t] = "st_check" /\ Return(t) /\ UNCHANGED <<proc, cacheCt, diskCt>> /\ fr[t].pid = 0
    BY <1>0, <1>2, <1>a DEF StartCheck, Knows, ChildHands
  <2>2. Knows(pc[t], fr[t])' /\ StartGoesOn(t)
    BY <1>0, <1>b, <2>1, KnowsNothing DEF StartGoesOn
  <2>3. QED
    BY <1>0, <1>c, <2>1, <2>2, OrderedMoves
<1>3. CASE StartIntent(t)
  <2> DEFINE new == Intent(cacheCt[fr[t].ct])
  <2>1. /\ pc[t] = "st_intent" /\ pc'[t] = "st_intent_write" /\ UNCHANGED <<proc, diskCt>>
        /\ cacheCt[fr[t].ct].state = "Created" /\ fr[t].pid = 0
        /\ cacheCt' = [cacheCt EXCEPT ![fr[t].ct] = new] /\ fr' = [fr EXCEPT ![t].rec = new]
        /\ NoProcessOf(fr[t].ct)
    BY <1>0, <1>3 DEF StartIntent, Knows, CtHands, ChildHands, BeforeSpawn
  <2>2. new \in CtRecords /\ new.state = "Running" /\ new.pid = 0
        /\ new.sandbox = cacheCt[fr[t].ct].sandbox
    BY <1>c, RecordFields
  <2>3. diskCt[fr[t].ct] = cacheCt[fr[t].ct] /\ new = Intent(diskCt[fr[t].ct])
    BY <1>f, <2>1
  <2> HIDE DEF new
  <2>4. cacheCt'[fr[t].ct] = new /\ \A c \in Containers : c # fr[t].ct => cacheCt'[c] = cacheCt[c]
    BY <1>0, <1>c, <2>1 DEF StateTyped
  <2>5. /\ fr'[t].rec = new /\ fr'[t].op = fr[t].op /\ fr'[t].ct = fr[t].ct /\ fr'[t].pid = 0
        /\ fr'[t].sb = fr[t].sb
    BY <1>0, <2>1 DEF Frames
  <2>6. NoReaperOf(fr[t].ct)
    BY <1>0, <2>1 DEF NoReaperOf, NoProcessOf, Family, Reaped
  <2>7. Knows(pc[t], fr[t])'
    <3>1. SbHands(pc[t], fr[t])' /\ Gathered(pc[t], fr[t])' /\ Withdrawn(pc[t], fr[t])'
      BY <1>0, <1>c, <2>1, <2>5 DEF SbHands, Gathered, Withdrawn
    <3>2. CtHands(pc[t], fr[t])'
      BY <1>0, <1>c, <2>1, <2>3, <2>4, <2>5 DEF CtHands
    <3>3. ChildHands(pc[t], fr[t])'
      BY <1>0, <1>c, <2>1, <2>5, <2>6 DEF ChildHands, NoReaperOf
    <3>4. QED
      BY <3>1, <3>2, <3>3 DEF Knows
  <2>8. Agree'
    BY <1>0, <1>c, <2>1, <2>4, <2>5, <2>7 DEF Agree, SbAgree, CtAgree, PidKnown, Knows
  <2>9. Housed'
    BY <1>0, <1>c, <2>1, <2>2, <2>4, <2>7 DEF Housed, NoOrphanContainer, Knows
  <2>10. Kept'
    BY <1>0, <1>c, <2>1, <2>7, KeptMoves
  <2>11. ChildIsTracked' /\ Reaped'
    BY <1>0, <1>c, <1>d, <1>e, <2>1, <2>4 DEF Family, ChildIsTracked, Reaped, Starting, NoProcessOf
  <2>12. \A c \in Containers : RealCode(c, cacheCt[c])' /\ RealCode(c, diskCt[c])'
    BY <1>0, <1>c, <2>1, <2>2, <2>4 DEF Family, RealCode
  <2>13. QED
    BY <1>0, <2>7, <2>8, <2>9, <2>10, <2>11, <2>12 DEF Ordered, Family, Knows
<1>4. CASE StartIntentWrite(t)
  <2>1. /\ pc[t] = "st_intent_write" /\ pc'[t] = "st_spawn" /\ UNCHANGED <<fr, proc, cacheCt>>
        /\ diskCt' = [diskCt EXCEPT ![fr[t].ct] = fr[t].rec] /\ diskCt[fr[t].ct].state = "Created"
        /\ fr[t].rec = Intent(diskCt[fr[t].ct]) /\ cacheCt[fr[t].ct] = fr[t].rec
        /\ fr[t].pid = 0 /\ NoReaperOf(fr[t].ct)
    BY <1>0, <1>4, <1>a DEF StartIntentWrite, IoErrorReturn, Knows, CtHands, ChildHands
  <2>2. /\ fr[t].rec.state = "Running" /\ fr[t].rec.pid = 0
        /\ fr[t].rec.sandbox = diskCt[fr[t].ct].sandbox
    BY <1>c, <2>1, RecordFields
  <2>3. diskCt'[fr[t].ct] = fr[t].rec /\ \A c \in Containers : c # fr[t].ct => diskCt'[c] = diskCt[c]
    BY <1>0, <1>c, <2>1 DEF StateTyped
  <2>4. Knows(pc[t], fr[t])' /\ StartGoesOn(t)
    BY <1>0, <1>c, <2>1, <2>2 DEF Knows, SbHands, CtHands, Gathered, ChildHands, NoReaperOf, Withdrawn,
       StartGoesOn
  <2>5. Agree'
    BY <1>0, <1>c, <2>1, <2>3, <2>4 DEF Agree, SbAgree, CtAgree, PidKnown, Knows
  <2>6. Housed'
    <3>1. diskCt[fr[t].ct].state # "absent" /\ diskCt'[fr[t].ct].sandbox = diskCt[fr[t].ct].sandbox
      BY <2>1, <2>2, <2>3
    <3>2. UNCHANGED <<up, cacheSb, diskSb, cacheCt>> /\ fr[t].ct \in Containers
      BY <1>c, <2>1
    <3>3. Gathered(pc[t], fr[t])'
      BY <2>4 DEF Knows
    <3>4. QED
      BY <1>0, <2>3, <3>1, <3>2, <3>3, HousedRewrite
  <2>7. Kept'
    BY <1>0, <1>c, <2>1, <2>2, <2>3, <2>4 DEF Kept, Durable, Knows
  <2>8. Family'
    BY <1>0, <1>c, <2>1, <2>2, <2>3, <2>4, FamilyWrites DEF RealCode
  <2>9. QED
    BY <2>5, <2>6, <2>7, <2>8 DEF Ordered
<1>5. CASE StartSpawn(t)
  <2>1. /\ pc[t] = "st_spawn" /\ UNCHANGED <<cacheCt, diskCt>> /\ fr[t].pid = 0 /\ NoReaperOf(fr[t].ct)
        /\ cacheCt[fr[t].ct].state = "Running" /\ cacheCt[fr[t].ct].pid = 0
    BY <1>0, <1>5 DEF StartSpawn, Knows, CtHands, ChildHands
  <2>2. CASE UNCHANGED <<proc, fr>> /\ pc'[t] = "st_failed"
    <3>1. Knows(pc[t], fr[t])' /\ StartGoesOn(t)
      BY <1>0, <1>c, <2>1, <2>2 DEF Knows, SbHands, CtHands, Gathered, ChildHands, NoReaperOf,
         Withdrawn, StartGoesOn
    <3>2. QED
      BY <1>0, <1>c, <2>1, <2>2, <3>1, OrderedMoves
  <2>3. ASSUME NEW p \in Pids, proc[p].st = "free", proc' = [proc EXCEPT ![p] = Spawned(fr[t].ct)],
               fr' = [fr EXCEPT ![t].pid = p], pc'[t] = "st_io"
        PROVE  Ordered'
    <3>1. /\ fr'[t].op = "StartContainer" /\ fr'[t].ct = fr[t].ct /\ fr'[t].pid = p
          /\ fr'[t].sb = fr[t].sb
      BY <1>0, <1>c, <2>3 DEF Frames
    <3>2. /\ proc'[p].ct = fr[t].ct /\ proc'[p].st = "live" /\ proc'[p].child
          /\ \A q \in Pids : q # p => proc'[q] = proc[q]
      BY <1>0, <2>3 DEF StateTyped, Spawned
    <3>3. reaper[p] = "none"
      BY <1>0, <2>3 DEF Family, Reaped
    <3>4. SbHands(pc[t], fr[t])' /\ Gathered(pc[t], fr[t])' /\ Withdrawn(pc[t], fr[t])'
      BY <1>0, <1>c, <2>3, <3>1 DEF SbHands, Gathered, Withdrawn
    <3>5. CtHands(pc[t], fr[t])'
      BY <1>0, <1>c, <2>1, <2>3, <3>1 DEF CtHands
    <3>6. ChildHands(pc[t], fr[t])'
      BY <1>0, <1>c, <2>1, <2>3, <3>1, <3>2, <3>3 DEF ChildHands, NoReaperOf
    <3>7. Agree' /\ Housed' /\ Kept'
      <4>1. Knows(pc[t], fr[t])' /\ StartGoesOn(t)
        BY <1>b, <2>1, <2>3, <3>1, <3>4, <3>5, <3>6 DEF Knows, StartGoesOn
      <4>2. QED
        BY <1>0, <1>c, <2>1, <4>1, AgreeMoves, HousedMoves, KeptMoves
    <3>8. ChildIsTracked'
      BY <1>0, <1>c, <1>e, <2>1, <3>1, <3>2 DEF Family, ChildIsTracked, Starting
    <3>9. Reaped'
      BY <1>0, <1>c, <1>e, <2>1, <2>3, <3>1, <3>2, <3>3 DEF Family, Reaped, Starting
    <3>10. \A c \in Containers : RealCode(c, cacheCt[c])' /\ RealCode(c, diskCt[c])'
      BY <1>0, <2>1, <2>3, <3>2 DEF Family, RealCode
    <3>11. QED
      BY <1>0, <3>6, <3>7, <3>8, <3>9, <3>10 DEF Ordered, Family
  <2>4. QED
    BY <1>0, <1>5, <2>2, <2>3 DEF StartSpawn
<1>6. CASE StartFailed(t)
  <2> DEFINE new == Exited(cacheCt[fr[t].ct], LostExit)
  <2>1. /\ pc[t] = "st_failed" /\ pc'[t] = "st_failed_write" /\ UNCHANGED <<proc, diskCt>>
        /\ cacheCt[fr[t].ct].state = "Running" /\ cacheCt[fr[t].ct].pid = 0 /\ fr[t].pid = 0
        /\ cacheCt' = [cacheCt EXCEPT ![fr[t].ct] = new] /\ fr' = [fr EXCEPT ![t].rec = new]
        /\ NoReaperOf(fr[t].ct)
    BY <1>0, <1>6 DEF StartFailed, Knows, CtHands, ChildHands
  <2>2. new \in CtRecords /\ new.state = "Exited" /\ new.code = LostExit
        /\ new.sandbox = cacheCt[fr[t].ct].sandbox
    BY <1>c, <1>g, RecordFields
  <2>3. diskCt[fr[t].ct] = cacheCt[fr[t].ct] /\ new = Exited(diskCt[fr[t].ct], LostExit)
    BY <1>f, <2>1
  <2> HIDE DEF new
  <2>4. cacheCt'[fr[t].ct] = new /\ \A c \in Containers : c # fr[t].ct => cacheCt'[c] = cacheCt[c]
    BY <1>0, <1>c, <2>1 DEF StateTyped
  <2>5. /\ fr'[t].rec = new /\ fr'[t].op = fr[t].op /\ fr'[t].ct = fr[t].ct /\ fr'[t].pid = 0
        /\ fr'[t].sb = fr[t].sb
    BY <1>0, <2>1 DEF Frames
  <2>6. Knows(pc[t], fr[t])'
    <3>1. SbHands(pc[t], fr[t])' /\ Gathered(pc[t], fr[t])' /\ Withdrawn(pc[t], fr[t])'
      BY <1>0, <1>c, <2>1, <2>5 DEF SbHands, Gathered, Withdrawn
    <3>2. CtHands(pc[t], fr[t])'
      BY <1>0, <1>c, <2>1, <2>3, <2>4, <2>5 DEF CtHands
    <3>3. ChildHands(pc[t], fr[t])'
      BY <1>0, <1>c, <2>1, <2>5 DEF ChildHands, NoReaperOf
    <3>4. QED
      BY <3>1, <3>2, <3>3 DEF Knows
  <2>7. Agree'
    BY <1>0, <1>c, <2>1, <2>2, <2>4, <2>5, <2>6 DEF Agree, SbAgree, CtAgree, PidKnown, Knows
  <2>8. Housed'
    BY <1>0, <1>c, <2>1, <2>2, <2>4, <2>6 DEF Housed, NoOrphanContainer, Knows
  <2>9. Kept'
    BY <1>0, <1>c, <2>1, <2>6, KeptMoves
  <2>10. ChildIsTracked'
    BY <1>0, <1>b, <1>c, <1>d, <1>e, <2>1, <2>4 DEF Family, ChildIsTracked, Starting
  <2>11. Reaped'
    BY <1>0, <1>c, <1>d, <1>e, <2>1, <2>2, <2>4 DEF Family, Reaped, Starting
  <2>12. \A c \in Containers : RealCode(c, cacheCt[c])' /\ RealCode(c, diskCt[c])'
    BY <1>0, <1>c, <2>1, <2>2, <2>4 DEF Family, RealCode
  <2>13. QED
    BY <1>0, <2>6, <2>7, <2>8, <2>9, <2>10, <2>11, <2>12 DEF Ordered, Family, Knows
<1>7. CASE StartFailedWrite(t)
  <2>1. /\ pc[t] = "st_failed_write" /\ Return(t) /\ UNCHANGED <<proc, cacheCt>>
        /\ diskCt' = [diskCt EXCEPT ![fr[t].ct] = fr[t].rec] /\ diskCt[fr[t].ct].state = "Running"
        /\ fr[t].rec = Exited(diskCt[fr[t].ct], LostExit) /\ cacheCt[fr[t].ct] = fr[t].rec
        /\ fr[t].pid = 0
    BY <1>0, <1>7, <1>a DEF StartFailedWrite, Knows, CtHands, ChildHands
  <2>2. /\ fr[t].rec.state = "Exited" /\ fr[t].rec.code = LostExit
        /\ fr[t].rec.sandbox = diskCt[fr[t].ct].sandbox
    BY <1>c, <1>g, <2>1, RecordFields
  <2>3. diskCt'[fr[t].ct] = fr[t].rec /\ \A c \in Containers : c # fr[t].ct => diskCt'[c] = diskCt[c]
    BY <1>0, <1>c, <2>1 DEF StateTyped
  <2>4. Knows(pc[t], fr[t])' /\ StartGoesOn(t) /\ pc'[t] = "idle" /\ fr'[t].op = "none"
    BY <1>0, <1>b, <2>1, KnowsNothing DEF StartGoesOn
  <2>5. Agree'
    BY <1>0, <1>c, <2>1, <2>3, <2>4 DEF Agree, SbAgree, CtAgree, PidKnown, Knows
  <2>6. Housed'
    <3>1. diskCt[fr[t].ct].state # "absent" /\ diskCt'[fr[t].ct].sandbox = diskCt[fr[t].ct].sandbox
      BY <2>1, <2>2, <2>3
    <3>2. UNCHANGED <<up, cacheSb, diskSb, cacheCt>> /\ fr[t].ct \in Containers
      BY <1>c, <2>1
    <3>3. Gathered(pc[t], fr[t])'
      BY <2>4 DEF Knows
    <3>4. QED
      BY <1>0, <2>3, <3>1, <3>2, <3>3, HousedRewrite
  <2>7. Kept'
    <3>1. \A c \in Containers : /\ diskCt[c].state # "absent" => diskCt'[c].state # "absent"
                                /\ diskCt[c].state # "Created" => diskCt'[c].state # "Created"
                                /\ diskCt[c].state = "absent" => diskCt'[c].state = "absent"
                                /\ diskCt[c].state # "Running" => diskCt'[c].state # "Running"
      BY <2>1, <2>2, <2>3
    <3>2. UNCHANGED <<usedSb, usedCt, diskSb, ackSb, ackCt>>
      BY <1>0, <1>7, <1>a, <1>c, <2>1 DEF StartFailedWrite, IoErrorReturn
    <3>3. Durable'
      BY <1>0, <3>1, <3>2 DEF Kept, Durable
    <3>4. QED
      BY <1>0, <2>4, <3>2, <3>3 DEF Kept, Knows
  <2>8. Family'
    BY <1>0, <1>c, <2>1, <2>2, <2>3, <2>4, FamilyWrites DEF RealCode
  <2>9. QED
    BY <2>5, <2>6, <2>7, <2>8 DEF Ordered
<1>8. CASE StartIo(t)
  <2>1. /\ pc[t] = "st_io" /\ pc'[t] = "st_pid" /\ UNCHANGED <<fr, proc, cacheCt, diskCt>>
    BY <1>0, <1>8, <1>a DEF StartIo
  <2>2. Knows(pc[t], fr[t])' /\ StartGoesOn(t)
    BY <1>0, <1>c, <2>1 DEF Knows, SbHands, CtHands, Gathered, ChildHands, NoReaperOf, Withdrawn,
       StartGoesOn
  <2>3. QED
    BY <1>0, <1>c, <2>1, <2>2, OrderedMoves
<1>9. QED
  BY <1>1, <1>2, <1>3, <1>4, <1>5, <1>6, <1>7, <1>8


\* start_container with its child spawned: the pid is recorded, then the reaper started.
LEMMA OrderedPidSteps ==
  ASSUME Typed, Typed', Safe, Once, Ordered, NEW t, Threads = {t}, UNCHANGED ioErrors,
         StartPid(t) \/ StartPidWrite(t)
  PROVE  Ordered'
<1> USE DEF At, cache, disk, used, acks, Goto, HalfSb, HalfCt, Pidless, RunLabels, StopSbLabels,
            RemSbLabels, CreateLabels, StartLabels, StopLabels, RemLabels
<1>0. /\ t \in Threads /\ pc \in [Threads -> Labels] /\ fr \in [Threads -> Frames] /\ fr[t] \in Frames
      /\ Fits(pc[t], fr[t]) /\ StateTyped
      /\ Agree /\ Housed /\ Family /\ Kept /\ Knows(pc[t], fr[t])
  BY DEF Typed, StepsFit, Ordered, Agree, Housed, Family, Kept, Knows
<1>a. ~IoFails
  BY <1>0 DEF IoFails, StateTyped
<1>b. None \notin Containers /\ 0 \notin Pids /\ IdleFrame.op = "none"
  BY ConstantsOK DEF IdleFrame
<1>c. /\ UNCHANGED <<up, proc, cacheSb, diskSb, usedSb, usedCt>> /\ up
      /\ fr[t].op = "StartContainer" /\ fr[t].ct \in Containers /\ fr[t].ct \in usedCt
      /\ cacheCt[fr[t].ct] \in CtRecords /\ diskCt[fr[t].ct] \in CtRecords
  <2>1. /\ UNCHANGED <<up, proc, cacheSb, diskSb, usedSb, usedCt>> /\ up
        /\ pc[t] \in {"st_pid", "st_pid_write"}
    BY DEF StartPid, StartPidWrite, IoErrorReturn
  <2>2. fr[t].op = "StartContainer" /\ fr[t].ct \in Containers
    BY <1>0, <2>1 DEF Fits
  <2>3. QED
    BY <1>0, <1>b, <2>1, <2>2 DEF Safe, IdsMinted, StateTyped
<1>d. \A p \in Pids : proc[p].st # "free" => proc[p].ct \in Containers
  BY <1>0 DEF Once, Begun, StateTyped
<1>e. /\ fr[t].pid \in Pids /\ proc[fr[t].pid].st # "free" /\ proc[fr[t].pid].ct = fr[t].ct
      /\ NoReaperOf(fr[t].ct)
  BY <1>0 DEF StartPid, StartPidWrite, Knows, ChildHands
<1>1. CASE StartPid(t)
  <2> DEFINE new == WithPid(cacheCt[fr[t].ct], fr[t].pid)
  <2>1. new \in CtRecords /\ new.state = cacheCt[fr[t].ct].state /\ new.pid = fr[t].pid
        /\ new.sandbox = cacheCt[fr[t].ct].sandbox /\ new.code = cacheCt[fr[t].ct].code
    BY <1>c, <1>e, PidFields
  <2>2. /\ pc[t] = "st_pid" /\ pc'[t] = "st_pid_write" /\ UNCHANGED <<reaper, diskCt, ackSb, ackCt>>
        /\ cacheCt[fr[t].ct].state = "Running" /\ cacheCt[fr[t].ct].pid = 0
        /\ cacheCt' = [cacheCt EXCEPT ![fr[t].ct] = new] /\ fr' = [fr EXCEPT ![t].rec = new]
    <3>1. /\ [cacheCt EXCEPT ![fr[t].ct].pid = fr[t].pid] = [cacheCt EXCEPT ![fr[t].ct] = new]
          /\ [cacheCt[fr[t].ct] EXCEPT !.pid = fr[t].pid] = new
      BY DEF WithPid
    <3>2. cacheCt[fr[t].ct].state = "Running" /\ cacheCt[fr[t].ct].pid = 0 /\ pc[t] = "st_pid"
      BY <1>0, <1>1 DEF StartPid, Knows, CtHands
    <3>3. /\ cacheCt' = [cacheCt EXCEPT ![fr[t].ct].pid = fr[t].pid]
          /\ fr' = [fr EXCEPT ![t].rec = [cacheCt[fr[t].ct] EXCEPT !.pid = fr[t].pid]]
          /\ pc' = [pc EXCEPT ![t] = "st_pid_write"] /\ UNCHANGED <<reaper, diskCt, ackSb, ackCt>>
      BY <1>1, <3>2 DEF StartPid
    <3> HIDE DEF new
    <3>4. QED
      BY <1>0, <3>1, <3>2, <3>3
  <2>3. diskCt[fr[t].ct] = cacheCt[fr[t].ct]
    BY <1>0, <1>c, <2>2 DEF Agree, CtAgree
  <2>4. new = WithPid(diskCt[fr[t].ct], fr[t].pid)
    BY <2>3
  <2> HIDE DEF new
  <2>5. cacheCt'[fr[t].ct] = new /\ \A c \in Containers : c # fr[t].ct => cacheCt'[c] = cacheCt[c]
    BY <1>0, <1>c, <2>2 DEF StateTyped
  <2>6. /\ fr'[t].rec = new /\ fr'[t].op = fr[t].op /\ fr'[t].ct = fr[t].ct /\ fr'[t].pid = fr[t].pid
        /\ fr'[t].sb = fr[t].sb
    BY <1>0, <2>2 DEF Frames
  <2>7. Knows(pc[t], fr[t])'
    <3>1. SbHands(pc[t], fr[t])' /\ Gathered(pc[t], fr[t])' /\ Withdrawn(pc[t], fr[t])'
      BY <1>0, <1>c, <2>2, <2>6 DEF SbHands, Gathered, Withdrawn
    <3>2. CtHands(pc[t], fr[t])'
      BY <1>0, <1>c, <2>2, <2>3, <2>4, <2>5, <2>6 DEF CtHands
    <3>3. ChildHands(pc[t], fr[t])'
      BY <1>0, <1>c, <1>e, <2>2, <2>6 DEF ChildHands, NoReaperOf
    <3>4. QED
      BY <3>1, <3>2, <3>3 DEF Knows
  <2>8. Agree'
    BY <1>0, <1>b, <1>c, <1>e, <2>1, <2>2, <2>5, <2>6, <2>7 DEF Agree, SbAgree, CtAgree, PidKnown, Knows
  <2>9. Housed'
    BY <1>0, <1>c, <2>1, <2>2, <2>5, <2>7 DEF Housed, NoOrphanContainer, Knows
  <2>10. Kept'
    BY <1>0, <1>c, <2>2, <2>7, KeptMoves
  <2>11. \A p \in Pids : Starting(p)' <=> Starting(p)
    BY <1>c, <2>6 DEF Starting
  <2>12. ChildIsTracked'
    BY <1>0, <1>b, <1>c, <1>d, <2>2, <2>5, <2>11 DEF Family, ChildIsTracked, Starting
  <2>13. Reaped'
    BY <1>0, <1>c, <1>d, <2>1, <2>2, <2>5, <2>11 DEF Family, Reaped
  <2>14. \A c \in Containers : RealCode(c, cacheCt[c])' /\ RealCode(c, diskCt[c])'
    BY <1>0, <1>c, <2>1, <2>2, <2>5 DEF Family, RealCode
  <2>15. QED
    BY <1>0, <2>7, <2>8, <2>9, <2>10, <2>12, <2>13, <2>14 DEF Ordered, Family, Knows
<1>2. CASE StartPidWrite(t)
  <2>1. /\ pc[t] = "st_pid_write" /\ Return(t) /\ UNCHANGED cacheCt /\ AckCt(fr[t].ct, "started")
        /\ diskCt' = [diskCt EXCEPT ![fr[t].ct] = fr[t].rec] /\ diskCt[fr[t].ct].state = "Running"
        /\ fr[t].rec = WithPid(diskCt[fr[t].ct], fr[t].pid) /\ cacheCt[fr[t].ct] = fr[t].rec
        /\ reaper' = [reaper EXCEPT ![fr[t].pid] = "wait"]
    BY <1>0, <1>2, <1>a DEF StartPidWrite, IoErrorReturn, Knows, CtHands
  <2>2. /\ fr[t].rec.state = "Running" /\ fr[t].rec.pid = fr[t].pid
        /\ fr[t].rec.sandbox = diskCt[fr[t].ct].sandbox
    BY <1>c, <1>e, <2>1, RecordFields
  <2>3. /\ diskCt'[fr[t].ct] = fr[t].rec /\ \A c \in Containers : c # fr[t].ct => diskCt'[c] = diskCt[c]
        /\ reaper'[fr[t].pid] = "wait" /\ \A p \in Pids : p # fr[t].pid => reaper'[p] = reaper[p]
    BY <1>0, <1>c, <1>e, <2>1 DEF StateTyped
  <2>4. Knows(pc[t], fr[t])' /\ pc'[t] = "idle" /\ fr'[t].op = "none"
    BY <1>0, <1>b, <2>1, KnowsNothing
  <2>5. Agree'
    BY <1>0, <1>c, <2>1, <2>3, <2>4 DEF Agree, SbAgree, CtAgree, PidKnown, Knows
  <2>6. Housed'
    <3>1. diskCt[fr[t].ct].state # "absent" /\ diskCt'[fr[t].ct].sandbox = diskCt[fr[t].ct].sandbox
      BY <2>1, <2>2, <2>3
    <3>2. UNCHANGED <<up, cacheSb, diskSb, cacheCt>> /\ fr[t].ct \in Containers
      BY <1>c, <2>1
    <3>3. Gathered(pc[t], fr[t])'
      BY <2>4 DEF Knows
    <3>4. QED
      BY <1>0, <2>3, <3>1, <3>2, <3>3, HousedRewrite
  <2>7. Kept'
    BY <1>0, <1>c, <2>1, <2>2, <2>3, <2>4, KeptAckCt
  <2>8. ChildIsTracked'
    BY <1>0, <1>c, <1>e, <2>1, <2>2 DEF Family, ChildIsTracked
  <2>9. Reaped'
    BY <1>0, <1>c, <1>e, <2>1, <2>3 DEF Family, Reaped, Starting
  <2>10. \A c \in Containers : RealCode(c, cacheCt[c])' /\ RealCode(c, diskCt[c])'
    <3>1. \A c \in Containers : RealCode(c, cacheCt[c]) /\ RealCode(c, diskCt[c])
      BY <1>0 DEF Family
    <3>2. \A c \in Containers : RealCode(c, cacheCt[c])'
      BY <1>c, <2>1, <3>1 DEF RealCode
    <3>3. ASSUME NEW c \in Containers PROVE RealCode(c, diskCt[c])'
      <4>1. CASE c = fr[t].ct
        BY <2>1, <2>2, <2>3, <4>1 DEF RealCode
      <4>2. CASE c # fr[t].ct
        BY <1>c, <2>1, <2>3, <3>1, <4>2 DEF RealCode
      <4>3. QED
        BY <4>1, <4>2
    <3>4. QED
      BY <3>2, <3>3
  <2>11. QED
    BY <1>0, <2>4, <2>5, <2>6, <2>7, <2>8, <2>9, <2>10 DEF Ordered, Family, Knows
<1>3. QED
  BY <1>1, <1>2


\* A step that ends, kills or orphans processes leaves families whole.
LEMMA FamilyFates ==
  ASSUME Family, NEW t, Threads = {t}, UNCHANGED <<up, reaper, cacheCt, diskCt>>,
         \A p \in Pids : Fate(proc[p], proc'[p]), Knows(pc[t], fr[t])', StartGoesOn(t)
  PROVE  Family'
<1>1. \A p \in Pids : Starting(p) => Starting(p)'
  BY DEF Starting, StartGoesOn
<1>2. Reaped'
  BY <1>1 DEF Family, Reaped, Fate
<1>3. ChildIsTracked'
  BY <1>1 DEF Family, ChildIsTracked, Starting, Fate
<1>4. \A c \in Containers : RealCode(c, cacheCt[c])' /\ RealCode(c, diskCt[c])'
  BY DEF Family, RealCode, Fate
<1>5. QED
  BY <1>2, <1>3, <1>4 DEF Family, Knows

\* stop_container is over, and the container has no live child.
LEMMA OrderedStopped ==
  ASSUME Typed, Safe, Ordered, NEW t, Threads = {t}, ContainerStopped(t),
         pc[t] \in StopLabels \ {"sc_mark", "sc_mark_write"}, NoLiveChild(fr[t].ct),
         UNCHANGED <<up, cacheSb, cacheCt, diskSb, diskCt, usedSb, usedCt, proc, reaper>>
  PROVE  Ordered'
<1> USE DEF acks, Goto, HalfSb, HalfCt, Pidless, RemSbLabels, StartLabels, StopLabels, RemLabels
<1>0. /\ t \in Threads /\ pc \in [Threads -> Labels] /\ fr \in [Threads -> Frames] /\ fr[t] \in Frames
      /\ Fits(pc[t], fr[t]) /\ StateTyped
      /\ Agree /\ Housed /\ Family /\ Kept /\ Knows(pc[t], fr[t])
  BY DEF Typed, StepsFit, Ordered, Agree, Housed, Family, Kept, Knows
<1>1. /\ fr[t].op \in {"StopContainer", "RemoveContainer", "RemoveSandbox"}
      /\ fr[t].ct \in Containers /\ StartGoesOn(t)
  BY <1>0 DEF Fits, StartGoesOn
<1>2. fr[t].ct \in usedCt
  BY <1>0, <1>1, ConstantsOK DEF Safe, IdsMinted
<1>3. CASE fr[t].from = "client"
  <2>1. Return(t) /\ AckCt(fr[t].ct, "stopped")
    BY <1>3 DEF ContainerStopped
  <2>2. Knows(pc[t], fr[t])'
    BY <1>0, <2>1, KnowsNothing
  <2>3. Kept'
    BY <1>0, <1>2, <2>1, <2>2, KeptAckCt
  <2>4. QED
    BY <1>0, <1>1, <2>2, <2>3, AgreeMoves, HousedMoves, FamilyMoves DEF Ordered
<1>4. CASE fr[t].from \in {"cascade", "force"}
  <2>1. /\ pc'[t] = (IF fr[t].from = "cascade" THEN "rc_check" ELSE "rc_drop")
        /\ UNCHANGED <<fr, ackSb, ackCt>>
    BY <1>0, <1>4 DEF ContainerStopped
  <2>2. Knows(pc[t], fr[t])'
    BY <1>0, <1>1, <1>4, <2>1 DEF Knows, SbHands, CtHands, Gathered, ContainersOf, ChildHands,
       NoLiveChild, NoReaperOf, Withdrawn
  <2>3. QED
    BY <1>0, <1>1, <2>1, <2>2, OrderedMoves
<1>5. QED
  BY <1>0, <1>3, <1>4 DEF Fits

\* remove_container is over, and the record is gone.
LEMMA OrderedRemoved ==
  ASSUME Typed, Safe, Ordered, NEW t, Threads = {t}, ContainerRemoved(t), up,
         pc[t] \in {"rc_check", "rc_unlink"}, cacheCt[fr[t].ct].state = "absent",
         diskCt'[fr[t].ct].state = "absent",
         \A c \in Containers : c # fr[t].ct => diskCt'[c] = diskCt[c],
         UNCHANGED <<up, cacheSb, cacheCt, diskSb, usedSb, usedCt, proc, reaper>>
  PROVE  Ordered'
<1> USE DEF acks, Goto, HalfSb, HalfCt, Pidless, RemSbLabels, StartLabels, StopLabels, RemLabels
<1>0. /\ t \in Threads /\ pc \in [Threads -> Labels] /\ fr \in [Threads -> Frames] /\ fr[t] \in Frames
      /\ Fits(pc[t], fr[t]) /\ StateTyped
      /\ Agree /\ Housed /\ Family /\ Kept /\ Knows(pc[t], fr[t])
  BY DEF Typed, StepsFit, Ordered, Agree, Housed, Family, Kept, Knows
<1>1. /\ fr[t].op \in {"RemoveContainer", "RemoveSandbox"}
      /\ fr[t].ct \in Containers /\ StartGoesOn(t) /\ IdleFrame.op = "none"
  BY <1>0 DEF Fits, StartGoesOn, IdleFrame
<1>2. fr[t].ct \in usedCt
  BY <1>0, <1>1, ConstantsOK DEF Safe, IdsMinted
<1>3. /\ Knows(pc[t], fr[t])' /\ Kept'
      /\ pc'[t] \in {"idle", "rs_next"} /\ fr'[t].op # "StartContainer"
  <2>1. CASE fr[t].op = "RemoveContainer"
    <3>1. Return(t) /\ AckCt(fr[t].ct, "gone")
      BY <2>1 DEF ContainerRemoved
    <3>2. Knows(pc[t], fr[t])' /\ pc'[t] = "idle" /\ fr'[t].op = "none"
      BY <1>0, <1>1, <3>1, KnowsNothing
    <3>3. Kept'
      BY <1>0, <1>2, <3>1, <3>2, KeptAckCt
    <3>4. QED
      BY <3>2, <3>3
  <2>2. CASE fr[t].op = "RemoveSandbox"
    <3>1. pc'[t] = "rs_next" /\ UNCHANGED <<fr, ackSb, ackCt>>
      BY <1>0, <2>2 DEF ContainerRemoved
    <3>2. SbHands(pc[t], fr[t])' /\ CtHands(pc[t], fr[t])'
      BY <1>0, <2>2, <3>1 DEF Knows, SbHands, CtHands
    <3>3. Gathered(pc[t], fr[t])'
      BY <1>0, <1>1, <2>2, <3>1 DEF Knows, Gathered, ContainersOf
    <3>4. ChildHands(pc[t], fr[t])' /\ Withdrawn(pc[t], fr[t])'
      BY <1>0, <2>2, <3>1 DEF Knows, ChildHands, Withdrawn
    <3>5. Kept'
      BY <1>0, <1>1, <2>2, <3>1, <3>4 DEF Kept, Durable, Knows, Withdrawn
    <3>6. QED
      BY <2>2, <3>1, <3>2, <3>3, <3>4, <3>5 DEF Knows
  <2>3. QED
    BY <1>1, <2>1, <2>2
<1>4. Agree'
  BY <1>0, <1>1, <1>3 DEF Agree, SbAgree, CtAgree, PidKnown, Knows
<1>5. Housed'
  BY <1>0, <1>1, <1>3 DEF Housed, NoOrphanContainer, Knows
<1>6. Family'
  BY <1>0, <1>1, <1>3, FamilyWrites DEF RealCode
<1>7. QED
  BY <1>3, <1>4, <1>5, <1>6 DEF Ordered

\* stop_container and remove_container, called by the client or by remove_sandbox.
LEMMA OrderedStopSteps ==
  ASSUME Typed, Typed', Safe, Safe', Once, Ordered, NEW t, Threads = {t}, StopSteps(t),
         UNCHANGED ioErrors
  PROVE  Ordered'
<1> USE DEF At, cache, disk, used, acks, Goto, HalfSb, HalfCt, Pidless, RunLabels, StopSbLabels,
            RemSbLabels, CreateLabels, StartLabels, StopLabels, RemLabels
<1>0. /\ t \in Threads /\ pc \in [Threads -> Labels] /\ fr \in [Threads -> Frames] /\ fr[t] \in Frames
      /\ Fits(pc[t], fr[t]) /\ StateTyped
      /\ Agree /\ Housed /\ Family /\ Kept /\ Knows(pc[t], fr[t])
  BY DEF Typed, StepsFit, Ordered, Agree, Housed, Family, Kept, Knows
<1>a. ~IoFails
  BY <1>0 DEF IoFails, StateTyped
<1>b. None \notin Sandboxes /\ None \notin Containers /\ IdleFrame.op = "none"
  BY ConstantsOK DEF IdleFrame
<1>c. /\ UNCHANGED <<up, reaper, cacheSb, diskSb, usedSb, usedCt>> /\ up
      /\ pc[t] \in StopLabels \cup RemLabels /\ pc[t] \notin {"sc_mark", "sc_mark_write"}
      /\ fr[t].op \in {"StopContainer", "RemoveContainer", "RemoveSandbox"}
      /\ fr[t].ct \in Containers /\ fr[t].ct \in usedCt /\ StartGoesOn(t)
  <2>1. /\ UNCHANGED <<up, reaper, cacheSb, diskSb, usedSb, usedCt>> /\ up
        /\ pc[t] \in StopLabels \cup RemLabels
    BY DEF StopSteps, StopCheck, StopTerm, StopGrace, StopKill, StopWait, StopMark, StopMarkWrite,
           RemoveCheck, RemoveDrop, RemoveIo, RemoveUnlink, IoErrorReturn
  <2>2. /\ fr[t].op \in {"StopContainer", "RemoveContainer", "RemoveSandbox"}
        /\ fr[t].ct \in Containers /\ pc[t] \notin {"sc_mark", "sc_mark_write"}
    BY <1>0, <2>1 DEF Fits, Knows, CtHands
  <2>3. fr[t].ct \in usedCt
    BY <1>0, <1>b, <2>2 DEF Safe, IdsMinted
  <2>4. QED
    BY <2>1, <2>2, <2>3 DEF StartGoesOn
<1>d. \A p \in Pids : Fate(proc[p], proc'[p])
  BY <1>0, StepFates
<1>e. \A p \in Pids : ~Starting(p)
  BY <1>c DEF Starting
<1>f. \A p \in Pids : proc[p].ct = fr[t].ct /\ proc[p].st = "live" /\ proc[p].child =>
        cacheCt[fr[t].ct].state = "Running" /\ cacheCt[fr[t].ct].pid = p
  BY <1>0, <1>e DEF Family, ChildIsTracked, Starting
<1>g. cacheCt[fr[t].ct].state # "Running" => NoLiveChild(fr[t].ct)
  BY <1>f DEF NoLiveChild
<1>1. CASE StopCheck(t)
  <2>1. pc[t] = "sc_check" /\ UNCHANGED <<cacheCt, diskCt, proc>>
    BY <1>1 DEF StopCheck
  <2>2. CASE cacheCt[fr[t].ct].state # "Running"
    BY <1>1, <1>c, <1>g, <2>1, <2>2, OrderedStopped DEF StopCheck
  <2>3. CASE cacheCt[fr[t].ct].state = "Running"
    <3>1. cacheCt[fr[t].ct].pid # 0
      BY <1>0, <1>c, <2>1, <2>3 DEF Agree, PidKnown
    <3>2. /\ pc'[t] \in {"sc_term", "sc_kill"} /\ UNCHANGED <<ackSb, ackCt>>
          /\ fr' = [fr EXCEPT ![t].pid = cacheCt[fr[t].ct].pid]
      BY <1>0, <1>1, <2>3, <3>1 DEF StopCheck
    <3>3. /\ fr'[t].pid = cacheCt[fr[t].ct].pid /\ fr'[t].op = fr[t].op /\ fr'[t].sb = fr[t].sb
          /\ fr'[t].ct = fr[t].ct /\ fr'[t].todo = fr[t].todo /\ fr'[t].from = fr[t].from
      BY <1>0, <3>2 DEF Frames
    <3>4. Knows(pc[t], fr[t])'
      <4>a. SbHands(pc[t], fr[t]) /\ CtHands(pc[t], fr[t])
        BY <1>0 DEF Knows
      <4>b. pc[t] = "sc_check" /\ pc'[t] \in {"sc_term", "sc_kill"}
        BY <2>1, <3>2
      <4>c. SbHands(pc[t], fr[t])'
        BY <1>c, <3>3, <4>a, <4>b DEF SbHands, StopLabels, RemLabels, RemSbLabels
      <4>1. CtHands(pc[t], fr[t])'
        BY <1>c, <2>1, <2>3, <3>3, <4>a, <4>b DEF CtHands
      <4>2. Gathered(pc[t], fr[t])'
        BY <1>0, <1>c, <2>1, <3>2, <3>3 DEF Knows, Gathered, ContainersOf
      <4>3. ChildHands(pc[t], fr[t])' /\ Withdrawn(pc[t], fr[t])'
        BY <1>0, <1>c, <2>1, <3>2, <3>3 DEF Knows, ChildHands, Withdrawn
      <4>4. QED
        BY <4>c, <4>1, <4>2, <4>3 DEF Knows
    <3>5. QED
      BY <1>0, <1>c, <2>1, <3>2, <3>4, OrderedMoves
  <2>4. QED
    BY <2>2, <2>3
<1>2. CASE StopTerm(t)
  <2>1. /\ pc[t] = "sc_term" /\ pc'[t] = "sc_grace"
        /\ UNCHANGED <<fr, cacheCt, diskCt, ackSb, ackCt>>
    BY <1>0, <1>2 DEF StopTerm
  <2>2. Knows(pc[t], fr[t])'
    BY <1>0, <1>c, <2>1 DEF Knows, SbHands, CtHands, Gathered, ContainersOf, ChildHands, Withdrawn
  <2>3. QED
    BY <1>0, <1>c, <1>d, <2>1, <2>2, AgreeMoves, HousedMoves, KeptMoves, FamilyFates DEF Ordered
<1>3. CASE StopGrace(t)
  <2>1. pc[t] = "sc_grace" /\ UNCHANGED <<cacheCt, diskCt, proc>>
    BY <1>3 DEF StopGrace
  <2>2. CASE NoLongerRunning(fr[t].ct)
    BY <1>3, <1>c, <1>g, <2>1, <2>2, OrderedStopped DEF StopGrace, NoLongerRunning
  <2>3. CASE ~NoLongerRunning(fr[t].ct)
    <3>1. pc'[t] = "sc_kill" /\ UNCHANGED <<fr, ackSb, ackCt>>
      BY <1>0, <1>3, <2>3 DEF StopGrace
    <3>2. Knows(pc[t], fr[t])'
      BY <1>0, <1>c, <2>1, <3>1 DEF Knows, SbHands, CtHands, Gathered, ContainersOf, ChildHands,
         Withdrawn
    <3>3. QED
      BY <1>0, <1>c, <2>1, <3>1, <3>2, OrderedMoves
  <2>4. QED
    BY <2>2, <2>3
<1>4. CASE StopKill(t)
  <2>1. /\ pc[t] = "sc_kill" /\ pc'[t] = "sc_wait" /\ cacheCt[fr[t].ct].pid = fr[t].pid
        /\ UNCHANGED <<fr, cacheCt, diskCt, ackSb, ackCt>>
        /\ proc' = [proc EXCEPT ![fr[t].pid] = Killed(proc[fr[t].pid])]
    BY <1>0, <1>4 DEF StopKill, Knows, CtHands
  <2>2. fr[t].pid \in Pids => proc'[fr[t].pid].st # "live"
    <3>1. fr[t].pid \in Pids => Killed(proc[fr[t].pid]).st # "live"
      BY <1>0, Fates DEF StateTyped
    <3>2. QED
      BY <1>0, <2>1, <3>1 DEF StateTyped
  <2>3. NoLiveChild(fr[t].ct)'
    BY <1>d, <1>f, <2>1, <2>2 DEF NoLiveChild, Fate
  <2>4. Knows(pc[t], fr[t])'
    BY <1>0, <1>c, <2>1, <2>3 DEF Knows, SbHands, CtHands, Gathered, ContainersOf, ChildHands,
       Withdrawn
  <2>5. QED
    BY <1>0, <1>c, <1>d, <2>1, <2>4, AgreeMoves, HousedMoves, KeptMoves, FamilyFates DEF Ordered
<1>5. CASE StopWait(t)
  <2>1. pc[t] = "sc_wait" /\ UNCHANGED <<cacheCt, diskCt, proc>> /\ NoLiveChild(fr[t].ct)
    BY <1>0, <1>5 DEF StopWait, Knows, ChildHands
  <2>2. QED
    BY <1>5, <1>c, <2>1, OrderedStopped DEF StopWait
<1>6. CASE RemoveCheck(t) /\ cacheCt[fr[t].ct].state = "absent"
  <2>1. /\ pc[t] = "rc_check" /\ ContainerRemoved(t) /\ UNCHANGED <<cacheCt, diskCt, proc>>
    BY <1>6 DEF RemoveCheck, StopsFirst
  <2>2. diskCt[fr[t].ct].state = "absent"
    BY <1>0, <1>6, <1>c, <2>1 DEF Agree, CtAgree
  <2>3. QED
    BY <1>6, <1>c, <2>1, <2>2, OrderedRemoved
<1>7. CASE RemoveCheck(t) /\ StopsFirst(cacheCt[fr[t].ct])
  <2>1. /\ pc[t] = "rc_check" /\ pc'[t] = "sc_check" /\ fr'[t].from = "force" /\ fr'[t].ct = fr[t].ct
        /\ fr'[t].todo = fr[t].todo /\ fr'[t].op = fr[t].op /\ fr'[t].sb = fr[t].sb
        /\ UNCHANGED <<cacheCt, diskCt, proc, ackSb, ackCt>>
        /\ cacheCt[fr[t].ct].state = "Running"
    BY <1>0, <1>7, ForceFrame DEF RemoveCheck, StopsFirst
  <2>2. Knows(pc[t], fr[t])'
    BY <1>0, <1>c, <2>1 DEF Knows, SbHands, CtHands, Gathered, ContainersOf, ChildHands, Withdrawn
  <2>3. QED
    BY <1>0, <1>c, <2>1, <2>2, OrderedMoves
<1>8. CASE /\ RemoveCheck(t) /\ cacheCt[fr[t].ct].state # "absent"
           /\ ~StopsFirst(cacheCt[fr[t].ct])
  <2>1. /\ pc[t] = "rc_check" /\ pc'[t] = "rc_drop" /\ cacheCt[fr[t].ct].state # "absent"
        /\ cacheCt[fr[t].ct].state # "Running"
        /\ UNCHANGED <<fr, cacheCt, diskCt, proc, ackSb, ackCt>>
    BY <1>0, <1>8 DEF RemoveCheck, StopsFirst
  <2>2. Knows(pc[t], fr[t])'
    BY <1>0, <1>c, <1>g, <2>1 DEF Knows, SbHands, CtHands, Gathered, ContainersOf, ChildHands,
       NoLiveChild, Withdrawn
  <2>3. QED
    BY <1>0, <1>c, <2>1, <2>2, OrderedMoves
<1>9. CASE RemoveDrop(t)
  <2>1. /\ pc[t] = "rc_drop" /\ pc'[t] = "rc_io" /\ cacheCt' = [cacheCt EXCEPT ![fr[t].ct] = Absent]
        /\ UNCHANGED <<fr, diskCt, proc, ackSb, ackCt>>
        /\ cacheCt[fr[t].ct].state # "absent" /\ NoLiveChild(fr[t].ct)
    BY <1>0, <1>9 DEF RemoveDrop, Knows, CtHands, ChildHands
  <2>2. diskCt[fr[t].ct].state # "absent"
    BY <1>0, <1>c, <2>1 DEF Agree, CtAgree
  <2>3. /\ cacheCt'[fr[t].ct].state = "absent" /\ cacheCt'[fr[t].ct].sandbox = None
        /\ \A c \in Containers : c # fr[t].ct => cacheCt'[c] = cacheCt[c]
    BY <1>0, <1>c, <2>1 DEF StateTyped, Absent
  <2>4. Knows(pc[t], fr[t])'
    <3>1. SbHands(pc[t], fr[t])' /\ CtHands(pc[t], fr[t])'
      BY <1>0, <1>c, <2>1, <2>2, <2>3 DEF Knows, SbHands, CtHands
    <3>2. Gathered(pc[t], fr[t])' /\ ChildHands(pc[t], fr[t])'
      BY <1>0, <1>c, <2>1, <2>3 DEF Knows, Gathered, ContainersOf, ChildHands
    <3>3. Withdrawn(pc[t], fr[t])'
      BY <1>0, <1>b, <1>c, <2>1, <2>3 DEF Knows, Withdrawn, Fits
    <3>4. QED
      BY <3>1, <3>2, <3>3 DEF Knows
  <2>5. Agree'
    BY <1>0, <1>c, <2>1, <2>3, <2>4 DEF Agree, SbAgree, CtAgree, PidKnown, Knows
  <2>6. Housed'
    BY <1>0, <1>c, <2>1, <2>3, <2>4 DEF Housed, NoOrphanContainer, Knows
  <2>7. Kept'
    BY <1>0, <1>c, <2>1, <2>4, KeptMoves
  <2>8. \A p \in Pids : proc[p].st # "free" => proc[p].ct \in Containers
    BY <1>0 DEF Once, Begun, StateTyped
  <2>9. ChildIsTracked'
    BY <1>0, <1>c, <1>e, <2>1, <2>3, <2>8 DEF Family, ChildIsTracked, Starting, NoLiveChild
  <2>10. Reaped'
    BY <1>0, <1>c, <1>e, <2>1, <2>3, <2>8 DEF Family, Reaped, Starting
  <2>11. \A c \in Containers : RealCode(c, cacheCt[c])' /\ RealCode(c, diskCt[c])'
    BY <1>0, <1>c, <2>1, <2>3 DEF Family, RealCode
  <2>12. QED
    BY <1>0, <2>4, <2>5, <2>6, <2>7, <2>9, <2>10, <2>11 DEF Ordered, Family, Knows
<1>10. CASE RemoveIo(t)
  <2>1. /\ pc[t] = "rc_io" /\ pc'[t] = "rc_unlink"
        /\ UNCHANGED <<fr, cacheCt, diskCt, proc, ackSb, ackCt>>
    BY <1>0, <1>10 DEF RemoveIo
  <2>2. Knows(pc[t], fr[t])'
    BY <1>0, <1>c, <2>1 DEF Knows, SbHands, CtHands, Gathered, ContainersOf, ChildHands, Withdrawn
  <2>3. Agree'
    BY <1>0, <1>c, <2>1, <2>2 DEF Agree, SbAgree, CtAgree, PidKnown, Knows
  <2>4. QED
    BY <1>0, <1>c, <1>d, <2>1, <2>2, <2>3, HousedMoves, KeptMoves, FamilyMoves DEF Ordered
<1>11. CASE RemoveUnlink(t)
  <2>1. /\ pc[t] = "rc_unlink" /\ ContainerRemoved(t) /\ UNCHANGED <<cacheCt, proc>>
        /\ diskCt' = [diskCt EXCEPT ![fr[t].ct] = Absent] /\ cacheCt[fr[t].ct].state = "absent"
    BY <1>0, <1>11, <1>a DEF RemoveUnlink, Safe, HandsRight, Unlinks
  <2>2. diskCt'[fr[t].ct].state = "absent" /\ \A c \in Containers : c # fr[t].ct => diskCt'[c] = diskCt[c]
    BY <1>0, <1>c, <2>1 DEF StateTyped, Absent
  <2>3. QED
    BY <1>c, <2>1, <2>2, OrderedRemoved
<1>12. ~StopMark(t) /\ ~StopMarkWrite(t)
  BY <1>c DEF StopMark, StopMarkWrite
<1>13. CASE RemoveCheck(t)
  BY <1>13, <1>6, <1>7, <1>8
<1>14. QED
  BY <1>1, <1>2, <1>3, <1>4, <1>5, <1>9, <1>10, <1>11, <1>12, <1>13 DEF StopSteps


\* Between calls the caller knows nothing, whatever happens around it.
LEMMA IdleKnows ==
  ASSUME NEW t, pc'[t] = "idle", fr'[t].op = "none" PROVE Knows(pc[t], fr[t])'
<1>1. SbHands(pc[t], fr[t])' /\ CtHands(pc[t], fr[t])'
  BY DEF SbHands, CtHands, RemSbLabels, StopLabels, RemLabels
<1>2. Gathered(pc[t], fr[t])' /\ ChildHands(pc[t], fr[t])' /\ Withdrawn(pc[t], fr[t])'
  BY DEF Gathered, ChildHands, Withdrawn, StartLabels, StopLabels, RemLabels
<1>3. QED
  BY <1>1, <1>2 DEF Knows

\* A step of a program, the kernel or a reaper that leaves the records alone.
LEMMA OrderedAside ==
  ASSUME Typed, Ordered, NEW t, Threads = {t},
         UNCHANGED <<up, cacheSb, cacheCt, diskSb, diskCt, usedSb, usedCt, pc, fr, ackSb, ackCt>>,
         \A p \in Pids : Fate(proc[p], proc'[p]),
         \A p \in Pids : reaper'[p] # "none" => reaper[p] # "none", Reaped'
  PROVE  Ordered'
<1>0. Agree /\ Housed /\ Family /\ Kept /\ Knows(pc[t], fr[t])
  BY DEF Ordered, Agree, Housed, Family, Kept, Knows
<1>1. Knows(pc[t], fr[t])'
  <2>1. SbHands(pc[t], fr[t])' /\ CtHands(pc[t], fr[t])'
    BY <1>0 DEF Knows, SbHands, CtHands
  <2>2. Gathered(pc[t], fr[t])' /\ Withdrawn(pc[t], fr[t])'
    BY <1>0 DEF Knows, Gathered, ContainersOf, Withdrawn
  <2>3. ChildHands(pc[t], fr[t])'
    BY <1>0 DEF Knows, ChildHands, NoReaperOf, NoLiveChild, Fate
  <2>4. QED
    BY <2>1, <2>2, <2>3 DEF Knows
<1>2. Agree'
  BY <1>0, <1>1 DEF Agree, SbAgree, CtAgree, PidKnown, Knows
<1>3. Housed' /\ Kept'
  BY <1>0, <1>1, HousedMoves, KeptMoves
<1>4. ChildIsTracked'
  BY <1>0 DEF Family, ChildIsTracked, Starting, Fate
<1>5. \A c \in Containers : RealCode(c, cacheCt[c])' /\ RealCode(c, diskCt[c])'
  BY <1>0 DEF Family, RealCode, Fate
<1>6. QED
  BY <1>1, <1>2, <1>3, <1>4, <1>5 DEF Ordered, Family, Knows

\* The record a reaper closes is in no hands that would mind.
LEMMA ReaperAlone ==
  ASSUME Typed, Safe, Ordered, NEW t, Threads = {t}, NEW p \in Pids, reaper[p] # "none",
         cacheCt[proc[p].ct].state = "Running"
  PROVE  pc[t] \in HalfCt \cup Pidless \cup {"st_intent"} => fr[t].ct # proc[p].ct
<1> DEFINE ct == proc[p].ct
<1>0. t \in Threads /\ Fits(pc[t], fr[t]) /\ Knows(pc[t], fr[t])
  BY DEF Typed, StepsFit, Ordered, Agree, Housed, Family, Kept, Knows
<1>1. CASE pc[t] \in StartLabels \ {"st_check", "st_intent"}
  BY <1>0, <1>1 DEF Knows, ChildHands, NoReaperOf, ct
<1>2. CASE pc[t] = "st_intent"
  BY <1>0, <1>2 DEF Knows, CtHands
<1>3. CASE pc[t] = "cc_insert"
  BY <1>0, <1>3 DEF Safe, MintsAlone, Fits, CreateLabels
<1>4. CASE pc[t] \in {"rc_io", "rc_unlink"}
  BY <1>0, <1>4 DEF Safe, HandsRight, Unlinks
<1>5. QED
  BY <1>1, <1>2, <1>3, <1>4 DEF HalfCt, Pidless, StartLabels

\* The reaper waits, forgets the pipes, and records the exit: the record it closes is in no
\* hands that would mind.
LEMMA OrderedReaperSteps ==
  ASSUME Typed, Safe, Once, Ordered, NEW t, Threads = {t}, NEW p \in Pids, ReaperStep(p),
         UNCHANGED ioErrors
  PROVE  Ordered'
<1> USE DEF cache, disk, used, acks, Pidless
<1>0. /\ t \in Threads /\ pc \in [Threads -> Labels] /\ fr \in [Threads -> Frames] /\ fr[t] \in Frames
      /\ Fits(pc[t], fr[t]) /\ StateTyped
      /\ Agree /\ Housed /\ Family /\ Kept /\ Knows(pc[t], fr[t])
  BY DEF Typed, StepsFit, Ordered, Agree, Housed, Family, Kept, Knows
<1>a. ~IoFails
  BY <1>0 DEF IoFails, StateTyped
<1>b. \A q \in Pids : Fate(proc[q], proc'[q])
  BY <1>0, StepFates
<1>c. /\ UNCHANGED <<up, cacheSb, diskSb, usedSb, usedCt, pc, fr, ackSb, ackCt>> /\ up
      /\ reaper[p] # "none" /\ \A q \in Pids : q # p => reaper'[q] = reaper[q]
  BY <1>0 DEF ReaperStep, ReaperWait, ReaperIo, ReaperRecord, StateTyped
<1>d. \A q \in Pids : proc[q].st # "free" => proc[q].ct \in Containers
  BY <1>0 DEF Once, Begun, StateTyped
<1>1. CASE ReaperWait(p)
  <2>1. UNCHANGED <<cacheCt, diskCt>> /\ reaper'[p] = "io" /\ proc'[p].st = "dead"
    BY <1>0, <1>1 DEF ReaperWait, StateTyped, Processes
  <2>2. \A q \in Pids : q # p => proc'[q] = proc[q]
    BY <1>0, <1>1 DEF ReaperWait, StateTyped
  <2>3. Reaped'
    BY <1>0, <1>b, <1>c, <2>1, <2>2 DEF Family, Reaped, Starting, Fate
  <2>4. QED
    BY <1>b, <1>c, <2>1, <2>3, OrderedAside
<1>2. CASE ReaperIo(p)
  <2>1. UNCHANGED <<cacheCt, diskCt, proc>> /\ reaper[p] = "io" /\ reaper'[p] = "record"
    BY <1>0, <1>2 DEF ReaperIo, StateTyped
  <2>2. Reaped'
    BY <1>0, <1>c, <2>1 DEF Family, Reaped, Starting
  <2>3. QED
    BY <1>b, <1>c, <2>1, <2>2, OrderedAside
<1>3. CASE ReaperRecord(p) /\ ~OpenToReaper(proc[p].ct)
  <2>1. /\ UNCHANGED <<cacheCt, diskCt, proc>> /\ reaper'[p] = "none"
        /\ cacheCt[proc[p].ct].state # "Running"
    BY <1>0, <1>3 DEF ReaperRecord, OpenToReaper, StateTyped
  <2>2. Reaped'
    BY <1>0, <1>c, <2>1 DEF Family, Reaped, Starting
  <2>3. QED
    BY <1>b, <1>c, <2>1, <2>2, OrderedAside
<1>4. CASE ReaperRecord(p) /\ OpenToReaper(proc[p].ct)
  <2> DEFINE new == Exited(cacheCt[proc[p].ct], proc[p].code)
             ct  == proc[p].ct
  <2>1. /\ UNCHANGED proc /\ reaper' = [reaper EXCEPT ![p] = "none"] /\ reaper[p] = "record"
        /\ cacheCt[ct].state = "Running"
        /\ cacheCt' = [cacheCt EXCEPT ![ct] = new] /\ diskCt' = [diskCt EXCEPT ![ct] = new]
    BY <1>0, <1>4, <1>a DEF ReaperRecord, OpenToReaper
  <2>2. proc[p].st \in {"dead", "foreign"} /\ ct \in Containers
    BY <1>0, <1>d, <2>1 DEF Family, Reaped
  <2>3. /\ new.state = "Exited" /\ new.sandbox = cacheCt[ct].sandbox
        /\ new.code = proc[p].code /\ new.pid = cacheCt[ct].pid
    <3>1. cacheCt[ct] \in CtRecords /\ proc[p].code \in Codes
      BY <1>0, <2>2 DEF StateTyped, Processes
    <3>2. QED
      BY <3>1, RecordFields
  <2>4. diskCt[ct].state # "absent"
    BY <1>0, <2>1, <2>2 DEF Safe, VisibleIsDurable
  <2> HIDE DEF new, ct
  <2>5. /\ cacheCt'[ct] = new /\ diskCt'[ct] = new /\ reaper'[p] = "none"
        /\ \A c \in Containers : c # ct => cacheCt'[c] = cacheCt[c] /\ diskCt'[c] = diskCt[c]
    BY <1>0, <2>1, <2>2 DEF StateTyped
  <2>6. diskCt[ct].sandbox = cacheCt[ct].sandbox \/ (pc[t] \in HalfCt /\ fr[t].ct = ct)
    BY <1>0, <2>1, <2>2 DEF Agree, CtAgree
  <2>7. pc[t] \in HalfCt \cup Pidless \cup {"st_intent"} => fr[t].ct # ct
    BY <2>1, ReaperAlone DEF ct
  <2>8. Knows(pc[t], fr[t])'
    <3>1. SbHands(pc[t], fr[t])'
      BY <1>0, <1>c DEF Knows, SbHands
    <3>2. CtHands(pc[t], fr[t])'
      <4>1. CASE fr[t].ct = ct
        BY <1>0, <1>c, <2>1, <2>3, <2>5, <2>7, <4>1
           DEF Knows, CtHands, HalfCt, Pidless, StopLabels, RemLabels
      <4>2. CASE fr[t].ct # ct
        <5>1. CtHands(pc[t], fr[t])
          BY <1>0 DEF Knows
        <5>2. cacheCt'[fr[t].ct] = cacheCt[fr[t].ct] /\ diskCt'[fr[t].ct] = diskCt[fr[t].ct]
          BY <1>0, <1>c, <2>1, <2>5, <4>2
        <5>3. QED
          BY <1>c, <5>1, <5>2, <4>2 DEF CtHands
      <4>3. QED
        BY <4>1, <4>2
    <3>3. Gathered(pc[t], fr[t])'
      BY <1>0, <1>c, <2>1, <2>3, <2>5 DEF Knows, Gathered, ContainersOf
    <3>4. ChildHands(pc[t], fr[t])'
      BY <1>0, <1>c, <2>1, <2>5 DEF Knows, ChildHands, NoReaperOf, NoLiveChild
    <3>5. Withdrawn(pc[t], fr[t])'
      BY <1>0, <1>c, <2>3, <2>5 DEF Knows, Withdrawn, Frames
    <3>6. QED
      BY <3>1, <3>2, <3>3, <3>4, <3>5 DEF Knows
  <2>9. Agree'
    BY <1>0, <1>c, <2>3, <2>5, <2>8 DEF Agree, SbAgree, CtAgree, PidKnown, Knows
  <2>10. Housed'
    BY <1>0, <1>c, <2>1, <2>3, <2>4, <2>5, <2>6, <2>7, <2>8 DEF Housed, NoOrphanContainer, Knows
  <2>11. Kept'
    BY <1>0, <1>c, <2>3, <2>4, <2>5, <2>8 DEF Kept, Durable, Knows
  <2>12. ChildIsTracked'
    <3>1. \A q \in Pids : proc[q].st = "live" => proc[q].ct # ct
      BY <2>2 DEF Once, SpawnedOnce, ct
    <3>2. QED
      BY <1>0, <1>c, <1>d, <2>1, <2>5, <3>1 DEF Family, ChildIsTracked, Starting
  <2>13. Reaped'
    BY <1>0, <1>c, <1>d, <2>1, <2>3, <2>5 DEF Family, Reaped, Starting, ct
  <2>14. \A c \in Containers : RealCode(c, cacheCt[c])' /\ RealCode(c, diskCt[c])'
    BY <1>0, <2>1, <2>2, <2>3, <2>5 DEF Family, RealCode, ct
  <2>15. QED
    BY <1>0, <2>8, <2>9, <2>10, <2>11, <2>12, <2>13, <2>14 DEF Ordered, Family, Knows
<1>5. QED
  BY <1>1, <1>2, <1>3, <1>4 DEF ReaperStep


\* What `open` makes of a record.
LEMMA RecoveredFields ==
  ASSUME StateTyped, NEW rec \in CtRecords
  PROVE  /\ Recovered(rec) \in CtRecords /\ Recovered(rec).sandbox = rec.sandbox
         /\ Recovered(rec).state \in {rec.state, "Exited"}
         /\ Recovered(rec).state = "absent" <=> rec.state = "absent"
         /\ Recovered(rec).state = "Running" => Recovered(rec).pid \in Pids
         /\ Recovered(rec) = rec \/ Recovered(rec).code = LostExit
<1>1. /\ Exited(rec, LostExit).state = "Exited" /\ Exited(rec, LostExit).sandbox = rec.sandbox
      /\ Exited(rec, LostExit).code = LostExit /\ Exited(rec, LostExit) \in CtRecords
  BY RecordFields DEF LostExit, Codes
<1>2. rec.pid \in Pids \cup {0}
  BY DEF CtRecords
<1>3. CASE rec.state = "Running" /\ (rec.pid \in Pids => ~PidAlive(proc[rec.pid]))
  BY <1>1, <1>3 DEF Recovered
<1>4. CASE ~(rec.state = "Running" /\ (rec.pid \in Pids => ~PidAlive(proc[rec.pid])))
  BY <1>4 DEF Recovered
<1>5. QED
  BY <1>3, <1>4

\* Programs and the kernel, a crash, and `open`, which closes the Running records that name
\* no process.
LEMMA OrderedEnvironment ==
  ASSUME Typed, Safe, Safe', Once, Ordered, NEW t, Threads = {t}, Environment,
         UNCHANGED ioErrors
  PROVE  Ordered'
<1> USE DEF cache, disk, used, acks, HalfSb, HalfCt, Pidless
<1>0. /\ t \in Threads /\ pc \in [Threads -> Labels] /\ fr \in [Threads -> Frames] /\ fr[t] \in Frames
      /\ Fits(pc[t], fr[t]) /\ StateTyped
      /\ Agree /\ Housed /\ Family /\ Kept /\ Knows(pc[t], fr[t])
  BY DEF Typed, StepsFit, Ordered, Agree, Housed, Family, Kept, Knows
<1>a. ~IoFails
  BY <1>0 DEF IoFails, StateTyped
<1>b. \A q \in Pids : Fate(proc[q], proc'[q])
  BY <1>0, StepFates
<1>c. ~up => /\ pc[t] = "idle" /\ fr[t].op = "none" /\ \A p \in Pids : ~proc[p].child
  BY <1>0 DEF Safe, DownIsIdle, Fits, Family, Reaped
<1>1. ASSUME NEW p \in Pids, ProcessExits(p) \/ PidReused(p) PROVE Ordered'
  <2>1. UNCHANGED <<up, cacheSb, cacheCt, diskSb, diskCt, usedSb, usedCt, pc, fr, ackSb, ackCt, reaper>>
    BY <1>1 DEF ProcessExits, PidReused
  <2>2. Reaped'
    BY <1>0, <1>b, <2>1 DEF Family, Reaped, Starting, Fate
  <2>3. QED
    BY <1>b, <2>1, <2>2, OrderedAside
<1>2. CASE Crash
  <2>1. /\ up' = FALSE /\ pc'[t] = "idle" /\ fr'[t] = IdleFrame
        /\ \A c \in Containers : cacheCt'[c].state = "absent"
        /\ \A p \in Pids : reaper'[p] = "none" /\ proc'[p] = Orphaned(proc[p])
        /\ UNCHANGED <<diskSb, diskCt, usedSb, usedCt, ackSb, ackCt>>
    BY <1>0, <1>2 DEF Crash, Absent
  <2>2. \A p \in Pids : ~proc'[p].child
    BY <1>0, <2>1, Fates DEF StateTyped
  <2>3. Knows(pc[t], fr[t])'
    BY <2>1, IdleKnows DEF IdleFrame
  <2>4. Agree'
    BY <1>0, <2>1, <2>3 DEF Agree, SbAgree, CtAgree, PidKnown, Knows
  <2>5. Housed'
    BY <1>0, <2>1, <2>3 DEF Housed, NoOrphanContainer, Knows
  <2>6. Kept'
    BY <1>0, <2>1, <2>3, KeptMoves
  <2>7. ChildIsTracked' /\ Reaped'
    BY <2>1, <2>2 DEF ChildIsTracked, Reaped
  <2>8. \A c \in Containers : RealCode(c, cacheCt[c])' /\ RealCode(c, diskCt[c])'
    BY <1>0, <1>b, <2>1 DEF Family, RealCode, Fate
  <2>9. QED
    BY <1>0, <2>3, <2>4, <2>5, <2>6, <2>7, <2>8 DEF Ordered, Family, Knows
<1>3. CASE Opened
  <2>1. /\ ~up /\ up' = TRUE /\ \A s \in Sandboxes : cacheSb'[s] = diskSb[s]
        /\ \A c \in Containers : diskCt[c].state # "absent" => cacheCt[c].state # "absent"
        /\ UNCHANGED <<diskSb, cacheCt, diskCt, usedSb, usedCt, ackSb, ackCt, proc, reaper, pc, fr>>
    BY <1>3 DEF Opened
  <2>2. Knows(pc[t], fr[t])'
    BY <1>c, <2>1, IdleKnows
  <2>3. Agree'
    BY <1>0, <1>c, <2>1, <2>2 DEF Agree, SbAgree, CtAgree, PidKnown, Knows
  <2>4. \A c \in Containers : cacheCt[c].state # "absent" => cacheCt[c] = diskCt[c]
    BY <1>0, <1>c, <2>1 DEF Agree, CtAgree
  <2>5. Housed'
    BY <1>0, <2>1, <2>2, <2>4 DEF Housed, NoOrphanContainer, Knows
  <2>6. Kept'
    BY <1>0, <2>1, <2>2, KeptMoves
  <2>7. ChildIsTracked' /\ Reaped'
    BY <1>0, <1>c, <2>1 DEF Family, ChildIsTracked, Reaped
  <2>8. \A c \in Containers : RealCode(c, cacheCt[c])' /\ RealCode(c, diskCt[c])'
    BY <1>0, <2>1 DEF Family, RealCode
  <2>9. QED
    BY <1>0, <2>2, <2>3, <2>5, <2>6, <2>7, <2>8 DEF Ordered, Family, Knows
<1>4. ASSUME NEW c \in Containers, OpenContainer(c) PROVE Ordered'
  <2> DEFINE new == Recovered(diskCt[c])
  <2>1. /\ ~up /\ ~up' /\ cacheCt[c].state = "absent" /\ diskCt[c].state # "absent"
        /\ cacheCt' = [cacheCt EXCEPT ![c] = new] /\ diskCt' = [diskCt EXCEPT ![c] = new]
        /\ UNCHANGED <<cacheSb, diskSb, usedSb, usedCt, ackSb, ackCt, proc, reaper, pc, fr>>
    BY <1>4, <1>a DEF OpenContainer
  <2>2. /\ new.sandbox = diskCt[c].sandbox /\ new.state \in {diskCt[c].state, "Exited"}
        /\ new.state = "Running" => new.pid \in Pids
        /\ new = diskCt[c] \/ new.code = LostExit
    BY <1>0, RecoveredFields DEF StateTyped
  <2> HIDE DEF new
  <2>3. /\ cacheCt'[c] = new /\ diskCt'[c] = new
        /\ \A d \in Containers : d # c => cacheCt'[d] = cacheCt[d] /\ diskCt'[d] = diskCt[d]
    BY <1>0, <2>1 DEF StateTyped
  <2>4. Knows(pc[t], fr[t])'
    BY <1>c, <2>1, IdleKnows
  <2>5. 0 \notin Pids
    BY ConstantsOK
  <2>6. Agree'
    BY <1>0, <1>c, <2>1, <2>2, <2>3, <2>4, <2>5 DEF Agree, SbAgree, CtAgree, PidKnown, Knows
  <2>7. Housed'
    BY <1>0, <2>1, <2>2, <2>3, <2>4 DEF Housed, NoOrphanContainer, Knows
  <2>8. Kept'
    BY <1>0, <2>1, <2>2, <2>3, <2>4 DEF Kept, Durable, Knows
  <2>9. ChildIsTracked' /\ Reaped'
    BY <1>0, <1>c, <2>1 DEF Family, ChildIsTracked, Reaped
  <2>10. \A d \in Containers : RealCode(d, cacheCt[d])' /\ RealCode(d, diskCt[d])'
    BY <1>0, <2>1, <2>2, <2>3 DEF Family, RealCode
  <2>11. QED
    BY <1>0, <2>4, <2>6, <2>7, <2>8, <2>9, <2>10 DEF Ordered, Family, Knows
<1>5. QED
  BY <1>1, <1>2, <1>3, <1>4 DEF Environment

\* A call that begins withdraws what its client may no longer rely on.
LEMMA OrderedCalls ==
  ASSUME Typed, Ordered, NEW t, Threads = {t}, Calls(t)
  PROVE  Ordered'
<1> USE DEF cache, disk, used, acks, HalfSb, HalfCt, Pidless
<1>0. /\ t \in Threads /\ StateTyped /\ Fits(pc[t], fr[t])
      /\ Agree /\ Housed /\ Family /\ Kept /\ Knows(pc[t], fr[t])
  BY DEF Typed, StepsFit, Ordered, Agree, Housed, Family, Kept, Knows
<1>1. /\ up /\ pc[t] = "idle" /\ fr'[t].todo = {} /\ fr'[t].from = "client" /\ fr'[t].pid = 0
      /\ UNCHANGED <<up, cacheSb, cacheCt, diskSb, diskCt, proc, reaper>>
      /\ pc'[t] \in {"run_write", "ss_mark", "cc_check", "st_check", "sc_check", "rc_check"}
      /\ pc'[t] \in {"sc_check", "rc_check"} => fr'[t].op \in {"StopContainer", "RemoveContainer"}
    BY <1>0, CallFrame
<1>2. StartGoesOn(t)
  BY <1>0, <1>1 DEF StartGoesOn, Fits
<1>3. /\ usedSb \subseteq usedSb' /\ usedCt \subseteq usedCt'
      /\ \A s \in Sandboxes : ackSb'[s] \subseteq ackSb[s]
      /\ \A c \in Containers : ackCt'[c] \subseteq ackCt[c]
  <2>1. UNCHANGED ackSb \/ ackSb' = [ackSb EXCEPT ![fr'[t].sb] = @ \ {"exists"}]
    BY <1>0, CallFrame
  <2>2. \/ UNCHANGED ackCt
        \/ ackCt' = [ackCt EXCEPT ![fr'[t].ct] = @ \ {"stopped"}]
        \/ ackCt' = [ackCt EXCEPT ![fr'[t].ct] = @ \ {"exists"}]
        \/ ackCt' = [c \in Containers |-> IF cacheCt[c].sandbox = fr'[t].sb
                                           THEN ackCt[c] \ {"exists"} ELSE ackCt[c]]
    BY <1>0, CallFrame
  <2>3. \A s \in Sandboxes : ackSb'[s] \subseteq ackSb[s]
    BY <1>0, <2>1 DEF StateTyped
  <2>4. \A c \in Containers : ackCt'[c] \subseteq ackCt[c]
    BY <1>0, <2>2 DEF StateTyped
  <2>5. usedSb \subseteq usedSb' /\ usedCt \subseteq usedCt'
    BY <1>0, CallFrame
  <2>6. QED
    BY <2>3, <2>4, <2>5
<1>4. Withdrawn(pc[t], fr[t])'
  <2>1. fr'[t].op = "RunSandbox" => ackSb'[fr'[t].sb] = {}
    BY <1>0, <1>3, CallFrame DEF Kept
  <2>2. fr'[t].op = "CreateContainer" => ackCt'[fr'[t].ct] = {}
    BY <1>0, <1>3, CallFrame DEF Kept
  <2>3. fr'[t].op = "RemoveSandbox" =>
          /\ "exists" \notin ackSb'[fr'[t].sb]
          /\ \A c \in Containers : c \in fr'[t].todo \/ cacheCt'[c].sandbox = fr'[t].sb =>
                                     "exists" \notin ackCt'[c]
    <3>1. ASSUME fr'[t].op = "RemoveSandbox"
          PROVE  /\ fr'[t].sb \in Sandboxes
                 /\ ackSb' = [ackSb EXCEPT ![fr'[t].sb] = @ \ {"exists"}]
                 /\ ackCt' = [c \in Containers |-> IF cacheCt[c].sandbox = fr'[t].sb
                                                   THEN ackCt[c] \ {"exists"} ELSE ackCt[c]]
      BY <1>0, <3>1, CallFrame DEF KnownSb, StateTyped
    <3>2. QED
      BY <1>0, <1>1, <3>1 DEF StateTyped
  <2>4. fr'[t].op = "RemoveContainer" => "exists" \notin ackCt'[fr'[t].ct]
    <3>1. ASSUME fr'[t].op = "RemoveContainer"
          PROVE  fr'[t].ct \in Containers /\ ackCt' = [ackCt EXCEPT ![fr'[t].ct] = @ \ {"exists"}]
      BY <1>0, <3>1, CallFrame DEF KnownCt, StateTyped
    <3>2. QED
      BY <1>0, <3>1 DEF StateTyped
  <2>5. QED
    BY <1>1, <2>1, <2>2, <2>3, <2>4 DEF Withdrawn, StopLabels, RemLabels
<1>5. Knows(pc[t], fr[t])'
  <2>1. SbHands(pc[t], fr[t])' /\ CtHands(pc[t], fr[t])'
    BY <1>1 DEF SbHands, CtHands, RemSbLabels, StopLabels, RemLabels
  <2>2. Gathered(pc[t], fr[t])' /\ ChildHands(pc[t], fr[t])'
    BY <1>1 DEF Gathered, ChildHands, StartLabels, StopLabels, RemLabels
  <2>3. QED
    BY <1>4, <2>1, <2>2 DEF Knows
<1>6. Agree' /\ Housed' /\ Family'
  BY <1>0, <1>1, <1>2, <1>5, AgreeMoves, HousedMoves, FamilyMoves
<1>7. Kept'
  <2>1. Durable'
    BY <1>0, <1>1, <1>3 DEF Kept, Durable
  <2>2. (\A s \in Sandboxes : s \notin usedSb => ackSb[s] = {})'
    BY <1>0, <1>3 DEF Kept
  <2>3. (\A c \in Containers : c \notin usedCt => ackCt[c] = {})'
    BY <1>0, <1>3 DEF Kept
  <2>4. QED
    BY <1>0, <1>4, <2>1, <2>2, <2>3 DEF Kept
<1>8. QED
  BY <1>6, <1>7 DEF Ordered

\* A server that starts on an empty directory is in order.
LEMMA OrderedInit == ASSUME Init PROVE Ordered
<1> USE DEF Init, IdleFrame, Absent, NoProcess
<1>1. \A t \in Threads : pc[t] = "idle" /\ fr[t].op = "none"
  OBVIOUS
<1>2. Agree
  BY <1>1 DEF Agree, SbAgree, CtAgree, SbHands, CtHands, PidKnown, RemSbLabels, StopLabels, RemLabels
<1>3. Housed
  BY <1>1 DEF Housed, NoOrphanContainer, Gathered, StopLabels, RemLabels
<1>4. Family
  BY <1>1 DEF Family, ChildIsTracked, Reaped, RealCode, ChildHands, StartLabels
<1>5. Kept
  BY <1>1 DEF Kept, Durable, Withdrawn, StopLabels, RemLabels
<1>6. QED
  BY <1>2, <1>3, <1>4, <1>5 DEF Ordered

\* Every step that fails no file operation.
LEMMA OrderedNext ==
  ASSUME Typed, Typed', Safe, Safe', Once, Ordered, NEW t, Threads = {t}, [Next]_vars,
         UNCHANGED ioErrors
  PROVE  Ordered'
<1>1. CASE UNCHANGED vars
  <2>1. UNCHANGED <<up, cacheSb, cacheCt, diskSb, diskCt, usedSb, usedCt, pc, fr, ackSb, ackCt, proc, reaper>>
    BY <1>1 DEF vars, cache, disk, used, acks
  <2>2. /\ \A p \in Pids : Fate(proc[p], proc'[p])
        /\ \A p \in Pids : reaper'[p] # "none" => reaper[p] # "none"
    BY <2>1, Fates DEF Typed, StateTyped
  <2>3. Reaped'
    BY <2>1 DEF Ordered, Family, Reaped, Starting
  <2>4. QED
    BY <2>1, <2>2, <2>3, OrderedAside
<1>2. CASE Calls(t)
  BY <1>2, OrderedCalls
<1>3. CASE SandboxSteps(t)
  BY <1>3, OrderedSandboxSteps
<1>4. CASE StartSteps(t)
  BY <1>4, OrderedCreateSteps, OrderedStartSteps, OrderedPidSteps DEF StartSteps
<1>5. CASE StopSteps(t)
  BY <1>5, OrderedStopSteps
<1>6. CASE \E p \in Pids : ReaperStep(p)
  BY <1>6, OrderedReaperSteps
<1>7. CASE Environment
  BY <1>7, OrderedEnvironment
<1>8. QED
  BY <1>1, <1>2, <1>3, <1>4, <1>5, <1>6, <1>7 DEF Next, ThreadStep

\* A failed file operation is not forgotten.
LEMMA ErrorsStay == ASSUME Typed, [Next]_vars PROVE ioErrors' = 0 => UNCHANGED ioErrors
<1> USE DEF IoFails, IoWorks, IoErrorReturn
<1>0. ioErrors \in Nat
  BY DEF Typed, StateTyped
<1>1. ASSUME NEW t \in Threads, Calls(t) PROVE UNCHANGED ioErrors
  BY <1>1 DEF Calls, CallRunSandbox, CallStopSandbox, CallRemoveSandbox, CallCreateContainer,
     CallStartContainer, CallStopContainer, CallRemoveContainer, Call
<1>2. ASSUME NEW t \in Threads, SandboxSteps(t) PROVE ioErrors' \in {ioErrors, ioErrors + 1}
  BY <1>2 DEF SandboxSteps, RunWrite, RunInsert, StopSandboxMark, StopSandboxWrite,
     RemoveSandboxScan, RemoveSandboxNext, RemoveSandboxDrop, RemoveSandboxUnlink
<1>3. ASSUME NEW t \in Threads, StartSteps(t) PROVE ioErrors' \in {ioErrors, ioErrors + 1}
  BY <1>3 DEF StartSteps, CreateCheck, CreateWrite, CreateInsert, StartCheck, StartIntent,
     StartIntentWrite, StartSpawn, StartFailed, StartFailedWrite, StartIo, StartPid, StartPidWrite
<1>4. ASSUME NEW t \in Threads, StopSteps(t) PROVE ioErrors' \in {ioErrors, ioErrors + 1}
  BY <1>4 DEF StopSteps, StopCheck, StopTerm, StopGrace, StopKill, StopWait, StopMark,
     StopMarkWrite, RemoveCheck, RemoveDrop, RemoveIo, RemoveUnlink
<1>5. ASSUME NEW p \in Pids, ReaperStep(p) PROVE ioErrors' \in {ioErrors, ioErrors + 1}
  BY <1>5 DEF ReaperStep, ReaperWait, ReaperIo, ReaperRecord
<1>6. CASE Environment
  BY <1>0, <1>6 DEF Environment, Crash, Opened, OpenContainer, ProcessExits, PidReused
<1>7. CASE UNCHANGED vars
  BY <1>7 DEF vars
<1>8. QED
  BY <1>0, <1>1, <1>2, <1>3, <1>4, <1>5, <1>6, <1>7 DEF Next, ThreadStep

\* The inductive invariant of one caller: spawned once whatever fails, and in order until
\* something does.
LEMMA AlwaysOrdered ==
  ASSUME NEW t, Threads = {t}
  PROVE  Spec => [](Typed /\ Safe /\ Once /\ OrderedYet)
<1>1. Spec => []Typed
  BY AlwaysTyped
<1>2. Init => Safe /\ Once /\ OrderedYet
  BY SafeInit, OnceInit, OrderedInit DEF OrderedYet
<1>3. Typed /\ Typed' /\ Safe /\ Once /\ OrderedYet /\ [Next]_vars => Safe' /\ Once' /\ OrderedYet'
  <2>1. SUFFICES ASSUME Typed, Typed', Safe, Once, OrderedYet, [Next]_vars
                 PROVE  Safe' /\ Once' /\ OrderedYet'
    OBVIOUS
  <2>2. Safe' /\ Once'
    BY <2>1, SafeStep, OnceStep
  <2>3. ASSUME ioErrors' = 0 PROVE Ordered'
    BY <2>1, <2>2, <2>3, ErrorsStay, OrderedNext DEF OrderedYet
  <2>4. QED
    BY <2>2, <2>3 DEF OrderedYet
<1>4. QED
  BY <1>1, <1>2, <1>3, PTL DEF Spec

\* The crash-only law for calls that come one at a time: what a call that returned Ok has
\* done is on disk, so no crash takes it back, until a file operation fails.
THEOREM DoneIsDurable ==
  ASSUME NEW t, Threads = {t} PROVE Spec => [](ioErrors = 0 => Durable)
<1>1. OrderedYet => (ioErrors = 0 => Durable)
  BY DEF OrderedYet, Ordered, Kept
<1>2. QED
  BY <1>1, AlwaysOrdered, PTL

\* remove_sandbox takes every container of the sandbox before the sandbox: on disk and in
\* the cache no container is left without its sandbox.
THEOREM ContainersAreHoused ==
  ASSUME NEW t, Threads = {t} PROVE Spec => [](ioErrors = 0 => NoOrphanContainer)
<1>1. OrderedYet => (ioErrors = 0 => NoOrphanContainer)
  BY DEF OrderedYet, Ordered, Housed
<1>2. QED
  BY <1>1, AlwaysOrdered, PTL

\* A live child of the server is in the cache under its pid, or in the hands of the
\* start_container that spawned it: none is forgotten by a stop or a removal.
THEOREM ChildrenAreTracked ==
  ASSUME NEW t, Threads = {t} PROVE Spec => [](ioErrors = 0 => ChildIsTracked)
<1>1. OrderedYet => (ioErrors = 0 => ChildIsTracked)
  BY DEF OrderedYet, Ordered, Family
<1>2. QED
  BY <1>1, AlwaysOrdered, PTL

\* An exit code the reaper records is how a process of that container ended, whatever has
\* since become of its pid.
THEOREM CodesAreReal ==
  ASSUME NEW t, Threads = {t} PROVE Spec => [](ioErrors = 0 => ExitCodeIsReal)
<1>1. OrderedYet => (ioErrors = 0 => ExitCodeIsReal)
  BY DEF OrderedYet, Ordered, Family, RealCode, ExitCodeIsReal
<1>2. QED
  BY <1>1, AlwaysOrdered, PTL


-----------------------------------------------------------------------------
(* A stop that returned Ok has stopped the child, if 5 s suffice for a reaper. *)

Halted ==
  /\ \A t \in Threads : fr[t].op = "StartContainer" =>
       fr[t].ct \in Containers /\ "stopped" \notin ackCt[fr[t].ct]
  /\ StopStopsChild

HaltedYet == ioErrors = 0 => Halted

\* A step that has no new child, stop or running record.
LEMMA HaltedKeeps ==
  ASSUME Typed, Once, Ordered, Halted, NEW t, Threads = {t},
         fr'[t].op = "StartContainer" => fr[t].op = "StartContainer" /\ fr'[t].ct = fr[t].ct,
         \A p \in Pids : proc'[p].child => proc[p].child /\ proc'[p].ct = proc[p].ct,
         \A c \in Containers :
           /\ "stopped" \in ackCt'[c] => "stopped" \in ackCt[c]
           /\ cacheCt'[c].state = "Running" =>
                cacheCt[c].state = "Running" \/ "stopped" \notin ackCt'[c]
  PROVE  Halted'
<1>1. \A p \in Pids : proc[p].child => proc[p].ct \in Containers
  BY DEF Ordered, Family, Reaped, Once, Begun, Typed, StateTyped
<1>2. StopStopsChild'
  BY <1>1 DEF Halted, StopStopsChild
<1>3. QED
  BY <1>2 DEF Halted

\* stop_container returns to its client: the record is closed, or nobody will close it.
LEMMA HaltedStopped ==
  ASSUME Typed, Once, Ordered, Halted, NEW t, Threads = {t}, ContainerStopped(t),
         fr[t].ct \in Containers, fr[t].op # "StartContainer",
         UNCHANGED <<proc, cacheCt>>,
         \A p \in Pids : proc[p].child /\ proc[p].ct = fr[t].ct => cacheCt[fr[t].ct].state # "Running"
  PROVE  Halted'
<1>0. StateTyped /\ pc \in [Threads -> Labels] /\ fr \in [Threads -> Frames]
  BY DEF Typed, StepsFit
<1>1. CASE fr[t].from = "client"
  <2>1. /\ fr'[t].op # "StartContainer"
        /\ ackCt' = [ackCt EXCEPT ![fr[t].ct] = Learn(ackCt[fr[t].ct], "stopped")]
    BY <1>0, <1>1 DEF ContainerStopped, Return, IdleFrame, AckCt
  <2>2. \A c \in Containers : c # fr[t].ct => ackCt'[c] = ackCt[c]
    BY <1>0, <2>1 DEF StateTyped
  <2>3. \A p \in Pids : proc[p].child => proc[p].ct \in Containers
    BY DEF Ordered, Family, Reaped, Once, Begun, Typed, StateTyped
  <2>4. StopStopsChild'
    BY <2>2, <2>3 DEF Halted, StopStopsChild
  <2>5. QED
    BY <2>1, <2>4 DEF Halted
<1>2. CASE fr[t].from # "client"
  <2>1. UNCHANGED <<fr, ackCt>>
    BY <1>2 DEF ContainerStopped, acks
  <2>2. QED
    BY <2>1, HaltedKeeps
<1>3. QED
  BY <1>1, <1>2

\* start_container: its client no longer counts the container as stopped.
LEMMA HaltedStartSteps ==
  ASSUME Typed, Once, Ordered, Halted, NEW t, Threads = {t}, StartSteps(t)
  PROVE  Halted'
<1> USE DEF At, cache, disk, used, acks, Goto, CreateLabels, StartLabels, IoErrorReturn
<1>0. /\ t \in Threads /\ pc \in [Threads -> Labels] /\ fr \in [Threads -> Frames] /\ fr[t] \in Frames
      /\ Fits(pc[t], fr[t]) /\ StateTyped
  BY DEF Typed, StepsFit
<1>a. IdleFrame.op = "none"
  BY DEF IdleFrame
<1>b. pc[t] \in CreateLabels \cup StartLabels /\ fr[t].ct \in Containers
  <2>1. pc[t] \in CreateLabels \cup StartLabels
    BY DEF StartSteps, CreateCheck, CreateWrite, CreateInsert, StartCheck, StartIntent,
       StartIntentWrite, StartSpawn, StartFailed, StartFailedWrite, StartIo, StartPid, StartPidWrite
  <2>2. QED
    BY <1>0, <2>1 DEF Fits
<1>1. CASE CreateCheck(t) \/ CreateWrite(t) \/ StartCheck(t) \/ StartIntentWrite(t)
           \/ StartFailedWrite(t) \/ StartIo(t)
  <2>1. /\ UNCHANGED <<proc, cacheCt, ackCt>>
        /\ UNCHANGED fr \/ fr'[t] = IdleFrame
    BY <1>0, <1>1 DEF CreateCheck, CreateWrite, StartCheck, StartIntentWrite, StartFailedWrite,
       StartIo, Return
  <2>2. QED
    BY <1>a, <1>b, <2>1, HaltedKeeps
<1>2. CASE CreateInsert(t)
  <2>1. /\ UNCHANGED proc /\ fr'[t] = IdleFrame
        /\ cacheCt' = [cacheCt EXCEPT ![fr[t].ct] = NewRecord(fr[t].sb)]
        /\ ackCt' = [ackCt EXCEPT ![fr[t].ct] = Learn(ackCt[fr[t].ct], "exists")]
    BY <1>0, <1>2 DEF CreateInsert, Return, AckCt
  <2>2. "stopped" \in Learn(ackCt[fr[t].ct], "exists") => "stopped" \in ackCt[fr[t].ct]
    BY DEF Learn
  <2>3. NewRecord(fr[t].sb).state = "Created"
    BY DEF NewRecord
  <2>4. \A c \in Containers :
          /\ "stopped" \in ackCt'[c] => "stopped" \in ackCt[c]
          /\ cacheCt'[c].state = "Running" => cacheCt[c].state = "Running"
    BY <1>0, <2>1, <2>2, <2>3 DEF StateTyped
  <2>5. QED
    BY <1>a, <1>b, <2>1, <2>4, HaltedKeeps
<1>3. CASE StartIntent(t) \/ StartFailed(t) \/ StartPid(t)
  <2>1. /\ UNCHANGED <<proc, ackCt>> /\ fr[t].op = "StartContainer"
        /\ \A c \in Containers : c # fr[t].ct => cacheCt'[c] = cacheCt[c]
    BY <1>0, <1>3 DEF StartIntent, StartFailed, StartPid, Fits, StateTyped
  <2>2. fr'[t] = IdleFrame \/ fr'[t].ct = fr[t].ct
    <3>1. UNCHANGED fr \/ fr'[t] = IdleFrame \/ \E r : fr' = [fr EXCEPT ![t].rec = r]
      BY <1>0, <1>3 DEF StartIntent, StartFailed, StartPid, Return
    <3>2. QED
      BY <1>0, <3>1 DEF Frames
  <2>3. "stopped" \notin ackCt[fr[t].ct]
    BY <1>0, <2>1 DEF Halted
  <2>4. QED
    BY <1>a, <1>b, <2>1, <2>2, <2>3, HaltedKeeps
<1>4. CASE StartSpawn(t)
  <2>1. /\ UNCHANGED <<cacheCt, ackCt>> /\ fr[t].op = "StartContainer"
    BY <1>0, <1>4 DEF StartSpawn, Fits
  <2>2. "stopped" \notin ackCt[fr[t].ct]
    BY <1>0, <2>1 DEF Halted
  <2>3. CASE UNCHANGED <<proc, fr>>
    BY <1>b, <2>1, <2>3, HaltedKeeps
  <2>4. ASSUME NEW p \in Pids, proc' = [proc EXCEPT ![p] = Spawned(fr[t].ct)],
               fr' = [fr EXCEPT ![t].pid = p]
        PROVE  Halted'
    <3>1. fr'[t].ct = fr[t].ct
      BY <1>0, <2>4 DEF Frames
    <3>2. proc'[p].ct = fr[t].ct /\ \A q \in Pids : q # p => proc'[q] = proc[q]
      BY <1>0, <2>4 DEF StateTyped, Spawned
    <3>3. StopStopsChild'
      BY <2>1, <2>2, <3>2 DEF Halted, StopStopsChild
    <3>4. QED
      BY <2>1, <2>2, <3>1, <3>3 DEF Halted
  <2>5. QED
    BY <1>0, <1>4, <2>3, <2>4 DEF StartSpawn
<1>5. CASE StartPidWrite(t)
  <2>1. /\ UNCHANGED <<proc, cacheCt>> /\ fr'[t] = IdleFrame
        /\ \/ UNCHANGED ackCt
           \/ ackCt' = [ackCt EXCEPT ![fr[t].ct] = Learn(ackCt[fr[t].ct], "started")]
    BY <1>0, <1>5 DEF StartPidWrite, Return, AckCt
  <2>2. "stopped" \in Learn(ackCt[fr[t].ct], "started") => "stopped" \in ackCt[fr[t].ct]
    BY DEF Learn
  <2>3. \A c \in Containers : "stopped" \in ackCt'[c] => "stopped" \in ackCt[c]
    BY <1>0, <2>1, <2>2 DEF StateTyped
  <2>4. QED
    BY <1>a, <1>b, <2>1, <2>3, HaltedKeeps
<1>6. QED
  BY <1>1, <1>2, <1>3, <1>4, <1>5 DEF StartSteps

\* stop_container and remove_container: a stop returns once its record is closed.
LEMMA HaltedStopSteps ==
  ASSUME Typed, Once, Ordered, Halted, NEW t, Threads = {t}, StopSteps(t), SlowReap = FALSE
  PROVE  Halted'
<1> USE DEF At, cache, disk, used, acks, Goto, StopLabels, RemLabels
<1>0. /\ t \in Threads /\ pc \in [Threads -> Labels] /\ fr \in [Threads -> Frames] /\ fr[t] \in Frames
      /\ Fits(pc[t], fr[t]) /\ StateTyped /\ Family /\ CtHands(pc[t], fr[t])
  BY DEF Typed, StepsFit, Ordered, Agree
<1>a. IdleFrame.op = "none"
  BY DEF IdleFrame
<1>b. /\ fr[t].op \in {"StopContainer", "RemoveContainer", "RemoveSandbox"}
      /\ fr[t].ct \in Containers /\ pc[t] \notin {"sc_mark", "sc_mark_write"}
  <2>1. pc[t] \in StopLabels \cup RemLabels
    BY DEF StopSteps, StopCheck, StopTerm, StopGrace, StopKill, StopWait, StopMark, StopMarkWrite,
           RemoveCheck, RemoveDrop, RemoveIo, RemoveUnlink
  <2>2. QED
    BY <1>0, <2>1 DEF Fits, CtHands
<1>c. \A p \in Pids : Fate(proc[p], proc'[p])
  BY <1>0, StepFates
<1>1. CASE ContainerStopped(t) /\ (StopCheck(t) \/ StopGrace(t) \/ StopWait(t))
           /\ (cacheCt[fr[t].ct].state # "Running" \/ ~WillBeReaped(fr[t].ct))
  <2>1. UNCHANGED <<proc, cacheCt>>
    BY <1>1 DEF StopCheck, StopGrace, StopWait
  <2>2. ASSUME NEW p \in Pids, proc[p].child, proc[p].ct = fr[t].ct
        PROVE  cacheCt[fr[t].ct].state # "Running"
    BY <1>0, <1>1, <2>2 DEF WillBeReaped, Family, Reaped, Starting
  <2>3. QED
    BY <1>1, <1>b, <2>1, <2>2, HaltedStopped
<1>2. CASE StopWait(t)
  BY <1>1, <1>2 DEF StopWait, NoLongerRunning
<1>3. CASE (StopCheck(t) /\ cacheCt[fr[t].ct].state # "Running")
           \/ (StopGrace(t) /\ NoLongerRunning(fr[t].ct))
  BY <1>1, <1>3 DEF StopCheck, StopGrace, NoLongerRunning
<1>4. ASSUME UNCHANGED ackCt \/ \E c : ackCt' = [ackCt EXCEPT ![c] = Learn(@, "gone")],
             fr'[t].op \in {fr[t].op, "none"},
             \A c \in Containers : cacheCt'[c].state = "Running" => cacheCt[c].state = "Running"
      PROVE  Halted'
  <2>1. \A c \in Containers : "stopped" \in ackCt'[c] => "stopped" \in ackCt[c]
    BY <1>0, <1>4 DEF StateTyped, Learn
  <2>2. \A p \in Pids : proc'[p].child => proc[p].child /\ proc'[p].ct = proc[p].ct
    BY <1>c DEF Fate
  <2>3. QED
    BY <1>4, <1>b, <2>1, <2>2, HaltedKeeps
<1>5. CASE StopCheck(t) /\ cacheCt[fr[t].ct].state = "Running"
  <2>1. UNCHANGED <<cacheCt, ackCt>> /\ (UNCHANGED fr \/ fr' = [fr EXCEPT ![t].pid = cacheCt[fr[t].ct].pid])
    BY <1>5 DEF StopCheck
  <2>2. fr'[t].op = fr[t].op
    BY <1>0, <2>1 DEF Frames
  <2>3. QED
    BY <1>4, <2>1, <2>2
<1>6. CASE (StopGrace(t) /\ ~NoLongerRunning(fr[t].ct)) \/ StopTerm(t) \/ StopKill(t) \/ RemoveIo(t)
  BY <1>4, <1>6 DEF StopGrace, StopTerm, StopKill, RemoveIo
<1>7. CASE RemoveCheck(t)
  <2>1. CASE StopsFirst(cacheCt[fr[t].ct])
    BY <1>0, <1>4, <1>7, <2>1, ForceFrame DEF RemoveCheck
  <2>2. CASE ~StopsFirst(cacheCt[fr[t].ct])
    BY <1>0, <1>4, <1>7, <1>a, <2>2 DEF RemoveCheck, ContainerRemoved, Return, AckCt
  <2>3. QED
    BY <2>1, <2>2
<1>8. CASE RemoveDrop(t)
  <2>1. UNCHANGED <<fr, ackCt>> /\ cacheCt' = [cacheCt EXCEPT ![fr[t].ct] = Absent]
    BY <1>8 DEF RemoveDrop
  <2>2. \A c \in Containers : cacheCt'[c].state = "Running" => cacheCt[c].state = "Running"
    BY <1>0, <2>1 DEF StateTyped, Absent
  <2>3. QED
    BY <1>4, <2>1, <2>2
<1>9. CASE RemoveUnlink(t)
  BY <1>0, <1>4, <1>9, <1>a DEF RemoveUnlink, ContainerRemoved, Return, AckCt
<1>10. ~StopMark(t) /\ ~StopMarkWrite(t)
  BY <1>b DEF StopMark, StopMarkWrite
<1>11. QED
  BY <1>2, <1>3, <1>5, <1>6, <1>7, <1>8, <1>9, <1>10 DEF StopSteps


\* A call that begins only withdraws facts; one that starts a container withdraws its stop.
LEMMA HaltedCalls ==
  ASSUME Typed, Once, Ordered, Halted, NEW t, Threads = {t}, Calls(t)
  PROVE  Halted'
<1> USE DEF cache, disk, used, acks
<1>0. t \in Threads /\ StateTyped
  BY DEF Typed
<1>1. UNCHANGED <<proc, cacheCt>>
  BY <1>0, CallFrame
<1>2. \A c \in Containers : "stopped" \in ackCt'[c] => "stopped" \in ackCt[c]
  <2>1. \/ UNCHANGED ackCt
        \/ \E c : ackCt' = [ackCt EXCEPT ![c] = @ \ {"stopped"}]
        \/ \E c : ackCt' = [ackCt EXCEPT ![c] = @ \ {"exists"}]
        \/ \E s : ackCt' = [c \in Containers |-> IF cacheCt[c].sandbox = s
                                                 THEN ackCt[c] \ {"exists"} ELSE ackCt[c]]
    BY <1>0, CallFrame
  <2>2. QED
    BY <1>0, <2>1 DEF StateTyped
<1>3. fr'[t].op = "StartContainer" =>
        fr'[t].ct \in Containers /\ "stopped" \notin ackCt'[fr'[t].ct]
  <2>1. ASSUME fr'[t].op = "StartContainer"
        PROVE  fr'[t].ct \in Containers /\ ackCt' = [ackCt EXCEPT ![fr'[t].ct] = @ \ {"stopped"}]
    BY <1>0, <2>1, CallFrame DEF KnownCt, StateTyped
  <2>2. QED
    BY <1>0, <2>1 DEF StateTyped
<1>4. \A p \in Pids : proc[p].child => proc[p].ct \in Containers
  BY DEF Ordered, Family, Reaped, Once, Begun, Typed, StateTyped
<1>5. StopStopsChild'
  BY <1>1, <1>2, <1>4 DEF Halted, StopStopsChild
<1>6. QED
  BY <1>3, <1>5 DEF Halted

\* Sandbox calls touch neither records of containers nor processes.
LEMMA HaltedSandboxSteps ==
  ASSUME Typed, Once, Ordered, Halted, NEW t, Threads = {t}, SandboxSteps(t)
  PROVE  Halted'
<1> USE DEF At, cache, disk, used, acks, Goto, IoErrorReturn, StopSbLabels, RemSbLabels
<1>0. /\ t \in Threads /\ pc \in [Threads -> Labels] /\ fr \in [Threads -> Frames] /\ fr[t] \in Frames
      /\ Fits(pc[t], fr[t]) /\ StateTyped
  BY DEF Typed, StepsFit
<1>a. IdleFrame.op = "none"
  BY DEF IdleFrame
<1>b. UNCHANGED <<proc, cacheCt>>
  BY DEF SandboxSteps, RunWrite, RunInsert, StopSandboxMark, StopSandboxWrite,
     RemoveSandboxScan, RemoveSandboxNext, RemoveSandboxDrop, RemoveSandboxUnlink
<1>c. UNCHANGED ackCt
  BY DEF SandboxSteps, RunWrite, RunInsert, StopSandboxMark, StopSandboxWrite,
     RemoveSandboxScan, RemoveSandboxNext, RemoveSandboxDrop, RemoveSandboxUnlink,
     SandboxStopped, AckSb
<1>d. fr[t].op # "StartContainer"
  <2>1. pc[t] \in RunLabels \cup StopSbLabels \cup RemSbLabels
    BY DEF SandboxSteps, RunWrite, RunInsert, StopSandboxMark, StopSandboxWrite,
       RemoveSandboxScan, RemoveSandboxNext, RemoveSandboxDrop, RemoveSandboxUnlink, RunLabels
  <2>2. QED
    BY <1>0, <2>1 DEF Fits
<1>2. fr'[t].op \in {"none", fr[t].op}
  <2>1. CASE RemoveSandboxNext(t)
    BY <1>0, <2>1, NextFrame
  <2>2. CASE RemoveSandboxScan(t)
    <3>1. fr'[t] = IdleFrame \/ fr' = [fr EXCEPT ![t].todo = ContainersOf(fr[t].sb)]
      BY <1>0, <2>2 DEF RemoveSandboxScan, Return
    <3>2. QED
      BY <1>0, <1>a, <3>1 DEF Frames
  <2>3. CASE RunWrite(t) \/ RunInsert(t) \/ StopSandboxMark(t) \/ StopSandboxWrite(t)
             \/ RemoveSandboxDrop(t) \/ RemoveSandboxUnlink(t)
    BY <1>0, <1>a, <2>3 DEF RunWrite, RunInsert, StopSandboxMark, StopSandboxWrite,
       RemoveSandboxDrop, RemoveSandboxUnlink, SandboxStopped, Return
  <2>4. QED
    BY <2>1, <2>2, <2>3 DEF SandboxSteps
<1>3. QED
  BY <1>b, <1>c, <1>d, <1>2, HaltedKeeps

\* A reaper closes records; a program, the kernel and `open` make no child of the server,
\* and a crash leaves it without any.
LEMMA HaltedAround ==
  ASSUME Typed, Once, Ordered, Halted, NEW t, Threads = {t},
         (\E p \in Pids : ReaperStep(p)) \/ Environment
  PROVE  Halted'
<1> USE DEF cache, disk, used, acks
<1>0. /\ t \in Threads /\ pc \in [Threads -> Labels] /\ fr \in [Threads -> Frames] /\ fr[t] \in Frames
      /\ Fits(pc[t], fr[t]) /\ StateTyped /\ Family
  BY DEF Typed, StepsFit, Ordered
<1>b. \A p \in Pids : proc'[p].child => proc[p].child /\ proc'[p].ct = proc[p].ct
  BY <1>0, StepFates DEF Fate
<1>1. ASSUME NEW p \in Pids, ReaperStep(p) PROVE Halted'
  <2>1. UNCHANGED <<fr, ackCt>>
    BY <1>1 DEF ReaperStep, ReaperWait, ReaperIo, ReaperRecord
  <2>2. UNCHANGED cacheCt
        \/ cacheCt' = [cacheCt EXCEPT ![proc[p].ct] = Exited(@, proc[p].code)]
    BY <1>1 DEF ReaperStep, ReaperWait, ReaperIo, ReaperRecord
  <2>3. \A rec \in CtRecords : Exited(rec, proc[p].code).state = "Exited"
    BY DEF Exited, CtRecords
  <2>4. \A c \in Containers : cacheCt'[c].state = "Running" => cacheCt[c].state = "Running"
    BY <1>0, <2>2, <2>3 DEF StateTyped
  <2>5. QED
    BY <1>b, <2>1, <2>4, HaltedKeeps
<1>2. ASSUME NEW p \in Pids, ProcessExits(p) \/ PidReused(p) PROVE Halted'
  <2>1. UNCHANGED <<fr, ackCt, cacheCt>>
    BY <1>2 DEF ProcessExits, PidReused
  <2>2. QED
    BY <1>b, <2>1, HaltedKeeps
<1>3. CASE Crash
  <2>1. \A p \in Pids : proc'[p] = Orphaned(proc[p]) /\ ~proc'[p].child
    BY <1>0, <1>3, Fates DEF Crash, StateTyped
  <2>2. fr'[t].op = "none"
    BY <1>0, <1>3 DEF Crash, IdleFrame
  <2>3. QED
    BY <2>1, <2>2 DEF Halted, StopStopsChild
<1>4. CASE Opened
  <2>1. UNCHANGED <<fr, ackCt, cacheCt>>
    BY <1>4 DEF Opened
  <2>2. QED
    BY <1>b, <2>1, HaltedKeeps
<1>5. ASSUME NEW c \in Containers, OpenContainer(c) PROVE Halted'
  <2>1. ~up /\ UNCHANGED <<fr, ackCt, proc>>
    BY <1>5 DEF OpenContainer
  <2>2. StopStopsChild'
    BY <1>0, <2>1 DEF Family, Reaped, StopStopsChild
  <2>3. QED
    BY <2>1, <2>2 DEF Halted
<1>6. QED
  BY <1>1, <1>2, <1>3, <1>4, <1>5 DEF Environment

\* Every step keeps what a stop has promised.
LEMMA HaltedNext ==
  ASSUME Typed, Once, Ordered, Halted, NEW t, Threads = {t}, [Next]_vars, SlowReap = FALSE
  PROVE  Halted'
<1>1. CASE UNCHANGED vars
  <2>1. UNCHANGED <<fr, ackCt, proc, cacheCt>>
    BY <1>1 DEF vars, cache, acks
  <2>2. QED
    BY <2>1 DEF Halted, StopStopsChild
<1>2. QED
  BY <1>1, HaltedCalls, HaltedSandboxSteps, HaltedStartSteps, HaltedStopSteps, HaltedAround
     DEF Next, ThreadStep

\* An Ok from stop_container means that the container of a child of this server is no longer
\* Running, if the 5 s after SIGKILL suffice for a reaper and no file operation has failed.
THEOREM StopsAreReal ==
  ASSUME NEW t, Threads = {t}, SlowReap = FALSE
  PROVE  Spec => [](ioErrors = 0 => StopStopsChild)
<1>1. Init => HaltedYet
  BY DEF Init, IdleFrame, NoProcess, HaltedYet, Halted, StopStopsChild
<1>2. Typed /\ Typed' /\ Once /\ OrderedYet /\ HaltedYet /\ [Next]_vars => HaltedYet'
  <2>1. SUFFICES ASSUME Typed, Typed', Once, OrderedYet, HaltedYet, [Next]_vars, ioErrors' = 0
                 PROVE  Halted'
    BY DEF HaltedYet
  <2>2. ioErrors = 0
    BY <2>1, ErrorsStay
  <2>3. QED
    BY <2>1, <2>2, HaltedNext DEF OrderedYet, HaltedYet
<1>3. HaltedYet => (ioErrors = 0 => StopStopsChild)
  BY DEF HaltedYet, Halted
<1>4. QED
  BY <1>1, <1>2, <1>3, AlwaysOrdered, PTL DEF Spec


-----------------------------------------------------------------------------
(* The disk obeys the State law: each file operation is one step of the law, *)
(* everything else is none.                                                  *)

LawCt == [c \in Containers |-> LawRecord(diskCt[c])]

LawSpent == {id \in usedSb \cup usedCt : ~Unwritten(id)}

\* No step of the law: the records are the same to it, and no id is spent.
LEMMA LawStutters ==
  ASSUME UNCHANGED diskSb, \A c \in Containers : LawRecord(diskCt'[c]) = LawRecord(diskCt[c]),
         LawSpent' = LawSpent
  PROVE  UNCHANGED Law!law
<1>1. LawCt' = LawCt
  BY DEF LawCt
<1>2. QED
  BY <1>1 DEF Law!law, LawCt, LawSpent

\* run_sandbox has written its record.
LEMMA LawRuns ==
  ASSUME NEW s \in Sandboxes, s \notin LawSpent, LawSpent' = LawSpent \cup {s},
         diskSb' = [diskSb EXCEPT ![s] = "Ready"], UNCHANGED diskCt
  PROVE  Law!Next
<1>1. LawCt' = LawCt
  BY DEF LawCt
<1>2. Law!RunSandbox(s)
  BY <1>1 DEF Law!RunSandbox, LawCt, LawSpent
<1>3. QED
  BY <1>2 DEF Law!Next

\* A call that ends without a record, or a crash, has wasted the id.
LEMMA LawWastes ==
  ASSUME NEW id \in Sandboxes \cup Containers, id \notin LawSpent,
         LawSpent' = LawSpent \cup {id}, UNCHANGED <<diskSb, diskCt>>
  PROVE  Law!Next
<1>1. LawCt' = LawCt
  BY DEF LawCt
<1>2. Law!Waste(id)
  BY <1>1 DEF Law!Waste, LawCt, LawSpent
<1>3. QED
  BY <1>2 DEF Law!Next

\* stop_sandbox has written its record.
LEMMA LawStopsSandbox ==
  ASSUME NEW s \in Sandboxes, diskSb[s] = "Ready", LawSpent' = LawSpent,
         diskSb' = [diskSb EXCEPT ![s] = "NotReady"], UNCHANGED diskCt
  PROVE  Law!Next
<1>1. LawCt' = LawCt
  BY DEF LawCt
<1>2. Law!StopSandbox(s)
  BY <1>1 DEF Law!StopSandbox, LawCt, LawSpent
<1>3. QED
  BY <1>2 DEF Law!Next

\* remove_sandbox has unlinked its record, after those of its containers.
LEMMA LawRemovesSandbox ==
  ASSUME NEW s \in Sandboxes, diskSb[s] = "NotReady", LawSpent' = LawSpent,
         \A c \in Containers : diskCt[c].state # "absent" => diskCt[c].sandbox # s,
         diskSb' = [diskSb EXCEPT ![s] = "absent"], UNCHANGED diskCt
  PROVE  Law!Next
<1>1. LawCt' = LawCt
  BY DEF LawCt
<1>2. Law!Members(s) = {}
  BY DEF Law!Members, LawRecord
<1>3. Law!RemoveSandbox(s)
  BY <1>1, <1>2 DEF Law!RemoveSandbox, LawCt, LawSpent
<1>4. QED
  BY <1>3 DEF Law!Next

\* A write of one record is one change of the law's records.
LEMMA LawWrites ==
  ASSUME StateTyped, NEW c \in Containers, NEW rec, diskCt' = [diskCt EXCEPT ![c] = rec]
  PROVE  LawCt' = [LawCt EXCEPT ![c] = LawRecord(rec)]
<1>1. \A d \in Containers : diskCt'[d] = IF d = c THEN rec ELSE diskCt[d]
  BY DEF StateTyped
<1>2. LawCt' = [d \in Containers |-> LawRecord(diskCt'[d])]
  BY DEF LawCt
<1>3. \A d \in Containers : LawRecord(diskCt'[d]) = IF d = c THEN LawRecord(rec) ELSE LawRecord(diskCt[d])
  BY <1>1
<1>4. [LawCt EXCEPT ![c] = LawRecord(rec)]
        = [d \in Containers |-> IF d = c THEN LawRecord(rec) ELSE LawRecord(diskCt[d])]
  BY DEF LawCt
<1>5. QED
  BY <1>2, <1>3, <1>4

\* create_container has written its record.
LEMMA LawCreates ==
  ASSUME StateTyped, NEW c \in Containers, NEW s \in Sandboxes, c \notin LawSpent, diskSb[s] = "Ready",
         LawSpent' = LawSpent \cup {c},
         diskCt' = [diskCt EXCEPT ![c] = NewRecord(s)], UNCHANGED diskSb
  PROVE  Law!Next
<1>1. LawCt' = [LawCt EXCEPT ![c] = LawRecord(NewRecord(s))]
  BY LawWrites
<1>2. LawRecord(NewRecord(s)) = [state |-> "Created", sandbox |-> s, code |-> 0]
  BY DEF LawRecord, NewRecord
<1>3. LawCt' = [LawCt EXCEPT ![c] = [state |-> "Created", sandbox |-> s, code |-> 0]]
  BY <1>1, <1>2
<1>4. Law!CreateContainer(c, s)
  BY <1>3 DEF Law!CreateContainer, LawCt, LawSpent
<1>5. QED
  BY <1>4 DEF Law!Next

\* start_container has written its intent.
LEMMA LawStarts ==
  ASSUME StateTyped, NEW c \in Containers, diskCt[c].state = "Created", LawSpent' = LawSpent,
         diskCt' = [diskCt EXCEPT ![c] = Intent(diskCt[c])], UNCHANGED diskSb
  PROVE  Law!Next
<1>0. diskCt[c] \in CtRecords /\ LawCt[c] = LawRecord(diskCt[c])
  BY DEF StateTyped, LawCt
<1>1. LawCt' = [LawCt EXCEPT ![c] = LawRecord(Intent(diskCt[c]))]
  BY LawWrites
<1>2. LawRecord(Intent(diskCt[c])) = [LawRecord(diskCt[c]) EXCEPT !.state = "Running"]
  BY <1>0, RecordFields DEF LawRecord
<1>3. LawCt' = [LawCt EXCEPT ![c].state = "Running"]
  BY <1>0, <1>1, <1>2
<1>4. Law!StartContainer(c)
  BY <1>3 DEF Law!StartContainer, LawCt, LawSpent, LawRecord
<1>5. QED
  BY <1>4 DEF Law!Next

\* A reaper, a failed start or `open` has closed a record.
LEMMA LawExits ==
  ASSUME StateTyped, NEW c \in Containers, NEW k \in Codes, diskCt[c].state = "Running",
         LawSpent' = LawSpent,
         diskCt' = [diskCt EXCEPT ![c] = Exited(diskCt[c], k)], UNCHANGED diskSb
  PROVE  Law!Next
<1>0. diskCt[c] \in CtRecords /\ LawCt[c] = LawRecord(diskCt[c])
  BY DEF StateTyped, LawCt
<1>1. LawCt' = [LawCt EXCEPT ![c] = LawRecord(Exited(diskCt[c], k))]
  BY LawWrites
<1>2. LawRecord(Exited(diskCt[c], k)) = [LawRecord(diskCt[c]) EXCEPT !.state = "Exited", !.code = k]
  <2>1. LawRecord(Exited(diskCt[c], k)) = [state |-> "Exited", sandbox |-> diskCt[c].sandbox, code |-> k]
    BY <1>0, RecordFields DEF LawRecord
  <2>2. [LawRecord(diskCt[c]) EXCEPT !.state = "Exited", !.code = k]
          = [state |-> "Exited", sandbox |-> diskCt[c].sandbox, code |-> k]
    <3> DEFINE e == [state |-> "Exited", sandbox |-> diskCt[c].sandbox, code |-> diskCt[c].code]
    <3>1. [LawRecord(diskCt[c]) EXCEPT !.state = "Exited"] = e
      BY DEF LawRecord
    <3>2. [e EXCEPT !.code = k] = [state |-> "Exited", sandbox |-> diskCt[c].sandbox, code |-> k]
      OBVIOUS
    <3>3. [LawRecord(diskCt[c]) EXCEPT !.state = "Exited", !.code = k]
            = [[LawRecord(diskCt[c]) EXCEPT !.state = "Exited"] EXCEPT !.code = k]
      BY Zenon
    <3>4. QED
      BY <3>1, <3>2, <3>3
  <2>3. QED
    BY <2>1, <2>2
<1>a. LawCt = [d \in Containers |-> LawCt[d]]
  BY DEF LawCt
<1>b. [LawCt EXCEPT ![c].state = "Exited", ![c].code = k]
        = [LawCt EXCEPT ![c] = [LawCt[c] EXCEPT !.state = "Exited", !.code = k]]
  <2> DEFINE f == [LawCt EXCEPT ![c].state = "Exited"]
             g == [LawCt EXCEPT ![c] = [LawCt[c] EXCEPT !.state = "Exited", !.code = k]]
  <2>1. f = [d \in Containers |-> IF d = c THEN [LawCt[c] EXCEPT !.state = "Exited"] ELSE LawCt[d]]
    BY <1>a
  <2>2. f[c] = [LawCt[c] EXCEPT !.state = "Exited"]
    BY <2>1
  <2>3. [f EXCEPT ![c].code = k]
          = [d \in Containers |-> IF d = c THEN [f[c] EXCEPT !.code = k] ELSE f[d]]
    BY <2>1
  <2>4. [[LawCt[c] EXCEPT !.state = "Exited"] EXCEPT !.code = k]
          = [LawCt[c] EXCEPT !.state = "Exited", !.code = k]
    OBVIOUS
  <2>5. g = [d \in Containers |-> IF d = c THEN [LawCt[c] EXCEPT !.state = "Exited", !.code = k]
                                           ELSE LawCt[d]]
    BY <1>a
  <2>6. \A d \in Containers : d # c => f[d] = LawCt[d]
    BY <2>1
  <2>7. [f EXCEPT ![c].code = k] = g
    BY <2>2, <2>3, <2>4, <2>5, <2>6
  <2>8. [LawCt EXCEPT ![c].state = "Exited", ![c].code = k] = [f EXCEPT ![c].code = k]
    OBVIOUS
  <2>9. QED
    BY <2>7, <2>8
<1>3. LawCt' = [LawCt EXCEPT ![c].state = "Exited", ![c].code = k]
  BY <1>0, <1>1, <1>2, <1>b
<1>4. Law!ExitContainer(c)
  BY <1>3 DEF Law!ExitContainer, LawCt, LawSpent, LawRecord
<1>5. QED
  BY <1>4 DEF Law!Next

\* remove_container has unlinked its record.
LEMMA LawRemovesContainer ==
  ASSUME StateTyped, NEW c \in Containers, diskCt[c].state # "absent", LawSpent' = LawSpent,
         diskCt' = [diskCt EXCEPT ![c] = Absent], UNCHANGED diskSb
  PROVE  Law!Next
<1>1. LawCt' = [LawCt EXCEPT ![c] = LawRecord(Absent)]
  BY LawWrites
<1>2. LawRecord(Absent) = Law!Nothing
  BY DEF LawRecord, Absent, Law!Nothing
<1>3. LawCt' = [LawCt EXCEPT ![c] = Law!Nothing]
  BY <1>1, <1>2
<1>4. Law!RemoveContainer(c)
  BY <1>3 DEF Law!RemoveContainer, LawCt, LawSpent, LawRecord
<1>5. QED
  BY <1>4 DEF Law!Next


\* The places of a call that has minted an id and not written its record.
MintLabels == {"run_write", "cc_check", "cc_write"}

Minted(l, f) == IF l = "run_write" THEN f.sb ELSE f.ct

\* No id is spent by a step that leaves nothing half minted.
LEMMA SpentStays ==
  ASSUME NEW t, Threads = {t}, UNCHANGED <<usedSb, usedCt>>,
         pc[t] \notin MintLabels, pc'[t] \notin MintLabels
  PROVE  LawSpent' = LawSpent
<1>1. \A id : ~Unwritten(id) /\ ~Unwritten(id)'
  BY DEF Unwritten, MintLabels
<1>2. QED
  BY <1>1 DEF LawSpent

\* The id of a call that goes on from its write, or ends before it, is spent.
LEMMA SpentGains ==
  ASSUME Typed, Safe, NEW t, Threads = {t}, UNCHANGED <<usedSb, usedCt>>,
         pc[t] \in MintLabels, pc'[t] \notin MintLabels
  PROVE  /\ Minted(pc[t], fr[t]) \notin LawSpent
         /\ LawSpent' = LawSpent \cup {Minted(pc[t], fr[t])}
         /\ pc[t] = "run_write" => Minted(pc[t], fr[t]) = fr[t].sb /\ fr[t].sb \in Sandboxes
         /\ pc[t] # "run_write" => Minted(pc[t], fr[t]) = fr[t].ct /\ fr[t].ct \in Containers
<1> DEFINE id == Minted(pc[t], fr[t])
<1>0. /\ t \in Threads /\ Fits(pc[t], fr[t])
      /\ fr[t].sb \in usedSb \cup {None} /\ fr[t].ct \in usedCt \cup {None}
  BY DEF Typed, StepsFit, Safe, IdsMinted
<1>1. None \notin Sandboxes /\ None \notin Containers
  BY ConstantsOK
<1>2. /\ pc[t] = "run_write" => id = fr[t].sb /\ fr[t].sb \in Sandboxes
      /\ pc[t] # "run_write" => id = fr[t].ct /\ fr[t].ct \in Containers
  BY <1>0 DEF Minted, MintLabels, Fits, RunLabels, CreateLabels
<1>3. id \in usedSb \cup usedCt
  BY <1>0, <1>1, <1>2
<1>4. \A x : Unwritten(x) <=> x = id
  BY DEF Unwritten, MintLabels, Minted
<1>5. \A x : ~Unwritten(x)'
  BY DEF Unwritten, MintLabels
<1>6. LawSpent = (usedSb \cup usedCt) \ {id} /\ LawSpent' = usedSb \cup usedCt
  BY <1>4, <1>5 DEF LawSpent
<1>7. QED
  BY <1>2, <1>3, <1>6

\* Sandbox calls.
LEMMA LawSandboxSteps ==
  ASSUME Typed, Safe, Ordered, NEW t, Threads = {t}, SandboxSteps(t), UNCHANGED ioErrors
  PROVE  [Law!Next]_(Law!law)
<1> USE DEF At, cache, disk, used, acks, Goto, MintLabels
<1>0. /\ t \in Threads /\ pc \in [Threads -> Labels] /\ StateTyped /\ Fits(pc[t], fr[t]) /\ Agree /\ Housed
  BY DEF Typed, StepsFit, Ordered
<1>a. ~IoFails /\ ~IoErrorReturn(t)
  BY <1>0 DEF IoFails, IoErrorReturn, StateTyped
<1>b. UNCHANGED <<usedSb, usedCt, diskCt>>
  BY DEF SandboxSteps, RunWrite, RunInsert, StopSandboxMark, StopSandboxWrite, RemoveSandboxScan,
     RemoveSandboxNext, RemoveSandboxDrop, RemoveSandboxUnlink, IoErrorReturn
<1>1. CASE RunWrite(t)
  <2>1. /\ pc[t] = "run_write" /\ pc'[t] = "run_insert"
        /\ diskSb' = [diskSb EXCEPT ![fr[t].sb] = "Ready"]
    BY <1>0, <1>1, <1>a DEF RunWrite
  <2>2. QED
    BY <1>b, <2>1, SpentGains, LawRuns
<1>2. CASE ~RunWrite(t)
  <2>1. pc[t] \notin MintLabels
    BY <1>2 DEF SandboxSteps, RunInsert, StopSandboxMark, StopSandboxWrite, RemoveSandboxScan,
       RemoveSandboxNext, RemoveSandboxDrop, RemoveSandboxUnlink
  <2>2. pc'[t] \notin MintLabels
    BY <1>0, <1>2 DEF SandboxSteps, RunInsert, StopSandboxMark, StopSandboxWrite, RemoveSandboxScan,
       RemoveSandboxNext, RemoveSandboxDrop, RemoveSandboxUnlink, SandboxStopped, Return, IoErrorReturn
  <2>3. LawSpent' = LawSpent
    BY <1>b, <2>1, <2>2, SpentStays
  <2>4. CASE StopSandboxWrite(t)
    <3>1. /\ pc[t] = "ss_write" /\ fr[t].sb \in Sandboxes
          /\ diskSb' = [diskSb EXCEPT ![fr[t].sb] = "NotReady"]
      BY <1>0, <1>a, <2>4 DEF StopSandboxWrite, Fits, StopSbLabels
    <3>2. diskSb[fr[t].sb] = "Ready"
      BY <1>0, <3>1 DEF Agree, SbHands
    <3>3. QED
      BY <1>b, <2>3, <3>1, <3>2, LawStopsSandbox
  <2>5. CASE RemoveSandboxUnlink(t)
    <3>1. /\ up /\ pc[t] = "rs_unlink" /\ fr[t].sb \in Sandboxes
          /\ diskSb' = [diskSb EXCEPT ![fr[t].sb] = "absent"]
      BY <1>0, <1>a, <2>5 DEF RemoveSandboxUnlink, Fits, RemSbLabels
    <3>2. diskSb[fr[t].sb] = "NotReady"
      BY <1>0, <3>1 DEF Agree, SbHands
    <3>3. \A c \in Containers : diskCt[c].state # "absent" => diskCt[c].sandbox # fr[t].sb
      BY <1>0, <3>1 DEF Agree, CtAgree, HalfCt, Housed, Gathered, ContainersOf
    <3>4. QED
      BY <1>b, <2>3, <3>1, <3>2, <3>3, LawRemovesSandbox
  <2>6. CASE ~StopSandboxWrite(t) /\ ~RemoveSandboxUnlink(t)
    <3>1. UNCHANGED diskSb
      BY <1>2, <2>6 DEF SandboxSteps, RunInsert, StopSandboxMark, RemoveSandboxScan,
         RemoveSandboxNext, RemoveSandboxDrop
    <3>2. QED
      BY <1>b, <2>3, <3>1, LawStutters
  <2>7. QED
    BY <2>4, <2>5, <2>6
<1>3. QED
  BY <1>1, <1>2


\* create_container and start_container.
LEMMA LawStartSteps ==
  ASSUME Typed, Safe, Ordered, NEW t, Threads = {t}, StartSteps(t), UNCHANGED ioErrors
  PROVE  [Law!Next]_(Law!law)
<1> USE DEF At, cache, disk, used, acks, Goto, MintLabels
<1>0. /\ t \in Threads /\ pc \in [Threads -> Labels] /\ StateTyped /\ Fits(pc[t], fr[t]) /\ Agree /\ Housed
  BY DEF Typed, StepsFit, Ordered
<1>a. ~IoFails /\ ~IoErrorReturn(t)
  BY <1>0 DEF IoFails, IoErrorReturn, StateTyped
<1>b. UNCHANGED <<usedSb, usedCt, diskSb>> /\ up
  BY DEF StartSteps, CreateCheck, CreateWrite, CreateInsert, StartCheck, StartIntent,
     StartIntentWrite, StartSpawn, StartFailed, StartFailedWrite, StartIo, StartPid, StartPidWrite,
     IoErrorReturn
<1>1. CASE CreateCheck(t) /\ AcceptsContainers(fr[t].sb)
  <2>1. /\ pc[t] = "cc_check" /\ pc'[t] = "cc_write" /\ fr' = fr /\ UNCHANGED diskCt
    BY <1>0, <1>1 DEF CreateCheck
  <2>2. \A id : Unwritten(id)' <=> Unwritten(id)
    BY <2>1 DEF Unwritten
  <2>3. LawSpent' = LawSpent
    BY <1>b, <2>2 DEF LawSpent
  <2>4. QED
    BY <1>b, <2>1, <2>3, LawStutters
<1>2. CASE CreateCheck(t) /\ ~AcceptsContainers(fr[t].sb)
  <2>1. pc[t] = "cc_check" /\ pc'[t] = "idle" /\ UNCHANGED diskCt
    BY <1>0, <1>2 DEF CreateCheck, Return
  <2>2. QED
    BY <1>b, <2>1, SpentGains, LawWastes
<1>3. CASE CreateWrite(t)
  <2>1. /\ pc[t] = "cc_write" /\ pc'[t] = "cc_insert" /\ fr[t].sb \in Sandboxes
        /\ diskCt' = [diskCt EXCEPT ![fr[t].ct] = NewRecord(fr[t].sb)]
    BY <1>0, <1>a, <1>3 DEF CreateWrite, Fits, CreateLabels
  <2>2. diskSb[fr[t].sb] = "Ready"
    BY <1>0, <1>b, <2>1 DEF Agree, SbAgree, SbHands, HalfSb
  <2>3. QED
    BY <1>0, <1>b, <2>1, <2>2, SpentGains, LawCreates
<1>4. CASE ~CreateCheck(t) /\ ~CreateWrite(t)
  <2>1. pc[t] \notin MintLabels
    BY <1>4 DEF StartSteps, CreateInsert, StartCheck, StartIntent,
       StartIntentWrite, StartSpawn, StartFailed, StartFailedWrite, StartIo, StartPid, StartPidWrite
  <2>2. pc'[t] \notin MintLabels
    BY <1>0, <1>4 DEF StartSteps, CreateInsert, StartCheck, StartIntent,
       StartIntentWrite, StartSpawn, StartFailed, StartFailedWrite, StartIo, StartPid, StartPidWrite,
       Return, IoErrorReturn
  <2>3. LawSpent' = LawSpent
    BY <1>b, <2>1, <2>2, SpentStays
  <2>4. CASE StartIntentWrite(t)
    <3>1. /\ pc[t] = "st_intent_write" /\ fr[t].ct \in Containers
          /\ diskCt' = [diskCt EXCEPT ![fr[t].ct] = fr[t].rec]
      BY <1>0, <1>a, <2>4 DEF StartIntentWrite, Fits, StartLabels
    <3>2. diskCt[fr[t].ct].state = "Created" /\ fr[t].rec = Intent(diskCt[fr[t].ct])
      BY <1>0, <3>1 DEF Agree, CtHands
    <3>3. QED
      BY <1>0, <1>b, <2>3, <3>1, <3>2, LawStarts
  <2>5. CASE StartFailedWrite(t)
    <3>1. /\ pc[t] = "st_failed_write" /\ fr[t].ct \in Containers
          /\ diskCt' = [diskCt EXCEPT ![fr[t].ct] = fr[t].rec]
      BY <1>0, <1>a, <2>5 DEF StartFailedWrite, Fits, StartLabels
    <3>2. diskCt[fr[t].ct].state = "Running" /\ fr[t].rec = Exited(diskCt[fr[t].ct], LostExit)
      BY <1>0, <3>1 DEF Agree, CtHands
    <3>3. LostExit \in Codes
      BY DEF Codes
    <3>4. QED
      BY <1>0, <1>b, <2>3, <3>1, <3>2, <3>3, LawExits
  <2>6. CASE StartPidWrite(t)
    <3>1. /\ pc[t] = "st_pid_write" /\ fr[t].ct \in Containers /\ fr[t] \in Frames
          /\ diskCt' = [diskCt EXCEPT ![fr[t].ct] = fr[t].rec]
      BY <1>0, <1>a, <2>6 DEF StartPidWrite, Fits, StartLabels, Typed, StepsFit
    <3>2. fr[t].rec = WithPid(diskCt[fr[t].ct], fr[t].pid)
      BY <1>0, <3>1 DEF Agree, CtHands
    <3>3. fr[t].pid \in Pids
      BY <1>0, <3>1 DEF Ordered, Family, ChildHands
    <3>4. LawRecord(fr[t].rec) = LawRecord(diskCt[fr[t].ct])
      <4> DEFINE rec == diskCt[fr[t].ct]
                 new == WithPid(rec, fr[t].pid)
      <4>1. rec \in CtRecords
        BY <1>0, <3>1 DEF StateTyped
      <4>2. new.state = rec.state /\ new.sandbox = rec.sandbox /\ new.code = rec.code
        BY <3>3, <4>1, PidFields
      <4> HIDE DEF new, rec
      <4>3. LawRecord(new) = LawRecord(rec)
        BY <4>2 DEF LawRecord
      <4>4. QED
        BY <3>2, <4>3 DEF new, rec
    <3>5. \A c \in Containers : LawRecord(diskCt'[c]) = LawRecord(diskCt[c])
      BY <1>0, <3>1, <3>4 DEF StateTyped
    <3>6. QED
      BY <1>b, <2>3, <3>5, LawStutters
  <2>7. CASE ~StartIntentWrite(t) /\ ~StartFailedWrite(t) /\ ~StartPidWrite(t)
    <3>1. UNCHANGED diskCt
      BY <1>4, <2>7 DEF StartSteps, CreateInsert, StartCheck, StartIntent, StartSpawn, StartFailed,
         StartIo, StartPid
    <3>2. QED
      BY <1>b, <2>3, <3>1, LawStutters
  <2>8. QED
    BY <2>4, <2>5, <2>6, <2>7
<1>5. QED
  BY <1>1, <1>2, <1>3, <1>4

\* stop_container and remove_container: a stop leaves the record to the reaper.
LEMMA LawStopSteps ==
  ASSUME Typed, Safe, Ordered, NEW t, Threads = {t}, StopSteps(t), UNCHANGED ioErrors
  PROVE  [Law!Next]_(Law!law)
<1> USE DEF At, cache, disk, used, acks, Goto, MintLabels
<1>0. /\ t \in Threads /\ pc \in [Threads -> Labels] /\ StateTyped /\ Fits(pc[t], fr[t]) /\ Agree
  BY DEF Typed, StepsFit, Ordered
<1>a. ~IoFails /\ ~StopMarkWrite(t)
  BY <1>0 DEF IoFails, StateTyped, StopMarkWrite, Agree, CtHands
<1>b. UNCHANGED <<usedSb, usedCt, diskSb>>
  BY <1>a DEF StopSteps, StopCheck, StopTerm, StopGrace, StopKill, StopWait, StopMark,
     RemoveCheck, RemoveDrop, RemoveIo, RemoveUnlink
<1>1. pc[t] \notin MintLabels
  BY DEF StopSteps, StopCheck, StopTerm, StopGrace, StopKill, StopWait, StopMark, StopMarkWrite,
     RemoveCheck, RemoveDrop, RemoveIo, RemoveUnlink
<1>2. pc'[t] \notin MintLabels
  BY <1>0, <1>a DEF StopSteps, StopCheck, StopTerm, StopGrace, StopKill, StopWait, StopMark,
     RemoveCheck, RemoveDrop, RemoveIo, RemoveUnlink, ContainerStopped, ContainerRemoved, Return
<1>3. LawSpent' = LawSpent
  BY <1>b, <1>1, <1>2, SpentStays
<1>4. CASE RemoveUnlink(t)
  <2>1. /\ pc[t] = "rc_unlink" /\ fr[t].ct \in Containers
        /\ diskCt' = [diskCt EXCEPT ![fr[t].ct] = Absent]
    BY <1>0, <1>a, <1>4 DEF RemoveUnlink, Fits, RemLabels
  <2>2. diskCt[fr[t].ct].state # "absent"
    BY <1>0, <2>1 DEF Agree, CtHands
  <2>3. QED
    BY <1>0, <1>b, <1>3, <2>1, <2>2, LawRemovesContainer
<1>5. CASE ~RemoveUnlink(t)
  <2>1. UNCHANGED diskCt
    BY <1>5, <1>a DEF StopSteps, StopCheck, StopTerm, StopGrace, StopKill, StopWait, StopMark,
       RemoveCheck, RemoveDrop, RemoveIo
  <2>2. QED
    BY <1>b, <1>3, <2>1, LawStutters
<1>6. QED
  BY <1>4, <1>5


\* A call that begins has an id of its own, which the law knows nothing of.
LEMMA LawCalls ==
  ASSUME Typed, NEW t, Threads = {t}, Calls(t) PROVE UNCHANGED Law!law
<1> USE DEF cache, disk, used, MintLabels
<1>0. t \in Threads /\ usedSb \subseteq Sandboxes /\ usedCt \subseteq Containers
  BY DEF Typed, StateTyped
<1>1. UNCHANGED <<diskSb, diskCt>> /\ pc[t] = "idle"
  BY <1>0, CallFrame
<1>2. LawSpent' = LawSpent
  <2>1. LawSpent = usedSb \cup usedCt
    BY <1>1 DEF LawSpent, Unwritten
  <2>2. CASE pc'[t] = "run_write"
    <3>1. fr'[t].sb \in Sandboxes \ usedSb /\ usedSb' = usedSb \cup {fr'[t].sb} /\ usedCt' = usedCt
      BY <1>0, <2>2, CallFrame
    <3>2. \A x : Unwritten(x)' <=> x = fr'[t].sb
      BY <2>2 DEF Unwritten
    <3>3. fr'[t].sb \notin usedSb \cup usedCt
      BY <1>0, <3>1, ConstantsOK
    <3>4. LawSpent' = usedSb \cup usedCt
      BY <3>1, <3>2, <3>3 DEF LawSpent
    <3>5. QED
      BY <2>1, <3>4
  <2>3. CASE pc'[t] = "cc_check"
    <3>1. fr'[t].ct \in Containers \ usedCt /\ usedCt' = usedCt \cup {fr'[t].ct} /\ usedSb' = usedSb
      BY <1>0, <2>3, CallFrame
    <3>2. \A x : Unwritten(x)' <=> x = fr'[t].ct
      BY <2>3 DEF Unwritten
    <3>3. fr'[t].ct \notin usedSb \cup usedCt
      BY <1>0, <3>1, ConstantsOK
    <3>4. LawSpent' = usedSb \cup usedCt
      BY <3>1, <3>2, <3>3 DEF LawSpent
    <3>5. QED
      BY <2>1, <3>4
  <2>4. CASE pc'[t] \notin {"run_write", "cc_check"}
    <3>1. UNCHANGED <<usedSb, usedCt>> /\ pc'[t] \notin MintLabels
      BY <1>0, <2>4, CallFrame
    <3>2. QED
      BY <1>1, <3>1, SpentStays
  <2>5. QED
    BY <2>2, <2>3, <2>4
<1>3. QED
  BY <1>1, <1>2, LawStutters

\* The reaper's write closes the record the disk has.
LEMMA LawReaperSteps ==
  ASSUME Typed, Safe, Once, Ordered, NEW t, Threads = {t}, NEW p \in Pids, ReaperStep(p),
         UNCHANGED ioErrors
  PROVE  [Law!Next]_(Law!law)
<1> USE DEF cache, disk, used, acks
<1>0. /\ t \in Threads /\ StateTyped /\ Agree /\ Family
  BY DEF Typed, Ordered
<1>a. ~IoFails
  BY <1>0 DEF IoFails, StateTyped
<1>b. UNCHANGED <<usedSb, usedCt, diskSb, pc, fr>>
  BY DEF ReaperStep, ReaperWait, ReaperIo, ReaperRecord
<1>1. LawSpent' = LawSpent
  BY <1>b DEF LawSpent, Unwritten
<1>2. CASE ReaperRecord(p) /\ OpenToReaper(proc[p].ct)
  <2>1. /\ reaper[p] = "record" /\ cacheCt[proc[p].ct].state = "Running"
        /\ diskCt' = [diskCt EXCEPT ![proc[p].ct] = Exited(cacheCt[proc[p].ct], proc[p].code)]
    BY <1>a, <1>2 DEF ReaperRecord, OpenToReaper
  <2>2. proc[p].ct \in Containers /\ proc[p].code \in Codes
    BY <1>0, <2>1 DEF Family, Reaped, Once, Begun, StateTyped, Processes
  <2>3. cacheCt[proc[p].ct] = diskCt[proc[p].ct]
    BY <1>0, <2>1, <2>2, ReaperAlone DEF Agree, CtAgree
  <2>4. QED
    BY <1>0, <1>b, <1>1, <2>1, <2>2, <2>3, LawExits
<1>3. CASE ~(ReaperRecord(p) /\ OpenToReaper(proc[p].ct))
  <2>1. UNCHANGED diskCt
    BY <1>3 DEF ReaperStep, ReaperWait, ReaperIo, ReaperRecord
  <2>2. QED
    BY <1>b, <1>1, <2>1, LawStutters
<1>4. QED
  BY <1>2, <1>3

\* A crash wastes at most an id; `open` closes the records of programs that are gone.
LEMMA LawEnvironment ==
  ASSUME Typed, Safe, Ordered, NEW t, Threads = {t}, Environment, UNCHANGED ioErrors
  PROVE  [Law!Next]_(Law!law)
<1> USE DEF cache, disk, used, acks
<1>0. /\ t \in Threads /\ StateTyped /\ LostExit \in Codes
  BY DEF Typed, Codes
<1>a. ~IoFails
  BY <1>0 DEF IoFails, StateTyped
<1>b. UNCHANGED <<usedSb, usedCt, diskSb>>
  BY DEF Environment, Crash, Opened, OpenContainer, ProcessExits, PidReused
<1>1. CASE Crash
  <2>1. UNCHANGED diskCt /\ pc'[t] = "idle"
    BY <1>0, <1>1 DEF Crash
  <2>2. CASE pc[t] \in MintLabels
    BY <1>b, <2>1, <2>2, SpentGains, LawWastes DEF MintLabels
  <2>3. CASE pc[t] \notin MintLabels
    BY <1>b, <2>1, <2>3, SpentStays, LawStutters DEF MintLabels
  <2>4. QED
    BY <2>2, <2>3
<1>2. ASSUME ~Crash PROVE UNCHANGED <<pc, fr>>
  BY <1>2 DEF Environment, Opened, OpenContainer, ProcessExits, PidReused
<1>3. ASSUME ~Crash PROVE LawSpent' = LawSpent
  BY <1>b, <1>2, <1>3 DEF LawSpent, Unwritten
<1>4. ASSUME ~Crash, NEW c \in Containers, OpenContainer(c) PROVE [Law!Next]_(Law!law)
  <2>1. diskCt' = [diskCt EXCEPT ![c] = Recovered(diskCt[c])]
    BY <1>4, <1>a DEF OpenContainer
  <2>2. CASE diskCt[c].state = "Running" /\ (diskCt[c].pid \in Pids => ~PidAlive(proc[diskCt[c].pid]))
    <3>1. diskCt' = [diskCt EXCEPT ![c] = Exited(diskCt[c], LostExit)]
      BY <2>1, <2>2 DEF Recovered
    <3>2. QED
      BY <1>0, <1>b, <1>3, <1>4, <2>2, <3>1, LawExits
  <2>3. CASE ~(diskCt[c].state = "Running" /\ (diskCt[c].pid \in Pids => ~PidAlive(proc[diskCt[c].pid])))
    <3>1. Recovered(diskCt[c]) = diskCt[c]
      BY <2>3 DEF Recovered
    <3>2. diskCt' = diskCt
      BY <1>0, <2>1, <3>1 DEF StateTyped
    <3>3. QED
      BY <1>b, <1>3, <1>4, <3>2, LawStutters
  <2>4. QED
    BY <2>2, <2>3
<1>5. ASSUME ~Crash, ~(\E c \in Containers : OpenContainer(c)) PROVE [Law!Next]_(Law!law)
  <2>1. UNCHANGED diskCt
    BY <1>5 DEF Environment, Opened, ProcessExits, PidReused
  <2>2. QED
    BY <1>b, <1>3, <1>5, <2>1, LawStutters
<1>6. QED
  BY <1>1, <1>4, <1>5

\* Every step without a failed file operation is a step of the law or none.
LEMMA LawNext ==
  ASSUME Typed, Safe, Once, Ordered, NEW t, Threads = {t}, [Next]_vars, UNCHANGED ioErrors
  PROVE  [Law!Next]_(Law!law)
<1>1. CASE UNCHANGED vars
  <2>1. UNCHANGED <<diskSb, diskCt, usedSb, usedCt, pc, fr>>
    BY <1>1 DEF vars, disk, used
  <2>2. LawSpent' = LawSpent
    BY <2>1 DEF LawSpent, Unwritten
  <2>3. QED
    BY <2>1, <2>2, LawStutters
<1>2. QED
  BY <1>1, LawCalls, LawSandboxSteps, LawStartSteps, LawStopSteps, LawReaperSteps, LawEnvironment
     DEF Next, ThreadStep

\* An empty directory is the initial state of the law.
LEMMA LawInit == Init => Law!Init
<1> SUFFICES ASSUME Init PROVE Law!Init
  OBVIOUS
<1>1. LawSpent = {}
  BY DEF Init, LawSpent
<1>2. LawRecord(Absent) = Law!Nothing
  BY DEF LawRecord, Absent, Law!Nothing
<1>3. LawCt = [c \in Containers |-> Law!Nothing]
  BY <1>2 DEF Init, LawCt
<1>4. QED
  BY <1>1, <1>3 DEF Init, Law!Init, LawSpent, LawCt

\* The disk is the state: one caller's file operations, whatever reapers, programs, crashes
\* and restarts do in between, are steps of the State law, as long as none of them fails.
THEOREM DiskObeysLaw ==
  ASSUME NEW t, Threads = {t} PROVE Spec /\ [](ioErrors = 0) => ObeysStateLaw
<1>1. Typed /\ Safe /\ Once /\ OrderedYet /\ ioErrors = 0 /\ (ioErrors = 0)' /\ [Next]_vars
        => [Law!Next]_(Law!law)
  BY LawNext DEF OrderedYet
<1>2. QED
  BY <1>1, LawInit, AlwaysOrdered, PTL DEF Spec, ObeysStateLaw, Law!Spec

=============================================================================

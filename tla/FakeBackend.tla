----------------------------- MODULE FakeBackend -----------------------------
(***************************************************************************)
(* The lifecycle core of the fake CRI backend                              *)
(* (crates/lightr-cri-fake/src/lib.rs): sandboxes and containers, the      *)
(* in-memory cache behind one mutex, the JSON records on disk, the spawned *)
(* processes with their reaper threads, a crash of the server, and `open`. *)
(*                                                                         *)
(* The shell bridges each CRI call to a blocking thread and does not       *)
(* cancel it when the client gives up, so several calls run at once.  One  *)
(* action is one critical section of the cache mutex, one file operation,  *)
(* or one system call: what other threads can see between two actions is   *)
(* what they can see between two lock acquisitions of the code.            *)
(***************************************************************************)
EXTENDS Integers, FiniteSets

CONSTANTS
  Sandboxes,      \* the sandbox ids new_id("sb-") can mint
  Containers,     \* the container ids new_id("ct-") can mint
  Pids,           \* the process ids the kernel can give to a spawned child
  Threads,        \* the blocking threads that serve CRI calls
  None,           \* no sandbox / no container
  MaxCrashes,     \* bound on kill -9 of the server
  MaxIoErrors,    \* bound on file operations (and fd dups) that fail
  PidReuse,       \* TRUE: the kernel may give a freed pid to a foreign process
  SlowReap        \* TRUE: the 5 s wait after SIGKILL may end before the reaper

ASSUME ConstantsOK ==
  /\ Pids \subseteq Nat \ {0}
  /\ None \notin Sandboxes \cup Containers
  /\ Sandboxes \cap Containers = {}      \* "sb-..." and "ct-..."
  /\ MaxCrashes \in Nat
  /\ MaxIoErrors \in Nat
  /\ PidReuse \in BOOLEAN
  /\ SlowReap \in BOOLEAN

VARIABLES
  up,             \* the server process runs and `open` has returned
  cacheSb,        \* Cache.sandboxes: id -> state, "absent" when not a key
  cacheCt,        \* Cache.containers: id -> record, Absent when not a key
  io,             \* the keys of io_table
  diskSb, diskCt, \* the records under sandboxes/ and containers/
  usedSb, usedCt, \* ids already minted by new_id
  proc,           \* the kernel's process table, by pid
  reaper,         \* the detached reaper thread of the child with this pid
  pc, fr,         \* per blocking thread: where it is and its locals
  ackSb, ackCt,   \* history: what calls that returned Ok have promised
  crashes, ioErrors

disk  == <<diskSb, diskCt>>
cache == <<cacheSb, cacheCt>>
used  == <<usedSb, usedCt>>
acks  == <<ackSb, ackCt>>
vars  == <<up, cache, io, disk, used, proc, reaper, pc, fr, acks, crashes, ioErrors>>

-----------------------------------------------------------------------------
(* Records *)

OwnExit  == 1        \* any status the program itself exits with
TermExit == 143      \* 128 + SIGTERM
KillExit == 137      \* 128 + SIGKILL
LostExit == -1       \* recorded when the status cannot be known
Codes    == {0, OwnExit, TermExit, KillExit, LostExit}

SbStates == {"absent", "Ready", "NotReady"}
CtStates == {"absent", "Created", "Running", "Exited"}

\* ContainerRecord, less what never changes after create (config, times, texts).
CtRecords == [state : CtStates, sandbox : Sandboxes \cup {None},
              pid : Pids \cup {0}, code : Codes]

Absent == [state |-> "absent", sandbox |-> None, pid |-> 0, code |-> 0]

NewRecord(s) == [state |-> "Created", sandbox |-> s, pid |-> 0, code |-> 0]

Exited(rec, code) == [rec EXCEPT !.state = "Exited", !.code = code]

\* The start intent: Running with pid 0 and reason "starting".
Intent(rec) == [rec EXCEPT !.state = "Running", !.pid = 0]

SbFacts == {"exists", "stopped", "gone"}
CtFacts == {"exists", "started", "stopped", "gone"}

-----------------------------------------------------------------------------
(* The kernel's process table.  `ct` is the container a process was spawned *)
(* for, `child` says that the running server is its parent (so it becomes a *)
(* zombie and can be waited for), `term` that a SIGTERM is pending.         *)

ProcStates == {"free", "live", "zombie", "dead", "foreign"}
Processes  == [st : ProcStates, ct : Containers \cup {None}, child : BOOLEAN,
               term : BOOLEAN, code : Codes]

NoProcess == [st |-> "free", ct |-> None, child |-> FALSE, term |-> FALSE, code |-> 0]

Spawned(c) == [st |-> "live", ct |-> c, child |-> TRUE, term |-> FALSE, code |-> 0]

\* A process that ends waits for its parent as a zombie; init reaps an orphan.
Ended(p, code) == [p EXCEPT !.st = IF p.child THEN "zombie" ELSE "dead", !.code = code]

\* kill(pid, SIGKILL) and kill(pid, SIGTERM), on whatever process has the pid.
Killed(p) ==
  CASE p.st = "live"    -> Ended(p, KillExit)
    [] p.st = "foreign" -> [p EXCEPT !.st = "dead"]
    [] OTHER            -> p

Terminated(p) == IF p.st = "live" THEN [p EXCEPT !.term = TRUE] ELSE p

\* kill(pid, 0) = 0: a zombie still answers.
PidAlive(p) == p.st \in {"live", "zombie", "foreign"}

\* The server dies: its children are reparented to init, which reaps zombies.
Orphaned(p) == [p EXCEPT !.child = FALSE, !.st = IF @ = "zombie" THEN "dead" ELSE @]

-----------------------------------------------------------------------------
(* Frames of the blocking threads *)

Ops == {"none", "RunSandbox", "StopSandbox", "RemoveSandbox", "CreateContainer",
        "StartContainer", "StopContainer", "RemoveContainer"}

Labels == {"idle",
  "run_write", "run_insert",                              \* run_sandbox
  "ss_mark", "ss_write",                                  \* stop_sandbox
  "rs_scan", "rs_next", "rs_drop", "rs_unlink",           \* remove_sandbox
  "cc_check", "cc_write", "cc_insert",                    \* create_container
  "st_check", "st_intent", "st_intent_write", "st_spawn", \* start_container
  "st_failed", "st_failed_write", "st_io", "st_pid", "st_pid_write",
  "sc_check", "sc_term", "sc_grace", "sc_kill", "sc_wait", \* stop_container
  "sc_mark", "sc_mark_write",
  "rc_check", "rc_drop", "rc_io", "rc_unlink"}            \* remove_container

\* `todo`: the ids remove_sandbox collected.  `grace`: grace_seconds > 0.
\* `pid`: the pid of the snapshot (stop) or of the child (start).
\* `rec`: rec_clone, the record to be written once the lock is dropped.
\* `from`: who called stop_container.
Frames == [op : Ops, sb : Sandboxes \cup {None}, ct : Containers \cup {None},
           todo : SUBSET Containers, grace : BOOLEAN, pid : Pids \cup {0},
           rec : CtRecords, from : {"client", "cascade", "force"}]

IdleFrame == [op |-> "none", sb |-> None, ct |-> None, todo |-> {}, grace |-> FALSE,
              pid |-> 0, rec |-> Absent, from |-> "client"]

At(t, label) == up /\ pc[t] = label

Goto(t, label) == pc' = [pc EXCEPT ![t] = label]

\* The call returns.  An Ok adds a fact to what the client may rely on; the Ok of
\* a removal supersedes the others.
Return(t) == Goto(t, "idle") /\ fr' = [fr EXCEPT ![t] = IdleFrame]

Learn(facts, fact) ==
  IF fact = "gone" \/ "gone" \in facts THEN {"gone"} ELSE facts \cup {fact}

AckSb(s, fact) == ackSb' = [ackSb EXCEPT ![s] = Learn(@, fact)] /\ UNCHANGED ackCt
AckCt(c, fact) == ackCt' = [ackCt EXCEPT ![c] = Learn(@, fact)] /\ UNCHANGED ackSb

IoFails == ioErrors < MaxIoErrors /\ ioErrors' = ioErrors + 1
IoWorks == UNCHANGED ioErrors

\* A failed file operation propagated with `?`: the call returns an error.
IoErrorReturn(t) == IoFails /\ Return(t) /\ UNCHANGED <<disk, acks>>

-----------------------------------------------------------------------------
Init ==
  /\ up = TRUE
  /\ cacheSb = [s \in Sandboxes |-> "absent"]
  /\ cacheCt = [c \in Containers |-> Absent]
  /\ io = {}
  /\ diskSb = [s \in Sandboxes |-> "absent"]
  /\ diskCt = [c \in Containers |-> Absent]
  /\ usedSb = {} /\ usedCt = {}
  /\ proc = [p \in Pids |-> NoProcess]
  /\ reaper = [p \in Pids |-> "none"]
  /\ pc = [t \in Threads |-> "idle"]
  /\ fr = [t \in Threads |-> IdleFrame]
  /\ ackSb = [s \in Sandboxes |-> {}]
  /\ ackCt = [c \in Containers |-> {}]
  /\ crashes = 0 /\ ioErrors = 0

-----------------------------------------------------------------------------
(* Calls.  A client names an id some call has disclosed, live or long gone. *)

Minting(op, id) == \E t \in Threads : fr[t].op = op /\ id \in {fr[t].sb, fr[t].ct}

KnownSb == {s \in usedSb : ~Minting("RunSandbox", s)}
KnownCt == {c \in usedCt : ~Minting("CreateContainer", c)}

Call(t, label, frame) ==
  /\ At(t, "idle")
  /\ Goto(t, label)
  /\ fr' = [fr EXCEPT ![t] = frame]
  /\ UNCHANGED <<up, cache, io, disk, proc, reaper, crashes, ioErrors>>

CallRunSandbox(t) == \E s \in Sandboxes \ usedSb :
  /\ Call(t, "run_write", [IdleFrame EXCEPT !.op = "RunSandbox", !.sb = s])
  /\ usedSb' = usedSb \cup {s}
  /\ UNCHANGED <<usedCt, acks>>

CallStopSandbox(t) == \E s \in KnownSb :
  /\ Call(t, "ss_mark", [IdleFrame EXCEPT !.op = "StopSandbox", !.sb = s])
  /\ UNCHANGED <<used, acks>>

\* Once removal is asked for, nobody may rely on the sandbox or its containers.
CallRemoveSandbox(t) == \E s \in KnownSb :
  /\ Call(t, "ss_mark", [IdleFrame EXCEPT !.op = "RemoveSandbox", !.sb = s])
  /\ ackSb' = [ackSb EXCEPT ![s] = @ \ {"exists"}]
  /\ ackCt' = [c \in Containers |-> IF cacheCt[c].sandbox = s THEN ackCt[c] \ {"exists"}
                                                            ELSE ackCt[c]]
  /\ UNCHANGED used

CallCreateContainer(t) == \E s \in KnownSb, c \in Containers \ usedCt :
  /\ Call(t, "cc_check", [IdleFrame EXCEPT !.op = "CreateContainer", !.sb = s, !.ct = c])
  /\ usedCt' = usedCt \cup {c}
  /\ UNCHANGED <<usedSb, acks>>

CallStartContainer(t) == \E c \in KnownCt :
  /\ Call(t, "st_check", [IdleFrame EXCEPT !.op = "StartContainer", !.ct = c])
  /\ ackCt' = [ackCt EXCEPT ![c] = @ \ {"stopped"}]
  /\ UNCHANGED <<used, ackSb>>

CallStopContainer(t) == \E c \in KnownCt, g \in BOOLEAN :
  /\ Call(t, "sc_check", [IdleFrame EXCEPT !.op = "StopContainer", !.ct = c, !.grace = g])
  /\ UNCHANGED <<used, acks>>

CallRemoveContainer(t) == \E c \in KnownCt :
  /\ Call(t, "rc_check", [IdleFrame EXCEPT !.op = "RemoveContainer", !.ct = c])
  /\ ackCt' = [ackCt EXCEPT ![c] = @ \ {"exists"}]
  /\ UNCHANGED <<used, ackSb>>

-----------------------------------------------------------------------------
(* run_sandbox: the record is on disk before the sandbox can be seen. *)

RunWrite(t) ==
  /\ At(t, "run_write")
  /\ \/ /\ diskSb' = [diskSb EXCEPT ![fr[t].sb] = "Ready"]
        /\ Goto(t, "run_insert") /\ IoWorks
        /\ UNCHANGED <<fr, diskCt, acks>>
     \/ IoErrorReturn(t)
  /\ UNCHANGED <<up, cache, io, used, proc, reaper, crashes>>

RunInsert(t) ==
  /\ At(t, "run_insert")
  /\ cacheSb' = [cacheSb EXCEPT ![fr[t].sb] = "Ready"]
  /\ Return(t) /\ AckSb(fr[t].sb, "exists")
  /\ UNCHANGED <<up, cacheCt, io, disk, used, proc, reaper, crashes, ioErrors>>

-----------------------------------------------------------------------------
(* stop_sandbox, called by the client or as the first step of remove_sandbox *)

SandboxStopped(t) ==
  IF fr[t].op = "RemoveSandbox"
  THEN Goto(t, "rs_scan") /\ UNCHANGED <<fr, acks>>
  ELSE Return(t) /\ AckSb(fr[t].sb, "stopped")

\* Under the lock: absent and NotReady are done, Ready becomes NotReady.
StopSandboxMark(t) ==
  LET s == fr[t].sb IN
  /\ At(t, "ss_mark")
  /\ \/ /\ cacheSb[s] \in {"absent", "NotReady"}
        /\ SandboxStopped(t) /\ UNCHANGED cacheSb
     \/ /\ cacheSb[s] = "Ready"
        /\ cacheSb' = [cacheSb EXCEPT ![s] = "NotReady"]
        /\ Goto(t, "ss_write") /\ UNCHANGED <<fr, acks>>
  /\ UNCHANGED <<up, cacheCt, io, disk, used, proc, reaper, crashes, ioErrors>>

\* The lock is dropped before the record is written.
StopSandboxWrite(t) ==
  /\ At(t, "ss_write")
  /\ \/ /\ diskSb' = [diskSb EXCEPT ![fr[t].sb] = "NotReady"]
        /\ SandboxStopped(t) /\ IoWorks /\ UNCHANGED diskCt
     \/ IoErrorReturn(t)
  /\ UNCHANGED <<up, cache, io, used, proc, reaper, crashes>>

-----------------------------------------------------------------------------
(* remove_sandbox, after stop_sandbox *)

Bug_ContainersOf(s) ==
  {c \in Containers : cacheCt[c].state = "Running" /\ cacheCt[c].sandbox = s}
ContainersOf(s) ==
  {c \in Containers : cacheCt[c].state # "absent" /\ cacheCt[c].sandbox = s}

\* The containers are collected once; an absent sandbox is done.
RemoveSandboxScan(t) ==
  LET s == fr[t].sb IN
  /\ At(t, "rs_scan")
  /\ \/ /\ cacheSb[s] = "absent"
        /\ Return(t) /\ AckSb(s, "gone")
     \/ /\ cacheSb[s] # "absent"
        /\ fr' = [fr EXCEPT ![t].todo = ContainersOf(s)]
        /\ Goto(t, "rs_next") /\ UNCHANGED acks
  /\ UNCHANGED <<up, cache, io, disk, used, proc, reaper, crashes, ioErrors>>

\* The next container: stop_container(cid, 0), then remove_container(cid).
RemoveSandboxNext(t) ==
  /\ At(t, "rs_next")
  /\ \/ \E c \in fr[t].todo :
        /\ fr' = [fr EXCEPT ![t].ct = c, ![t].todo = @ \ {c},
                            ![t].grace = FALSE, ![t].from = "cascade"]
        /\ Goto(t, "sc_check")
     \/ fr[t].todo = {} /\ Goto(t, "rs_drop") /\ UNCHANGED fr
  /\ UNCHANGED <<up, cache, io, disk, used, proc, reaper, acks, crashes, ioErrors>>

RemoveSandboxDrop(t) ==
  LET s == fr[t].sb IN
  /\ At(t, "rs_drop")
  /\ cacheSb' = [cacheSb EXCEPT ![s] = "absent"]
  /\ \/ /\ cacheSb[s] = "absent"
        /\ Return(t) /\ AckSb(s, "gone")
     \/ /\ cacheSb[s] # "absent"
        /\ Goto(t, "rs_unlink") /\ UNCHANGED <<fr, acks>>
  /\ UNCHANGED <<up, cacheCt, io, disk, used, proc, reaper, crashes, ioErrors>>

\* `let _ = fs::remove_file(..)`: a failure to unlink is not reported.
RemoveSandboxUnlink(t) ==
  /\ At(t, "rs_unlink")
  /\ \/ diskSb' = [diskSb EXCEPT ![fr[t].sb] = "absent"] /\ IoWorks
     \/ IoFails /\ UNCHANGED diskSb
  /\ Return(t) /\ AckSb(fr[t].sb, "gone")
  /\ UNCHANGED <<up, cache, io, diskCt, used, proc, reaper, crashes>>

-----------------------------------------------------------------------------
(* create_container: check the sandbox under the lock, write the record,    *)
(* insert it under the lock again.                                          *)

Bug_AcceptsContainers(s) == cacheSb[s] # "absent"
AcceptsContainers(s) == cacheSb[s] = "Ready"

Bug_CreateCheck(t) ==
  /\ At(t, "cc_check")
  /\ cacheSb[fr[t].sb] = "Ready" /\ Goto(t, "cc_insert")
  /\ UNCHANGED <<up, cache, io, disk, used, proc, reaper, fr, acks, crashes, ioErrors>>

\* NotFound and FailedPrecondition both end the call.
CreateCheck(t) ==
  /\ At(t, "cc_check")
  /\ \/ AcceptsContainers(fr[t].sb) /\ Goto(t, "cc_write") /\ UNCHANGED fr
     \/ ~AcceptsContainers(fr[t].sb) /\ Return(t)
  /\ UNCHANGED <<up, cache, io, disk, used, proc, reaper, acks, crashes, ioErrors>>

CreateWrite(t) ==
  /\ At(t, "cc_write")
  /\ \/ /\ diskCt' = [diskCt EXCEPT ![fr[t].ct] = NewRecord(fr[t].sb)]
        /\ Goto(t, "cc_insert") /\ IoWorks
        /\ UNCHANGED <<fr, diskSb, acks>>
     \/ IoErrorReturn(t)
  /\ UNCHANGED <<up, cache, io, used, proc, reaper, crashes>>

CreateInsert(t) ==
  /\ At(t, "cc_insert")
  /\ cacheCt' = [cacheCt EXCEPT ![fr[t].ct] = NewRecord(fr[t].sb)]
  /\ Return(t) /\ AckCt(fr[t].ct, "exists")
  /\ UNCHANGED <<up, cacheSb, io, disk, used, proc, reaper, crashes, ioErrors>>

-----------------------------------------------------------------------------
(* start_container.  Both the pty branch and start_container_pipe_mode take *)
(* these steps.                                                             *)

Bug_MayStart(rec) == rec.state \in {"Created", "Exited"}

\* Only a Created container may be started: the test is on a snapshot.
MayStart(rec) == rec.state = "Created"

\* Opening the log, the pty or the netns may fail before anything changed.
StartCheck(t) ==
  /\ At(t, "st_check")
  /\ \/ MayStart(cacheCt[fr[t].ct]) /\ Goto(t, "st_intent") /\ UNCHANGED fr /\ IoWorks
     \/ ~MayStart(cacheCt[fr[t].ct]) /\ Return(t) /\ IoWorks
     \/ IoFails /\ Return(t)
  /\ UNCHANGED <<up, cache, io, disk, used, proc, reaper, acks, crashes>>

\* Persist the intent: the state is not looked at again, only the presence.
StartIntent(t) ==
  LET c == fr[t].ct IN
  /\ At(t, "st_intent")
  /\ \/ cacheCt[c].state = "absent" /\ Return(t) /\ UNCHANGED cacheCt
     \/ /\ cacheCt[c].state # "absent"
        /\ cacheCt' = [cacheCt EXCEPT ![c] = Intent(@)]
        /\ fr' = [fr EXCEPT ![t].rec = Intent(cacheCt[c])]
        /\ Goto(t, "st_intent_write")
  /\ UNCHANGED <<up, cacheSb, io, disk, used, proc, reaper, acks, crashes, ioErrors>>

StartIntentWrite(t) ==
  /\ At(t, "st_intent_write")
  /\ \/ /\ diskCt' = [diskCt EXCEPT ![fr[t].ct] = fr[t].rec]
        /\ Goto(t, "st_spawn") /\ IoWorks
        /\ UNCHANGED <<fr, diskSb, acks>>
     \/ IoErrorReturn(t)
  /\ UNCHANGED <<up, cache, io, used, proc, reaper, crashes>>

StartSpawn(t) ==
  /\ At(t, "st_spawn")
  /\ \/ \E p \in Pids :
        /\ proc[p].st = "free"
        /\ proc' = [proc EXCEPT ![p] = Spawned(fr[t].ct)]
        /\ fr' = [fr EXCEPT ![t].pid = p]
        /\ Goto(t, "st_io")
     \/ Goto(t, "st_failed") /\ UNCHANGED <<proc, fr>>
  /\ UNCHANGED <<up, cache, io, disk, used, reaper, acks, crashes, ioErrors>>

StartFailed(t) ==
  LET c == fr[t].ct IN
  /\ At(t, "st_failed")
  /\ \/ cacheCt[c].state = "absent" /\ Return(t) /\ UNCHANGED cacheCt
     \/ /\ cacheCt[c].state # "absent"
        /\ cacheCt' = [cacheCt EXCEPT ![c] = Exited(@, LostExit)]
        /\ fr' = [fr EXCEPT ![t].rec = Exited(cacheCt[c], LostExit)]
        /\ Goto(t, "st_failed_write")
  /\ UNCHANGED <<up, cacheSb, io, disk, used, proc, reaper, acks, crashes, ioErrors>>

\* `let _ = atomic_write_json(..)`, then the spawn error is returned.
StartFailedWrite(t) ==
  /\ At(t, "st_failed_write")
  /\ \/ diskCt' = [diskCt EXCEPT ![fr[t].ct] = fr[t].rec] /\ IoWorks
     \/ IoFails /\ UNCHANGED diskCt
  /\ Return(t)
  /\ UNCHANGED <<up, cache, io, diskSb, used, proc, reaper, acks, crashes>>

\* In pipe mode the ends are dup'ed first: a failure drops the child unreaped.
StartIo(t) ==
  /\ At(t, "st_io")
  /\ \/ io' = io \cup {fr[t].ct} /\ Goto(t, "st_pid") /\ IoWorks /\ UNCHANGED fr
     \/ IoFails /\ Return(t) /\ UNCHANGED io
  /\ UNCHANGED <<up, cache, disk, used, proc, reaper, acks, crashes>>

StartPid(t) ==
  LET c == fr[t].ct IN
  /\ At(t, "st_pid")
  /\ \/ cacheCt[c].state = "absent" /\ Return(t) /\ UNCHANGED cacheCt
     \/ /\ cacheCt[c].state # "absent"
        /\ cacheCt' = [cacheCt EXCEPT ![c].pid = fr[t].pid]
        /\ fr' = [fr EXCEPT ![t].rec = [cacheCt[c] EXCEPT !.pid = fr[t].pid]]
        /\ Goto(t, "st_pid_write")
  /\ UNCHANGED <<up, cacheSb, io, disk, used, proc, reaper, acks, crashes, ioErrors>>

\* The pid is persisted, then the reaper thread is started.
StartPidWrite(t) ==
  /\ At(t, "st_pid_write")
  /\ \/ /\ diskCt' = [diskCt EXCEPT ![fr[t].ct] = fr[t].rec]
        /\ reaper' = [reaper EXCEPT ![fr[t].pid] = "wait"]
        /\ Return(t) /\ AckCt(fr[t].ct, "started") /\ IoWorks
        /\ UNCHANGED diskSb
     \/ IoErrorReturn(t) /\ UNCHANGED reaper
  /\ UNCHANGED <<up, cache, io, used, proc, crashes>>

-----------------------------------------------------------------------------
(* The reaper thread of a child: wait(), drop the io_table entry, record    *)
(* the exit under the lock unless somebody else already did.                *)

ReaperWait(p) ==
  /\ up /\ reaper[p] = "wait" /\ proc[p].st = "zombie"
  /\ proc' = [proc EXCEPT ![p].st = "dead"]
  /\ reaper' = [reaper EXCEPT ![p] = "io"]
  /\ UNCHANGED <<up, cache, io, disk, used, pc, fr, acks, crashes, ioErrors>>

ReaperIo(p) ==
  /\ up /\ reaper[p] = "io"
  /\ io' = io \ {proc[p].ct}
  /\ reaper' = [reaper EXCEPT ![p] = "record"]
  /\ UNCHANGED <<up, cache, disk, used, proc, pc, fr, acks, crashes, ioErrors>>

Bug_OpenToReaper(c) == cacheCt[c].state # "Exited"
Bug_OpenToReaperWithIo(c) == cacheCt[c].state = "Running" /\ c \in io
OpenToReaper(c) == cacheCt[c].state = "Running"

\* The record is written while the lock is held; a failed write is ignored.
ReaperRecord(p) ==
  LET c == proc[p].ct IN
  /\ up /\ reaper[p] = "record"
  /\ reaper' = [reaper EXCEPT ![p] = "none"]
  /\ \/ /\ OpenToReaper(c)
        /\ cacheCt' = [cacheCt EXCEPT ![c] = Exited(@, proc[p].code)]
        /\ \/ diskCt' = [diskCt EXCEPT ![c] = Exited(cacheCt[c], proc[p].code)] /\ IoWorks
           \/ IoFails /\ UNCHANGED diskCt
     \/ ~OpenToReaper(c) /\ IoWorks /\ UNCHANGED <<cacheCt, diskCt>>
  /\ UNCHANGED <<up, cacheSb, io, diskSb, used, proc, pc, fr, acks, crashes>>

-----------------------------------------------------------------------------
(* stop_container, called by the client, by remove_sandbox or by            *)
(* remove_container *)

ContainerStopped(t) ==
  \/ fr[t].from = "client"  /\ Return(t) /\ AckCt(fr[t].ct, "stopped")
  \/ fr[t].from = "cascade" /\ Goto(t, "rc_check") /\ UNCHANGED <<fr, acks>>
  \/ fr[t].from = "force"   /\ Goto(t, "rc_drop") /\ UNCHANGED <<fr, acks>>

\* The snapshot decides: nothing to do, signal the pid, or mark the record.
StopCheck(t) ==
  LET rec == cacheCt[fr[t].ct] IN
  /\ At(t, "sc_check")
  /\ \/ rec.state # "Running" /\ ContainerStopped(t)
     \/ /\ rec.state = "Running" /\ rec.pid # 0
        /\ fr' = [fr EXCEPT ![t].pid = rec.pid]
        /\ Goto(t, IF fr[t].grace THEN "sc_term" ELSE "sc_kill")
        /\ UNCHANGED acks
     \/ /\ rec.state = "Running" /\ rec.pid = 0
        /\ Goto(t, "sc_mark") /\ UNCHANGED <<fr, acks>>
  /\ UNCHANGED <<up, cache, io, disk, used, proc, reaper, crashes, ioErrors>>

StopTerm(t) ==
  /\ At(t, "sc_term")
  /\ proc' = [proc EXCEPT ![fr[t].pid] = Terminated(@)]
  /\ Goto(t, "sc_grace")
  /\ UNCHANGED <<up, cache, io, disk, used, reaper, fr, acks, crashes, ioErrors>>

Bug_NoLongerRunning(c) == c \notin io

\* wait_until_exited polls the cache for Running to go away.
NoLongerRunning(c) == cacheCt[c].state # "Running"

\* The grace period: the program may take SIGTERM as it likes.
StopGrace(t) ==
  /\ At(t, "sc_grace")
  /\ \/ NoLongerRunning(fr[t].ct) /\ ContainerStopped(t)
     \/ ~NoLongerRunning(fr[t].ct) /\ Goto(t, "sc_kill") /\ UNCHANGED <<fr, acks>>
  /\ UNCHANGED <<up, cache, io, disk, used, proc, reaper, crashes, ioErrors>>

StopKill(t) ==
  /\ At(t, "sc_kill")
  /\ proc' = [proc EXCEPT ![fr[t].pid] = Killed(@)]
  /\ Goto(t, "sc_wait")
  /\ UNCHANGED <<up, cache, io, disk, used, reaper, fr, acks, crashes, ioErrors>>

\* Some reaper has yet to record the exit of a process of c.
WillBeReaped(c) == \E p \in Pids :
  /\ proc[p].ct = c
  /\ \/ reaper[p] # "none"
     \/ \E t \in Threads : fr[t].op = "StartContainer" /\ fr[t].pid = p

Bug_StopWait(t) ==
  /\ At(t, "sc_wait")
  /\ NoLongerRunning(fr[t].ct)
  /\ ContainerStopped(t)
  /\ UNCHANGED <<up, cache, io, disk, used, proc, reaper, crashes, ioErrors>>

\* The wait after SIGKILL: 5 s, and Ok whatever has happened by then.  Unless
\* SlowReap, 5 s suffice for a reaper that exists.
StopWait(t) ==
  /\ At(t, "sc_wait")
  /\ NoLongerRunning(fr[t].ct) \/ SlowReap \/ ~WillBeReaped(fr[t].ct)
  /\ ContainerStopped(t)
  /\ UNCHANGED <<up, cache, io, disk, used, proc, reaper, crashes, ioErrors>>

\* Running with pid 0: no process is known, the record is closed here.
StopMark(t) ==
  LET c == fr[t].ct
      closed == Exited(cacheCt[c], IF fr[t].grace THEN TermExit ELSE KillExit)
  IN
  /\ At(t, "sc_mark")
  /\ \/ cacheCt[c].state # "Running" /\ ContainerStopped(t) /\ UNCHANGED cacheCt
     \/ /\ cacheCt[c].state = "Running"
        /\ cacheCt' = [cacheCt EXCEPT ![c] = closed]
        /\ fr' = [fr EXCEPT ![t].rec = closed]
        /\ Goto(t, "sc_mark_write") /\ UNCHANGED acks
  /\ UNCHANGED <<up, cacheSb, io, disk, used, proc, reaper, crashes, ioErrors>>

StopMarkWrite(t) ==
  /\ At(t, "sc_mark_write")
  /\ \/ /\ diskCt' = [diskCt EXCEPT ![fr[t].ct] = fr[t].rec]
        /\ ContainerStopped(t) /\ IoWorks /\ UNCHANGED diskSb
     \/ IoErrorReturn(t)
  /\ UNCHANGED <<up, cache, io, used, proc, reaper, crashes>>

-----------------------------------------------------------------------------
(* remove_container, called by the client or by remove_sandbox *)

ContainerRemoved(t) ==
  IF fr[t].op = "RemoveSandbox"
  THEN Goto(t, "rs_next") /\ UNCHANGED <<fr, acks>>
  ELSE Return(t) /\ AckCt(fr[t].ct, "gone")

Bug_StopsFirst(rec) == rec.state = "Running" /\ rec.pid = 0
StopsFirst(rec) == rec.state = "Running"

\* Absent is done; Running is force-stopped first.
RemoveCheck(t) ==
  LET c == fr[t].ct IN
  /\ At(t, "rc_check")
  /\ \/ cacheCt[c].state = "absent" /\ ContainerRemoved(t)
     \/ /\ StopsFirst(cacheCt[c])
        /\ fr' = [fr EXCEPT ![t].from = "force", ![t].grace = FALSE]
        /\ Goto(t, "sc_check") /\ UNCHANGED acks
     \/ /\ cacheCt[c].state # "absent" /\ ~StopsFirst(cacheCt[c])
        /\ Goto(t, "rc_drop") /\ UNCHANGED <<fr, acks>>
  /\ UNCHANGED <<up, cache, io, disk, used, proc, reaper, crashes, ioErrors>>

RemoveDrop(t) ==
  /\ At(t, "rc_drop")
  /\ cacheCt' = [cacheCt EXCEPT ![fr[t].ct] = Absent]
  /\ Goto(t, "rc_io")
  /\ UNCHANGED <<up, cacheSb, io, disk, used, proc, reaper, fr, acks, crashes, ioErrors>>

RemoveIo(t) ==
  /\ At(t, "rc_io")
  /\ io' = io \ {fr[t].ct}
  /\ Goto(t, "rc_unlink")
  /\ UNCHANGED <<up, cache, disk, used, proc, reaper, fr, acks, crashes, ioErrors>>

RemoveUnlink(t) ==
  /\ At(t, "rc_unlink")
  /\ \/ diskCt' = [diskCt EXCEPT ![fr[t].ct] = Absent] /\ IoWorks
     \/ IoFails /\ UNCHANGED diskCt
  /\ ContainerRemoved(t)
  /\ UNCHANGED <<up, cache, io, diskSb, used, proc, reaper, crashes>>

-----------------------------------------------------------------------------
(* The kernel and the server process *)

\* A container's program ends by itself, or by the SIGTERM it was sent.
ProcessExits(p) ==
  /\ proc[p].st = "live"
  /\ \E code \in {OwnExit} \cup (IF proc[p].term THEN {TermExit} ELSE {}) :
        proc' = [proc EXCEPT ![p] = Ended(@, code)]
  /\ UNCHANGED <<up, cache, io, disk, used, reaper, pc, fr, acks, crashes, ioErrors>>

\* A freed pid is given to a process that has nothing to do with containers.
PidReused(p) ==
  /\ PidReuse /\ proc[p].st = "dead"
  /\ proc' = [proc EXCEPT ![p].st = "foreign"]
  /\ UNCHANGED <<up, cache, io, disk, used, reaper, pc, fr, acks, crashes, ioErrors>>

\* kill -9 of the server, between any two steps, those of `open` included: all but disk and kernel is lost.
Crash ==
  /\ crashes < MaxCrashes
  /\ up' = FALSE /\ crashes' = crashes + 1
  /\ cacheSb' = [s \in Sandboxes |-> "absent"]
  /\ cacheCt' = [c \in Containers |-> Absent]
  /\ io' = {}
  /\ proc' = [p \in Pids |-> Orphaned(proc[p])]
  /\ reaper' = [p \in Pids |-> "none"]
  /\ pc' = [t \in Threads |-> "idle"]
  /\ fr' = [t \in Threads |-> IdleFrame]
  /\ UNCHANGED <<disk, used, acks, ioErrors>>

Bug_RecoveredAsCreated(rec) ==
  IF rec.state = "Running" /\ (rec.pid \in Pids => ~PidAlive(proc[rec.pid]))
  THEN [rec EXCEPT !.state = "Created"] ELSE rec

Bug_RecoveredAsZero(rec) ==
  IF rec.state = "Running" /\ (rec.pid \in Pids => ~PidAlive(proc[rec.pid]))
  THEN Exited(rec, 0) ELSE rec

\* What `open` makes of a record: a Running one whose pid was never written or
\* does not answer kill(pid, 0) is closed with exit code -1.
Recovered(rec) ==
  IF /\ rec.state = "Running"
     /\ rec.pid \in Pids => ~PidAlive(proc[rec.pid])
  THEN Exited(rec, LostExit)
  ELSE rec

\* `open` reads the container records one by one, and writes a corrected one
\* back; the result of that write is ignored.  No reaper is started for what is
\* still Running.
OpenContainer(c) ==
  /\ ~up /\ cacheCt[c].state = "absent" /\ diskCt[c].state # "absent"
  /\ cacheCt' = [cacheCt EXCEPT ![c] = Recovered(diskCt[c])]
  /\ \/ diskCt' = [diskCt EXCEPT ![c] = Recovered(@)] /\ IoWorks
     \/ IoFails /\ UNCHANGED diskCt
  /\ UNCHANGED <<up, cacheSb, io, diskSb, used, proc, reaper, pc, fr, acks, crashes>>

\* Every record has been read: the server serves again.
Opened ==
  /\ ~up /\ up' = TRUE
  /\ \A c \in Containers : diskCt[c].state # "absent" => cacheCt[c].state # "absent"
  /\ cacheSb' = diskSb
  /\ UNCHANGED <<cacheCt, io, disk, used, proc, reaper, pc, fr, acks, crashes, ioErrors>>

-------------------------------------------------------------------------------
Calls(t) ==
  \/ CallRunSandbox(t) \/ CallStopSandbox(t) \/ CallRemoveSandbox(t)
  \/ CallCreateContainer(t) \/ CallStartContainer(t) \/ CallStopContainer(t)
  \/ CallRemoveContainer(t)

SandboxSteps(t) ==
  \/ RunWrite(t) \/ RunInsert(t) \/ StopSandboxMark(t) \/ StopSandboxWrite(t)
  \/ RemoveSandboxScan(t) \/ RemoveSandboxNext(t) \/ RemoveSandboxDrop(t)
  \/ RemoveSandboxUnlink(t)

StartSteps(t) ==
  \/ CreateCheck(t) \/ CreateWrite(t) \/ CreateInsert(t)
  \/ StartCheck(t) \/ StartIntent(t) \/ StartIntentWrite(t) \/ StartSpawn(t)
  \/ StartFailed(t) \/ StartFailedWrite(t) \/ StartIo(t) \/ StartPid(t)
  \/ StartPidWrite(t)

StopSteps(t) ==
  \/ StopCheck(t) \/ StopTerm(t) \/ StopGrace(t) \/ StopKill(t) \/ StopWait(t)
  \/ StopMark(t) \/ StopMarkWrite(t)
  \/ RemoveCheck(t) \/ RemoveDrop(t) \/ RemoveIo(t) \/ RemoveUnlink(t)

ThreadStep(t) == SandboxSteps(t) \/ StartSteps(t) \/ StopSteps(t)

ReaperStep(p) == ReaperWait(p) \/ ReaperIo(p) \/ ReaperRecord(p)

Environment ==
  \/ Crash \/ Opened
  \/ \E c \in Containers : OpenContainer(c)
  \/ \E p \in Pids : ProcessExits(p) \/ PidReused(p)

Next ==
  \/ \E t \in Threads : Calls(t) \/ ThreadStep(t)
  \/ \E p \in Pids : ReaperStep(p)
  \/ Environment

Spec == Init /\ [][Next]_vars

\* Threads are scheduled, and every wait in the code has a deadline.  Nothing is
\* assumed of clients, of programs, or of who restarts the server.
Fairness ==
  /\ \A t \in Threads : WF_vars(ThreadStep(t))
  /\ \A p \in Pids : WF_vars(ReaperStep(p))

FairSpec == Spec /\ Fairness

-----------------------------------------------------------------------------
(* Properties *)

\* Every variable holds what its Rust type (or the kernel) allows.
TypeOK ==
  /\ up \in BOOLEAN
  /\ cacheSb \in [Sandboxes -> SbStates] /\ diskSb \in [Sandboxes -> SbStates]
  /\ cacheCt \in [Containers -> CtRecords] /\ diskCt \in [Containers -> CtRecords]
  /\ io \subseteq Containers
  /\ usedSb \subseteq Sandboxes /\ usedCt \subseteq Containers
  /\ proc \in [Pids -> Processes]
  /\ reaper \in [Pids -> {"none", "wait", "io", "record"}]
  /\ pc \in [Threads -> Labels]
  /\ fr \in [Threads -> Frames]
  /\ ackSb \in [Sandboxes -> SUBSET SbFacts]
  /\ ackCt \in [Containers -> SUBSET CtFacts]
  /\ crashes \in Nat /\ ioErrors \in Nat

\* Persist before visible: whatever a status or list call can show is on disk,
\* under any interleaving of calls, crashes and file errors.
VisibleIsDurable ==
  /\ \A s \in Sandboxes : cacheSb[s] # "absent" => diskSb[s] # "absent"
  /\ \A c \in Containers : cacheCt[c].state # "absent" => diskCt[c].state # "absent"

\* The crash-only law: what a call that returned Ok has done is on disk, so no
\* crash can take it back.
Durable ==
  /\ \A s \in Sandboxes :
       /\ "exists"  \in ackSb[s] => diskSb[s] # "absent"
       /\ "stopped" \in ackSb[s] => diskSb[s] # "Ready"
       /\ "gone"    \in ackSb[s] => diskSb[s] = "absent"
  /\ \A c \in Containers :
       /\ "exists"  \in ackCt[c] => diskCt[c].state # "absent"
       /\ "started" \in ackCt[c] => diskCt[c].state # "Created"
       /\ "gone"    \in ackCt[c] => diskCt[c].state = "absent"

\* An Ok from stop_container means the container is no longer Running, when its program is
\* a child of this server: for one that `open` re-adopted there is no reaper to wait for.
StopStopsChild ==
  \A p \in Pids : proc[p].child /\ "stopped" \in ackCt[proc[p].ct] =>
    cacheCt[proc[p].ct].state # "Running"

\* A container on disk or in the cache has its sandbox there: remove_sandbox
\* takes the containers first and create_container comes after run_sandbox.
NoOrphanContainer ==
  \A c \in Containers :
    /\ diskCt[c].state # "absent" => diskSb[diskCt[c].sandbox] # "absent"
    /\ up /\ cacheCt[c].state # "absent" => cacheSb[cacheCt[c].sandbox] # "absent"

\* start only from Created, so a container's program is spawned at most once.
SpawnedOnce ==
  \A p, q \in Pids :
    proc[p].st # "free" /\ proc[q].st # "free" /\ proc[p].ct = proc[q].ct => p = q

\* A live child is known: its container is Running with its pid, or the call
\* that spawned it has not returned.
ChildIsTracked ==
  \A p \in Pids : proc[p].st = "live" /\ proc[p].child =>
    \/ cacheCt[proc[p].ct].state = "Running" /\ cacheCt[proc[p].ct].pid = p
    \/ \E t \in Threads : fr[t].op = "StartContainer" /\ fr[t].pid = p

\* A recorded exit code other than -1 is how a process of the container ended.
ExitCodeIsReal ==
  \A c \in Containers : cacheCt[c].state = "Exited" /\ cacheCt[c].code # LostExit =>
    \E p \in Pids : proc[p].ct = c /\ proc[p].st \notin {"free", "live"}
                    /\ proc[p].code = cacheCt[c].code

\* Within one life of the server, an id that was removed is never seen again.
GoneStaysGone ==
  [][up /\ up' =>
      /\ \A s \in Sandboxes : "gone" \in ackSb[s] /\ cacheSb[s] = "absent" => cacheSb'[s] = "absent"
      /\ \A c \in Containers : "gone" \in ackCt[c] /\ cacheCt[c].state = "absent" =>
                                cacheCt'[c].state = "absent"]_vars

\* Every call returns, unless the server dies.
CallsReturn == \A t \in Threads : (pc[t] # "idle") ~> (pc[t] = "idle")

\* The end of a program whose pid the record holds is recorded, unless the
\* server dies first or a write fails: a start whose last write fails leaves the
\* program without a reaper.
ExitIsRecorded ==
  \A c \in Containers, p \in Pids :
    (cacheCt[c].state = "Running" /\ cacheCt[c].pid = p /\ proc[p].st = "zombie")
      ~> (cacheCt[c].state # "Running" \/ ioErrors > 0)

=============================================================================

--------------------------- MODULE SandboxNetwork ---------------------------
(***************************************************************************)
(* The network of a pod sandbox: the CNI chain and the pinned network      *)
(* namespace that run_sandbox builds and remove_sandbox takes down         *)
(* (lightr-cri-net and cni_setup, cni_teardown of the fake backend), and   *)
(* the processes that join it: a container's, an exec's, and the dial of a *)
(* port forward.  One container per sandbox stands for them all.           *)
(*                                                                         *)
(* Plugins are numbered in the order of the conflist.  What a plugin does  *)
(* outside (a veth, an address, a port rule) is its number in `attached'.  *)
(* Host names, resolv.conf and addresses are abstracted: the first two    *)
(* are best effort in the code and no property is about them.              *)
(***************************************************************************)
EXTENDS Integers, FiniteSets

CONSTANTS
  Sandboxes,    \* ids run_sandbox may give out, each once
  Threads,      \* blocking threads a call may run on
  NPlugins,     \* length of the conflist
  MaxFaults,    \* bound on failing system calls and plugins
  MaxCrashes    \* bound on kills of the server

ASSUME NetworkConstants ==
  /\ NPlugins \in Nat \ {0} /\ MaxFaults \in Nat /\ MaxCrashes \in Nat
  /\ "host" \notin Sandboxes

Plugins == 1..NPlugins

\* What a SandboxRecord says of its state and of its netns_path.
NoRecord == [state |-> "none", netns |-> FALSE]
Records == {NoRecord} \cup [state : {"Ready", "NotReady"}, netns : BOOLEAN]

VARIABLES
  disk, cache,   \* the record of each sandbox in its file and in the cache
  file, mounted, \* the files in /run/netns, and those a namespace is mounted on
  attached,      \* per sandbox, the plugins whose ADD is in effect
  container,     \* per sandbox: its container, "none", "Created", "Running", "Exited"
  procs,         \* processes that joined, as <<kind, sandbox, network they run in>>
  call,          \* per thread, the call it runs
  cni,           \* what the probe finds: a conflist, a binary directory, the privilege
  fresh,         \* ids not given out yet
  known,         \* history: sandboxes whose record has been persisted
  unclean,       \* history: sandboxes with a DEL that failed or was skipped
  pinned,        \* history: sandboxes with an unmount that failed
  unsaved,       \* history: sandboxes marked NotReady whose file does not say so
  faults, crashes

vars == <<disk, cache, file, mounted, attached, container, procs, call, cni,
          fresh, known, unclean, pinned, unsaved, faults, crashes>>

pins == <<file, mounted, attached>>
books == <<fresh, known, unclean, pinned, unsaved, crashes>>
others == <<container, procs, cni>>

Idle == [op |-> "idle"]
Goto(t, rec) == call' = [call EXCEPT ![t] = rec]
Return(t) == Goto(t, Idle)
At(t, op, pc) == call[t].op = op /\ call[t].pc = pc
Fault == faults < MaxFaults /\ faults' = faults + 1

Init ==
  /\ disk = [s \in Sandboxes |-> NoRecord] /\ cache = disk
  /\ file = {} /\ mounted = {}
  /\ attached = [s \in Sandboxes |-> {}]
  /\ container = [s \in Sandboxes |-> "none"] /\ procs = {}
  /\ call = [t \in Threads |-> Idle]
  /\ cni \in BOOLEAN
  /\ fresh = Sandboxes /\ known = {} /\ unclean = {} /\ pinned = {} /\ unsaved = {}
  /\ faults = 0 /\ crashes = 0
-----------------------------------------------------------------------------
(* run_sandbox.  Every error after the namespace is made returns without   *)
(* taking anything down.                                                   *)

RunCall(t, s, host_network) ==
  /\ call[t] = Idle /\ s \in fresh
  /\ fresh' = fresh \ {s}
  /\ Goto(t, [op |-> "run", sb |-> s, netns |-> ~host_network /\ cni,
              pc |-> IF ~host_network /\ cni THEN "touch" ELSE "persist", at |-> 1])
  /\ UNCHANGED <<disk, cache, pins, others, known, unclean, pinned, unsaved, faults, crashes>>

\* netns::create makes the mount point.
RunTouch(t) ==
  /\ At(t, "run", "touch")
  /\ \/ /\ file' = file \cup {call[t].sb}
        /\ Goto(t, [call[t] EXCEPT !.pc = "mount"]) /\ UNCHANGED faults
     \/ Fault /\ Return(t) /\ UNCHANGED file
  /\ UNCHANGED <<disk, cache, mounted, attached, others, books>>

\* The dedicated thread unshares and pins its namespace by a bind mount.
RunMount(t) ==
  /\ At(t, "run", "mount")
  /\ \/ /\ mounted' = mounted \cup {call[t].sb}
        /\ Goto(t, [call[t] EXCEPT !.pc = "conflist"]) /\ UNCHANGED faults
     \/ Fault /\ Return(t) /\ UNCHANGED mounted
  /\ UNCHANGED <<disk, cache, file, attached, others, books>>

\* The conflist the probe saw may be gone when it is looked for again.
RunConflist(t) ==
  /\ At(t, "run", "conflist")
  /\ IF cni THEN Goto(t, [call[t] EXCEPT !.pc = "add"]) ELSE Return(t)
  /\ UNCHANGED <<disk, cache, pins, others, books, faults>>

\* Mutant: a plugin that fails is passed over.
Bug_RunAdd(t) ==
  LET s == call[t].sb  p == call[t].at IN
  /\ At(t, "run", "add")
  /\ \/ attached' = [attached EXCEPT ![s] = @ \cup {p}] /\ UNCHANGED faults
     \/ Fault /\ UNCHANGED attached
  /\ Goto(t, [call[t] EXCEPT !.at = p + 1, !.pc = IF p = NPlugins THEN "persist" ELSE "add"])
  /\ UNCHANGED <<disk, cache, file, mounted, others, books>>

\* chain::add runs the plugins forward and stops at the first that fails; whether that
\* one left anything behind is the plugin's affair.
RunAdd(t) ==
  LET s == call[t].sb  p == call[t].at IN
  /\ At(t, "run", "add")
  /\ \/ /\ attached' = [attached EXCEPT ![s] = @ \cup {p}]
        /\ Goto(t, [call[t] EXCEPT !.at = p + 1,
                                   !.pc = IF p = NPlugins THEN "persist" ELSE "add"])
        /\ UNCHANGED faults
     \/ /\ Fault /\ Return(t)
        /\ \E left \in {{}, {p}} : attached' = [attached EXCEPT ![s] = @ \cup left]
  /\ UNCHANGED <<disk, cache, file, mounted, others, books>>

RunPersist(t) ==
  LET s == call[t].sb IN
  /\ At(t, "run", "persist")
  /\ \/ /\ disk' = [disk EXCEPT ![s] = [state |-> "Ready", netns |-> call[t].netns]]
        /\ known' = known \cup {s}
        /\ Goto(t, [call[t] EXCEPT !.pc = "insert"]) /\ UNCHANGED faults
     \/ Fault /\ Return(t) /\ UNCHANGED <<disk, known>>
  /\ UNCHANGED <<cache, pins, others, fresh, unclean, pinned, unsaved, crashes>>

RunInsert(t) ==
  LET s == call[t].sb IN
  /\ At(t, "run", "insert")
  /\ cache' = [cache EXCEPT ![s] = [state |-> "Ready", netns |-> call[t].netns]]
  /\ Return(t)
  /\ UNCHANGED <<disk, pins, others, books, faults>>
-----------------------------------------------------------------------------
(* stop_sandbox and remove_sandbox.  The records of containers in           *)
(* FakeBackend are not repeated: the removal of a container is one step.    *)

\* stop_sandbox marks the record under the lock and keeps a clone of it to write; one that
\* is not Ready it leaves as it is, whatever its file says.
Mark(s) ==
  /\ cache' = [cache EXCEPT ![s].state = "NotReady"]
  /\ unsaved' = unsaved \cup {s}

StopCall(t, s) ==
  /\ call[t] = Idle /\ cache[s].state = "Ready"
  /\ Mark(s)
  /\ Goto(t, [op |-> "stop", sb |-> s, pc |-> "write", netns |-> cache[s].netns, remove |-> FALSE])
  /\ UNCHANGED <<disk, pins, others, fresh, known, unclean, pinned, faults, crashes>>

RemoveCall(t, s) ==
  /\ call[t] = Idle /\ cache[s] # NoRecord
  /\ IF cache[s].state = "Ready"
     THEN /\ Mark(s)
          /\ Goto(t, [op |-> "stop", sb |-> s, pc |-> "write", netns |-> cache[s].netns,
                      remove |-> TRUE])
     ELSE /\ Goto(t, [op |-> "remove", sb |-> s, pc |-> "scan"])
          /\ UNCHANGED <<cache, unsaved>>
  /\ UNCHANGED <<disk, pins, others, fresh, known, unclean, pinned, faults, crashes>>

\* The write comes after the lock, so it may bring the file of a removed sandbox back.  An
\* error ends the removal too.
StopWrite(t) ==
  LET s == call[t].sb IN
  /\ At(t, "stop", "write")
  /\ \/ /\ disk' = [disk EXCEPT ![s] = [state |-> "NotReady", netns |-> call[t].netns]]
        /\ unsaved' = unsaved \ {s}
        /\ IF call[t].remove THEN Goto(t, [op |-> "remove", sb |-> s, pc |-> "scan"])
                             ELSE Return(t)
        /\ UNCHANGED faults
     \/ Fault /\ Return(t) /\ UNCHANGED <<disk, unsaved>>
  /\ UNCHANGED <<cache, pins, others, fresh, known, unclean, pinned, crashes>>

\* The ids of the containers and the netns path are copied under one lock.
RemoveScan(t) ==
  LET s == call[t].sb IN
  /\ At(t, "remove", "scan")
  /\ IF cache[s] = NoRecord THEN Return(t)
     ELSE Goto(t, [op |-> "remove", sb |-> s, pc |-> "containers",
                   found |-> container[s] # "none", netns |-> cache[s].netns])
  /\ UNCHANGED <<disk, cache, pins, others, books, faults>>

\* The first container that cannot be stopped or removed ends the call.
RemoveContainers(t) ==
  LET s == call[t].sb IN
  /\ At(t, "remove", "containers")
  /\ \/ /\ IF call[t].found
           THEN /\ container' = [container EXCEPT ![s] = "none"]
                /\ procs' = {p \in procs : p[1] # "main" \/ p[2] # s}
           ELSE UNCHANGED <<container, procs>>
        /\ Goto(t, [op |-> "remove", sb |-> s, at |-> NPlugins,
                    pc |-> IF call[t].netns THEN "conflist" ELSE "drop"])
        /\ UNCHANGED faults
     \/ call[t].found /\ Fault /\ Return(t) /\ UNCHANGED <<container, procs>>
  /\ UNCHANGED <<disk, cache, pins, cni, books>>

\* Mutant: without CNI there is nothing to tear down.
Bug_RemoveConflist(t) ==
  LET s == call[t].sb IN
  /\ At(t, "remove", "conflist")
  /\ Goto(t, [call[t] EXCEPT !.pc = IF cni THEN "del" ELSE "drop"])
  /\ unclean' = IF cni THEN unclean ELSE unclean \cup {s}
  /\ UNCHANGED <<disk, cache, pins, others, fresh, known, pinned, unsaved, faults, crashes>>

\* cni_teardown probes again: without CNI the chain is skipped and the teardown goes on.
RemoveConflist(t) ==
  LET s == call[t].sb IN
  /\ At(t, "remove", "conflist")
  /\ Goto(t, [call[t] EXCEPT !.pc = IF cni THEN "del" ELSE "umount"])
  /\ unclean' = IF cni THEN unclean ELSE unclean \cup {s}
  /\ UNCHANGED <<disk, cache, pins, others, fresh, known, pinned, unsaved, faults, crashes>>

\* Mutant: the chain is taken down in the order it was built.
Bug_RemoveDel(t) ==
  LET s == call[t].sb  p == call[t].at IN
  /\ At(t, "remove", "del")
  /\ \/ /\ attached' = [attached EXCEPT ![s] = @ \ {NPlugins + 1 - p}]
        /\ UNCHANGED <<unclean, faults>>
     \/ /\ Fault /\ unclean' = unclean \cup {s} /\ UNCHANGED attached
  /\ Goto(t, [call[t] EXCEPT !.at = p - 1, !.pc = IF p = 1 THEN "umount" ELSE "del"])
  /\ UNCHANGED <<disk, cache, file, mounted, others, fresh, known, pinned, unsaved, crashes>>

\* chain::del runs the plugins backward and goes on past the ones that fail.
RemoveDel(t) ==
  LET s == call[t].sb  p == call[t].at IN
  /\ At(t, "remove", "del")
  /\ \/ /\ attached' = [attached EXCEPT ![s] = @ \ {p}]
        /\ UNCHANGED <<unclean, faults>>
     \/ /\ Fault /\ unclean' = unclean \cup {s} /\ UNCHANGED attached
  /\ Goto(t, [call[t] EXCEPT !.at = p - 1, !.pc = IF p = 1 THEN "umount" ELSE "del"])
  /\ UNCHANGED <<disk, cache, file, mounted, others, fresh, known, pinned, unsaved, crashes>>

\* netns::teardown: a failed umount, as when nothing is mounted there, skips the unlink;
\* cni_teardown logs either failure, and the removal goes on.
RemoveUmount(t) ==
  LET s == call[t].sb IN
  /\ At(t, "remove", "umount")
  /\ \/ /\ mounted' = mounted \ {s}
        /\ Goto(t, [call[t] EXCEPT !.pc = IF s \in mounted THEN "unlink" ELSE "drop"])
        /\ UNCHANGED <<pinned, faults>>
     \/ /\ Fault /\ pinned' = pinned \cup {s}
        /\ Goto(t, [call[t] EXCEPT !.pc = "drop"]) /\ UNCHANGED mounted
  /\ UNCHANGED <<disk, cache, file, attached, others, fresh, known, unclean, unsaved, crashes>>

RemoveUnlink(t) ==
  /\ At(t, "remove", "unlink")
  /\ \/ file' = file \ {call[t].sb} /\ UNCHANGED faults
     \/ Fault /\ UNCHANGED file
  /\ Goto(t, [call[t] EXCEPT !.pc = "drop"])
  /\ UNCHANGED <<disk, cache, mounted, attached, others, books>>

RemoveDrop(t) ==
  LET s == call[t].sb IN
  /\ At(t, "remove", "drop")
  /\ cache' = [cache EXCEPT ![s] = NoRecord]
  /\ IF cache[s] = NoRecord THEN Return(t)
     ELSE Goto(t, [call[t] EXCEPT !.pc = "forget"])
  /\ UNCHANGED <<disk, pins, others, books, faults>>

\* An error of the unlink is dropped: the file stays for the next open.
RemoveForget(t) ==
  LET s == call[t].sb IN
  /\ At(t, "remove", "forget")
  /\ \/ /\ disk' = [disk EXCEPT ![s] = NoRecord] /\ unsaved' = unsaved \ {s}
        /\ UNCHANGED faults
     \/ Fault /\ UNCHANGED <<disk, unsaved>>
  /\ Return(t)
  /\ UNCHANGED <<cache, pins, others, fresh, known, unclean, pinned, crashes>>
-----------------------------------------------------------------------------
(* The processes that join.                                                *)

CreateCheck(t, s) ==
  /\ call[t] = Idle /\ cache[s].state = "Ready" /\ container[s] = "none"
  /\ Goto(t, [op |-> "create", sb |-> s, pc |-> "insert"])
  /\ UNCHANGED <<disk, cache, pins, others, books, faults>>

CreateInsert(t) ==
  /\ At(t, "create", "insert")
  /\ container' = [container EXCEPT ![call[t].sb] =
                     IF @ = "none" THEN "Created" ELSE @]
  /\ Return(t)
  /\ UNCHANGED <<disk, cache, pins, procs, cni, books, faults>>

\* Mutant: a sandbox that was stopped counts as one that is gone.
Bug_Target(s) == IF cache[s].state = "Ready" /\ cache[s].netns THEN s ELSE "host"

\* The network a process is to run in, as read from the cache: a sandbox that is gone
\* reads like one on the host network (unwrap_or_default, and_then).
Target(s) == IF cache[s].netns THEN s ELSE "host"

StartLookup(t, s) ==
  /\ call[t] = Idle /\ container[s] = "Created"
  /\ Goto(t, [op |-> "start", sb |-> s, net |-> Target(s), pc |-> "join"])
  /\ UNCHANGED <<disk, cache, pins, others, books, faults>>

ExecLookup(t, s) ==
  /\ call[t] = Idle /\ container[s] = "Running"
  /\ Goto(t, [op |-> "exec", sb |-> s, pc |-> "proc"])
  /\ UNCHANGED <<disk, cache, pins, others, books, faults>>

\* join_container_mnt_uts fails closed when the main process is gone.
ExecProc(t) ==
  LET s == call[t].sb IN
  /\ At(t, "exec", "proc")
  /\ IF container[s] = "Running" THEN Goto(t, [call[t] EXCEPT !.pc = "net"]) ELSE Return(t)
  /\ UNCHANGED <<disk, cache, pins, others, books, faults>>

ExecNet(t) ==
  /\ At(t, "exec", "net")
  /\ Goto(t, [op |-> "exec", sb |-> call[t].sb, net |-> Target(call[t].sb), pc |-> "join"])
  /\ UNCHANGED <<disk, cache, pins, others, books, faults>>

\* The token of a port forward carries the path the sandbox had when the URL was minted.
DialMint(t, s) ==
  /\ call[t] = Idle /\ cache[s].state = "Ready"
  /\ Goto(t, [op |-> "dial", sb |-> s, net |-> Target(s), pc |-> "join"])
  /\ UNCHANGED <<disk, cache, pins, others, books, faults>>

\* The namespace file is opened before the fork; setns on a file with nothing mounted on
\* it fails, and so does the open of a file that is gone: the caller gets an error.
Join(t) ==
  LET s == call[t].sb IN
  /\ call[t].op \in {"start", "exec", "dial"} /\ call[t].pc = "join"
  /\ IF call[t].net = "host" \/ s \in file \cap mounted
     THEN Goto(t, [call[t] EXCEPT !.pc = "spawn"])
     ELSE Return(t)
  /\ UNCHANGED <<disk, cache, pins, others, books, faults>>

\* start_container writes its intent first: a container that is gone is NotFound.
Spawn(t) ==
  LET s == call[t].sb IN
  /\ call[t].op \in {"start", "exec", "dial"} /\ call[t].pc = "spawn"
  /\ CASE call[t].op = "start" ->
            IF container[s] = "none" THEN UNCHANGED <<container, procs>>
            ELSE /\ container' = [container EXCEPT ![s] = "Running"]
                 /\ procs' = procs \cup {<<"main", s, call[t].net>>}
       [] OTHER -> /\ procs' = procs \cup {<<call[t].op, s, call[t].net>>}
                   /\ UNCHANGED container
  /\ Return(t)
  /\ UNCHANGED <<disk, cache, pins, cni, books, faults>>

Exit(s) ==
  /\ container[s] = "Running"
  /\ container' = [container EXCEPT ![s] = "Exited"]
  /\ procs' = {p \in procs : p[1] # "main" \/ p[2] # s}
  /\ UNCHANGED <<disk, cache, pins, call, cni, books, faults>>
-----------------------------------------------------------------------------
\* The operator installs or removes the conflist.
Reconfigure ==
  /\ Fault /\ cni' = ~cni
  /\ UNCHANGED <<disk, cache, pins, container, procs, call, books>>

\* The server is killed and started again: the namespaces and the plugins' work stay, the
\* records are read back, and nothing sweeps /run/netns.
Crash ==
  /\ crashes < MaxCrashes /\ crashes' = crashes + 1
  /\ call' = [t \in Threads |-> Idle]
  /\ cache' = disk
  /\ UNCHANGED <<disk, pins, others, fresh, known, unclean, pinned, unsaved, faults>>

RunStep(t) ==
  \/ RunTouch(t) \/ RunMount(t) \/ RunConflist(t) \/ RunAdd(t) \/ RunPersist(t) \/ RunInsert(t)

RemoveStep(t) ==
  \/ StopWrite(t) \/ RemoveScan(t) \/ RemoveContainers(t) \/ RemoveConflist(t) \/ RemoveDel(t)
  \/ RemoveUmount(t) \/ RemoveUnlink(t) \/ RemoveDrop(t) \/ RemoveForget(t)

JoinStep(t) ==
  \/ CreateInsert(t) \/ ExecProc(t) \/ ExecNet(t) \/ Join(t) \/ Spawn(t)
  \/ \E s \in Sandboxes :
       \/ CreateCheck(t, s) \/ StartLookup(t, s) \/ ExecLookup(t, s) \/ DialMint(t, s)

Next ==
  \/ \E t \in Threads :
       \/ RunStep(t) \/ RemoveStep(t) \/ JoinStep(t)
       \/ \E s \in Sandboxes :
            \/ StopCall(t, s) \/ RemoveCall(t, s)
            \/ \E h \in BOOLEAN : RunCall(t, s, h)
  \/ \E s \in Sandboxes : Exit(s)
  \/ Reconfigure \/ Crash

Spec == Init /\ [][Next]_vars
-----------------------------------------------------------------------------
Calls ==
  [op : {"idle"}]
  \cup [op : {"run"}, sb : Sandboxes, netns : BOOLEAN, at : 1..(NPlugins + 1),
        pc : {"touch", "mount", "conflist", "add", "persist", "insert"}]
  \cup [op : {"stop"}, sb : Sandboxes, pc : {"write"}, netns : BOOLEAN, remove : BOOLEAN]
  \cup [op : {"remove"}, sb : Sandboxes, pc : {"scan"}]
  \cup [op : {"remove"}, sb : Sandboxes, pc : {"containers"}, found : BOOLEAN, netns : BOOLEAN]
  \cup [op : {"remove"}, sb : Sandboxes, at : 0..NPlugins,
        pc : {"conflist", "del", "umount", "unlink", "drop", "forget"}]
  \cup [op : {"create"}, sb : Sandboxes, pc : {"insert"}]
  \cup [op : {"exec"}, sb : Sandboxes, pc : {"proc", "net"}]
  \cup [op : {"start", "exec", "dial"}, sb : Sandboxes, net : Sandboxes \cup {"host"},
        pc : {"join", "spawn"}]

\* Every variable has its type; the calls of a thread have the steps of their functions.
TypeOK ==
  /\ disk \in [Sandboxes -> Records] /\ cache \in [Sandboxes -> Records]
  /\ file \subseteq Sandboxes /\ mounted \subseteq Sandboxes
  /\ attached \in [Sandboxes -> SUBSET Plugins]
  /\ container \in [Sandboxes -> {"none", "Created", "Running", "Exited"}]
  /\ procs \subseteq {"main", "exec", "dial"} \X Sandboxes \X (Sandboxes \cup {"host"})
  /\ call \in [Threads -> Calls]
  /\ cni \in BOOLEAN
  /\ fresh \subseteq Sandboxes /\ known \subseteq Sandboxes /\ unclean \subseteq Sandboxes
  /\ pinned \subseteq Sandboxes /\ unsaved \subseteq Sandboxes
  /\ faults \in Nat /\ crashes \in Nat

\* A sandbox that is Ready on a network of its own, in memory or in its file, has all of it:
\* the pinned namespace and the work of every plugin.  A failing chain must not leave a record
\* (run_sandbox persists last), and a removal must take the sandbox out of Ready before it
\* takes anything down.  Excepted until it is written is a sandbox whose NotReady has not
\* reached its file, because the write of the stop failed or is still to come: another stop or
\* removal then does not write, and after a kill the sandbox is Ready with its network gone.
NetworkIsWhole ==
  \A s \in Sandboxes \ unsaved :
    [state |-> "Ready", netns |-> TRUE] \in {disk[s], cache[s]} =>
      s \in file \cap mounted /\ attached[s] = Plugins

\* The record outlives the network it describes: as long as a namespace that was once
\* recorded is mounted, or a plugin's work is in effect, the sandbox is on disk, so that a
\* removal cut short by a kill can be made again (remove_sandbox drops the record last).
\* Excepted is what failed to go: cni_teardown logs it and the record is dropped all the same.
RecordOutlivesNetwork ==
  \A s \in known :
    (s \in mounted \ pinned \/ (attached[s] # {} /\ s \notin unclean)) => disk[s] # NoRecord

\* The chain is built forward and taken down backward (chain::add, chain::del): whatever
\* races or fails, a plugin is in effect only with every plugin before it, unless a DEL
\* failed.
ChainIsPrefix ==
  \A s \in Sandboxes \ unclean : \A p \in attached[s] : 1..p \subseteq attached[s]

\* Nobody runs on the host network for a sandbox that still has its own: the path is read
\* from the record, and the record goes after the namespace (start_container, open_exec,
\* exec_sync, port_forward).
OwnNetworkWhileRecorded ==
  [][\A p \in procs' \ procs :
       p[3] = "host" => ~ (p[2] \in mounted /\ cache[p[2]].netns)]_vars
=============================================================================

# lightr-cri in TLA+

Specifications of lightr-cri, a Kubernetes CRI runtime that calls itself
stateless and crash-only: TLA+ modules for its components, TLC configurations
that check them on small instances, and TLAPS proofs for every instance.
Source paths below are relative to `src/`.

## 1. The system

| Component | State | Operations | Hard part |
|---|---|---|---|
| **Backend lifecycle** `crates/lightr-cri-fake/src/lib.rs` | `Cache` behind one mutex, JSON records under `sandboxes/`, `containers/`, `io_table`, spawned children, one detached reaper thread per child | `run/stop/remove_sandbox`, `create/start/stop/remove_container`, status and list calls, `open` | calls run concurrently and are not cancelled; records are cloned under the lock and written after it; start and stop take many steps; `kill -9` at any of them |
| **State law** trait `CriBackend`, `crates/lightr-cri-backend/src/lib.rs:263-272` | the records that exist | the same calls, one step each | it is the contract |
| **Image store** fake `lib.rs:1477-1600` | image records in cache and on disk | pull, status, list, remove | check and remove are two critical sections |
| **Stdio, attach, log** fake `lib.rs:85-135, 603-656, 1601-1896, 2283-2351` | pipes, fan-out sinks, CRI log file | tee threads, `open_exec`, `open_attach`, `exec_sync` | slow attachers, detach, partial lines |
| **Sandbox network** fake `lib.rs:1929-2009`, `crates/lightr-cri-net` | pinned network namespaces, CNI plugin chain | ADD, DEL, create, teardown, sweep | ADD fails half way, crash before the record is persisted |
| **`exec_sync`** fake `lib.rs:1316-1475` | a child, its pipes, a deadline | spawn, poll, kill, read | output larger than a pipe, a helper that survives the command |
| **Token registry** `crates/lightr-cri-stream/src/token.rs` | tokens with verb, parameters and age | mint, consume | single use, 60 s TTL, cap of 1000 |
| **Streaming server, websocket sessions, port forward** `crates/lightr-cri-stream/src/{server,ws,portforward}.rs` | per-connection session | exec, attach, port forward | output, exit status, input and close race |
| **SPDY** `crates/lightr-cri-stream/src/spdy/` | streams, pumps, a barrier | frames, exec, port forward | streams in any order, Status after all output |
| **Codecs** `spdy/frame.rs`, `spdy/headers.rs`, `channel.rs`, `b64.rs`; the calendar of the log, fake `lib.rs` | none | parse, serialize, encode, decode | frames cut anywhere by a read, malformed ones, leap years |
| **Vector runner** `crates/lightr-cri-vectors` | a backend per vector, the results of its steps | run a directory of vectors, judge each | a verdict that is wrong hides a bug of the backend |
| **Shell and server** `crates/lightr-cri-shell`, `crates/lightr-cri-server` | none (stateless) | gRPC handlers: checks, translation, `spawn_blocking` | a check made at mint time is used up to 60 s later |

The shell calls the backend inside `tokio::task::spawn_blocking`. A client that
gives up does not stop the blocking thread: the kubelet's retry runs next to
the call it retries. So the backend's threads are truly concurrent, and what
one of them can see of another is what lies between two acquisitions of the
cache mutex, plus the file system and the process table. The streaming server
shares the backend with the shell and is reached with tokens the shell mints.

## 2. What makes the parts correct

*Backend lifecycle.* Persist before return; nothing visible that is not on disk;
an Ok is never taken back by a crash; `start` only from Created (a program is
spawned once); no container without its sandbox; a child is always known; the
exit code recorded is how the process ended; stop stops; removed ids never
return; every call returns and every exit is recorded. *Image store*: an image a
live container references is not removed. *Token registry*: a token opens at
most one session, with its verb, within its TTL, and the cap counts only live
tokens. *Sessions*: all output, then exactly one exit status, then close; no
session waits for ever. *Network*: every ADD has its DEL; no namespace leaks.
*Attach*: a slow attacher delays nobody (a question, not an assumption).
*Algorithms*: the codecs invert each other.

`PROJECT.json` lists the hazards behind these, each at its line.

## 3. Modules

| Module | What it is |
|---|---|
| `FakeBackend` | the lifecycle core, with its properties |
| `StateLaw` | what the trait promises, as a machine over the records alone |
| `FakeBackendRefinement` | the records on disk, read as a `StateLaw` state |
| `MCFakeBackend` | the module TLC is given: adds the symmetry |
| `FakeBackendProofs` | type correctness of `FakeBackend`, persist before visible, and removed for good, proved |
| `FakeBackendOneCaller` | what the backend promises a client whose calls come one at a time, and that the disk obeys `StateLaw`, proved |
| `TokenRegistry` | the map of streaming tokens: what one `mint` and one `consume` do |
| `StreamingUrls` | RPCs that check a target and mint, clients that connect, sessions that open |
| `MCStreamingUrls` | the module TLC is given: adds the symmetry |
| `StreamingUrlsProofs` | types, the cap and single use, proved |
| `ImageStore` | image records in cache and on disk, pull, remove, and the containers they meet |
| `MCImageStore` | the module TLC is given: adds the symmetry |
| `ImageStoreProofs` | types, and what holds of it when calls come one at a time, proved |
| `ExecSession` | one SPDY exec or attach: process, client, read loop, pumps, completion |
| `MCExecSession` | the requests and orders of streams TLC explores |
| `ExecSessionProofs` | types, the exit code of the Status, and its place after the output, proved |
| `SandboxNetwork` | the network of a sandbox: namespace, CNI chain, record, and who joins it |
| `SandboxNetworkProofs` | its types and its four properties, proved |
| `ContainerIo` | the output of one container: tee, log, fan-out, attachers, reaper |
| `ContainerIoProofs` | what an attacher of a container with pipes sees, proved |
| `ExecSync` | one `exec_sync`, with and without a deadline |
| `WsSession` | one exec or attach session over a websocket |
| `WsPortForward` | port forwarding over a websocket |
| `SpdyPortForward` | port forwarding over SPDY |
| `WireCodec` | SPDY frames and header blocks, websocket framing, base64, the calendar |
| `CriShell` | the gRPC handlers of RuntimeService, over `StateLaw` |
| `ImageShell` | the gRPC handlers of ImageService |
| `VectorRunner` | the runner of the conformance vectors, over `StateLaw` |
| `MCVectors` | the repository's vectors, and falsified ones |
| `CriParts` | the eight parts that serve one request or connection each, as one system |
| `PartsProofs` | `exec_sync`, the end of a websocket session, SPDY port forwarding, the date of the log and the answers of the gRPC handlers, proved |
| `MCParts` | the constants TLC is given for `CriParts` |

### FakeBackend and the code

| Variable | Code |
|---|---|
| `cacheSb`, `cacheCt` | `Cache.sandboxes`, `Cache.containers`; `"absent"` and `Absent` stand for a missing key |
| `diskSb`, `diskCt` | the files; a write is `atomic_write_json` (temporary file, fsync, rename: all or nothing), a removal `fs::remove_file` |
| `io` | the keys of `io_table` |
| `usedSb`, `usedCt` | ids `new_id` has minted: time and a counter, never twice |
| `proc` | the kernel's process table: free, live, zombie, dead, foreign (pid reused) |
| `reaper` | the detached thread `start_container` ends with: waiting, dropping the io entry, recording |
| `pc`, `fr` | where a blocking thread is, and its locals: ids, snapshot pid, `rec_clone`, the containers `remove_sandbox` collected |
| `up` | FALSE from a crash until `open` has returned |
| `ackSb`, `ackCt` | history only: what calls that returned Ok have promised |

A container record keeps its state, sandbox, pid and exit code; names, labels,
times and messages do not matter to any property and are left out. Exit codes
are 0, one code of the program's own, 143, 137 and -1.

An action is one critical section of the mutex, one file operation or one
system call. `start_container`, for example, is `StartCheck` (snapshot, state
test, log and netns set up), `StartIntent` (Running with pid 0 in the cache),
`StartIntentWrite`, `StartSpawn`, then either `StartFailed`, `StartFailedWrite`
or `StartIo`, `StartPid`, `StartPidWrite`; `start_container_pipe_mode` takes the
same steps and is the branch with the fd duplications that may fail. The three
callers of `stop_container` (client, `remove_sandbox`, `remove_container`) share
its steps, and `fr[t].from` says where to return. A lock dropped before a write
is two actions; the reaper and `open`, which write while nobody else can see
the record, are one. `Crash` may come between any two steps: cache, io table,
threads and reapers are gone, children are orphaned; `OpenContainer` and
`Opened` rebuild the cache record by record, and may be interrupted too.

The clients are arbitrary: any call on any id disclosed so far, including ids
already removed.

### StateLaw

Sandboxes Ready, NotReady, gone; containers Created, Running, Exited, gone; a
sandbox goes only when none of its containers is left; an id is used once.
`remove_container` may remove a running container, as its own comment says (the
trait says otherwise: section 6). `FakeBackendRefinement` maps the *disk* to
this machine. The disk, and not the cache, is what a crash-only server is.

### TokenRegistry, StreamingUrls and the code

| Variable | Code |
|---|---|
| `inner` | `TokenRegistry.inner`; the request parameters kept under a token are the target and the name of the URL |
| `now` | `Instant::now()`, in steps a minute is made of |
| `serving` | what the backend answers: containers Running, sandboxes Ready |
| `rpc` | an `exec`, `attach` or `port_forward` handler between its check and `mint_url` |
| `conn` | the streaming server's task for a connection: let in and being upgraded, past the second check and opening, or in its session |
| `life`, `minted`, `spent`, `opened` | history only: which life of the server, what each URL was handed out for, which were presented, how many sessions each opened |

`mint` and `consume` hold the registry's mutex throughout, and a handler of the
server awaits nothing before its 101, so each is one action; sweeping is part of
`MintUrl` and of a refusal. The check of the target runs on a blocking thread
before the mint (`Validate`, `MintUrl`). `open_exec` and `open_attach` check again (`CheckTarget`), let
the lock go and spawn later (`OpenSession`), so the target may end in between; a port forward is
dialled without another look. A random token is any token, so one of an earlier life, or of an entry already consumed, may come
up again. A client may present any token under any path, with or without a
protocol the server accepts: `Connect` burns the token in each case. What
a session does once open is in `ExecSession`, `WsSession` and the port forwards.

### ImageStore and the code

`images` and `diskImages` are the keys of `Cache.images` and the files under `images/`;
both are derived from the ref, so one image has one key. `ct` is what `remove_image`
sees of containers: a state and the name in `config.image_ref`, which is a
ref or the digest `pull_image` answers. `pull_image` is `CallPull`, `PullWrite`, `PullInsert`;
`remove_image` takes the lock three times and then unlinks (`RemoveFind`, `RemoveCheck`,
`RemoveDrop`, `RemoveUnlink`). `create_container` checks no image, so of its steps only
the insert shows; starting, exiting and removing are one step each. It stays a
module of its own because `FakeBackend` and the image plane share nothing but
that view of the containers.

### ExecSession and the code

| Variable | Code |
|---|---|
| `req`, `files` | verb and flags of the request; what `open_exec` or `open_attach` hands back for it |
| `proc`, `unread`, `eof`, `inbuf` | the process (or container): exit code, chunks in its output pipes, outputs nobody can write any more, chunks in its stdin |
| `closed`, `hearing` | the client: nothing left of its frames but the close; still reading |
| `loop`, `role`, `by_role`, `stdin_open` | the read-loop task: the await it stands at, the stream it is opening, `by_role`, `stdin` |
| `pump`, `output_tasks` | the `spawn_output` tasks, and the list the completion takes them from |
| `cp` | where `run_exec` stands: opening, the barrier, the pump gate, the select, the reaper, each write, the 5 s grace |
| `detached`, `taken`, `ids`, `exit` | the pinned `notified()`, the drained tasks, the ids snapshot, the code for the Status |
| `fin`, `status` | what is on the wire |
| `late` | history only: a 5 s wait ran out |

An action runs from one await to the next. The writer lock is held by the completion
from the first FIN to the Status (`LockFree`), by the others for one frame. The barrier and the
gate may end at any time, since each is a wait with a deadline; if what it waits for is not there,
`late` says so. The reaper is the guard `proc # Unknown` of the two places that
await it. Frames are read one at a time and in order, so the client's sending of a frame and the read
of it are one action (`ReadSyn`, `ReadInput`, `ReadFin`); its close comes after all of them
(`closed`, `ReadClose`). A write to stdin waits for room: the loop stands at `"write"`. Ping,
resize and window frames change nothing that is modelled. Aborting a pump is a step of
its own that may come late; the blocking thread an aborted `tokio::fs` read occupies ends
with the read, and is not modelled.

### SandboxNetwork and the code

| Variable | Code |
|---|---|
| `disk`, `cache` | the record of a sandbox: its state, and whether `netns_path` is set |
| `file`, `mounted` | the mount points in `/run/netns`, and those with a namespace on them |
| `attached` | per sandbox, the plugins of the chain whose ADD is in effect outside |
| `container`, `procs` | one container per sandbox; which processes joined which network, or the host's |
| `call` | a blocking thread: `run_sandbox`, `stop_sandbox`, `remove_sandbox`, `create`, `start`, `exec`, or the dial of a port forward |
| `cni` | what the probe finds, which an administrator may change |
| `known`, `unclean`, `pinned`, `unsaved` | history only: ids once recorded, ids with a DEL that failed, with an unmount that failed, and those marked NotReady whose file does not say so |

`chain::add` is one `RunAdd` per plugin: it stops at the first failure, after which a plugin
may or may not have left something. `chain::del` (`RemoveDel`) goes backwards and on after
failures. `netns::create` and `netns::teardown` are two steps each, the mount and the file.
`stop_sandbox` marks the record in the cache (`StopCall`) and writes it after the lock is gone (`StopWrite`), so
the write may be late; a stop or removal that finds NotReady goes on without a write (`Mark`).
Any of these may fail (`Fault`), the write of the stop, the removal of the containers, the unmount and the unlinks
included; a failed teardown is passed over, as `cni_teardown` does, a failed write or removal ends the call. And the server may be killed between any two; `cache' = disk`
is what `open` does next. The file system and the plugins keep their state across a kill;
`netns::sweep`, which would clean up, is called by nothing.

### ContainerIo and the code

`pipe` is the container's stdout (or what can be read at the pty master), `tee` the tee thread
with the chunk it has read, `pending` its `log_pending`, `sinks` the vector of the fan-out.
`broadcast` writes a whole chunk to one sink after the other while it holds the lock of the
sinks (`TeeLock`, `TeeSend`, `TeePrune`, `TeeUnlock`). `open_attach` holds `iolock`, the lock of the
io table, while it waits for that of the sinks; the reaper needs it to drop the entry
(`Reap`). It waits for the process alone (`alive`), not for the end of the output (`open`): a program may close its stdout
and go on, and a child of it may keep the pipe after it, so the two end in any order. A byte is `"n"` (newline) or `"x"`; records of the log are built as
`cri_log_line` builds them, F for a complete line and P for a rest at the end.

### ExecSync and the code

Without a timeout the call is `wait_with_output` (`"collect"`); with one it polls `try_wait`
(`"poll"`), then reads the output after the exit (`"drain"`), or kills the child and its
process group at the deadline. The command may leave a helper that holds the pipe or has left the group.

### WsSession, WsPortForward, SpdyPortForward and the code

Each is one loop. `ws_loop`, `pf_loop` and `sp_loop` say at which await it stands: in the select, in a
dial, in a write to the process or target. While it is in a write nothing else moves, and that is
the whole difference between these and `ExecSession`. A client may stall, which blocks any write
to it, or go. A websocket session ends with what its waiter answers (`Answers`): that of an exec waits for the
process, that of an attach to pipes for the container's record to leave Running (`ws_recorded`, `ws_gone`: set by the
reaper, a stop or a removal), that of an attach to a pty for nothing. `WsPortForward` walks its connections in the order of a hash map (`pf_order`: any
order, fixed for the session) and waits for the first, as `read_any` does. In
`SpdyPortForward` a pair of streams is found by its key (`KeyOf`: the requestID, or `port-{port}` where there is none), so the maps `sp_errors`
and `sp_tcp` are indexed by it; a pump per connection shares the writer with the loop.

### WireCodec and the code

`Serialize` and `ParseFrame` are `frame.rs`, byte by byte; a 32-bit word is kept as its bytes because
TLC's integers are signed. `Read` and `Return` are the loop that grows the buffer by whatever a read
returns. `SerializeHeaders`, `DeserializeHeaders` are the plain header block inside
the compressed one, `EncodeBase64` and `DecodeBase64` the framing of the base64 subprotocol, with
line breaks skipped and any other symbol refused. `Ymd` is the arithmetic of `epoch_to_ymd_hms`.

### CriShell, ImageShell and the code

A handler is what it checks, the backend calls it makes and what it answers. The backend is
`StateLaw`, one step per call and a call may fail, so a handler of several calls (`RemovePodSandbox`, the stats) can
be interleaved with others, and every translation between the wire and the backend is a table
or operator of its own: states both ways, errors, filters, reasons. A start is two steps (`StartContainer`,
`SpawnStep`), since the record is Running before the spawn, which may fail; a stop marks the record before its write may fail, and a
removal stops before it removes. `ImageShell` knows every name a client
may be shown: reference, id, digest, tag.

### VectorRunner, MCVectors and the code

A suite is a directory of files in the order of their names; a vector a sequence of steps, each an
operation with its argument and expectation; `vr_results` is what `$N` refers to. Each operation
of `run_vector` is an action that calls the backend (again `StateLaw`) and judges. Assumed: one
reopen per vector at most, no failing disk or network, commands that end within 30 s,
no stale log file. After a reopen running containers are `vr_adopted`: the new backend has no
reaper for them. `MCVectors` has every vector of `vectors/` (those that differ only in
names are one), vectors for the operations and errors they do not reach, and each of them with
one expectation falsified.

### CriParts, MCParts

The last eight parts share no state, so one run checks them: `part` says which one a
behavior is of, the others keep an initial state. `CriParts` instantiates the parts and combines their
properties and fairness, nothing else; what the parts assume of their constants is in
`PartsConstantsOK`. `MCParts` gives the constants their values, those of the vectors from `MCVectors`.

## 4. Runs

Runs of the core use `MCFakeBackend`, `MCStreamingUrls`, `MCImageStore` and `MCExecSession`, those of the
parts `SandboxNetwork`, `ContainerIo`, `MCParts` and `WsPortForward`. Deadlock
checking is on for the image store only: ids, pids and URLs are finite sets that a
run uses up, and a session ends, so the other systems really stop.

| Run | Instance | Shows |
|---|---|---|
| `one_caller_crash` | 1 thread, 1 sandbox, 2 containers, 2 pids, 1 crash | `Durable`, `NoOrphanContainer`, `SpawnedOnce`, `ChildIsTracked`, `ExitCodeIsReal`, `StopStopsChild`, `ObeysStateLaw` |
| `one_caller_faults` | 1 thread, 1 container, 2 pids, 1 crash, 1 file error, pid reuse, slow reaper, fairness | `CallsReturn`, `ExitIsRecorded` |
| `two_callers` | 2 threads, 1 container, 1 pid, 1 crash, symmetry | `VisibleIsDurable`, `GoneStaysGone` under concurrency |
| `urls` | 2 tokens, 3 URLs, 1 RPC, 2 connections, TTL 1, cap 1, clock to 2, 1 crash, random source may fail | `InFlightBounded`, `AtMostOneSession`, `HonoursGrant`, `OpenedInTime` |
| `images` | 1 thread, 2 images, 2 containers, 1 crash, 2 failed writes or unlinks | `ListedIsDurable`, `RemovedIsGone`, `InUseByRefStays` |
| `exec_session` | 3 requests: exec with all streams, exec on a pty, attach to a pty; pipes of 1 chunk, one exit code; streams in the order of client-go, complete or not, or stdout first; fairness | `StatusAfterOutput`, `StatusIsExit`, `Completes`, `DetachCompletes`, `TearsDown` |
| `network` | 2 threads, 1 sandbox, 3 plugins, 2 faults, 1 crash | `NetworkIsWhole`, `RecordOutlivesNetwork`, `ChainIsPrefix`, `OwnNetworkWhileRecorded` |
| `output` | 2 attachers, pipes of 2 bytes, 3 bytes written, pipe or pty; fairness | `LogIsOutput`, `AttacherSeesAll`, `OutputSettles` |
| `parts` | see below | `ResultIsWhole`, `StatusIsLast`, `OwnTarget`, `RefusalIsTold`, `FramesReassembled`, `RoundTrips`, `DateIsCalendar`, `VerdictsAreRight`, `AnswersAreTrue`, `PartsProgress` |

`race_create`, `tty_attach` and `port_starvation` expect a violation (section 6).

The backend keeps the law when calls come one at a time, with reapers, programs
and crashes in between; much of it fails when two calls meet.

*Bounds.* One sandbox is enough because no step of the code relates two
sandboxes. Two containers let `remove_sandbox` have one left to do when it
fails or dies. Two pids let a second spawn, or a start after a restart, meet
the first process. One crash reaches every recovery from every step, and may come while the
recovery of nothing else is under way; a crash during `open` needs two and is left to the proofs of
section 5, which bound nothing. Two threads are enough for the races, each
of which is between two calls. In `urls` three URLs over two tokens
make a token come up twice, the cap of one is met and would be passed, and the
clock outruns the TTL by one: ages below, at and above it occur. One target is
enough: `HonoursGrant` speaks of the grant, and each grant has its own parameters; the
verbs are all three.
In `exec_session` a pipe of one chunk is full after one write, so pumps, stdin and process all
block; each stream is opened at most once, as clients do; what process and client do
after the end of the session is left out. One exit code other than 0 tells an
exec's Status from that of an attach.
In `network` three plugins are the shortest chain with a middle, and two faults let a failed
ADD be followed by a failed DEL. In `output` a pipe of two with three bytes blocks the
writer and lets a read take part of what is there; two attachers let the first hold up the second.

In `parts`: `exec_sync` writes up to 3 bytes through a pipe of 2, and its command exits with 0 or 3 or dies of a signal;
a websocket session is an exec with stdin or on a pty, or an attach to pipes or to a pty, so that each waiter occurs,
with 1 byte on each of two outputs or 2 on a pty, and up to 2 frames; two forwarded ports with 3 frames can be connected, fed and closed; two SPDY connections
*to one port* with 5 frames, with requestIDs and without, open both pairs and send data on one; the framing takes every ordered
pair of 13 frames, each type with its extreme values and three malformed ones, cut everywhere;
the codecs take payloads up to 4 bytes over 0, 1, 127, 255 (all lengths modulo 3); the calendar runs
to 2101, past 2000 and 2100; the shell has one client, one sandbox and two containers that
differ in a label, and a filter for each field and state number; images have a reference without
a tag and its `:latest` twin; the vectors are all there are.

*Fairness.* `WF(ThreadStep(t))` for every blocking thread and
`WF(ReaperStep(p))` for every reaper: they are OS threads, and each wait of the
code has a deadline (`wait_until_exited`) or is `wait()` on a child, enabled once
the child is a zombie. No fairness for client calls, programs ending, crashes
or the restart of the server: a program that never ends is legal.
`StopWait` may give up after 5 s while a reaper is still to come only when
`SlowReap` is TRUE; otherwise 5 s are taken to be enough for a reaper that
exists. When none exists (a re-adopted container) it gives up in any case.
In `ExecSession` the tasks are polled when they are ready and timers fire: `WF` of the read loop's
steps (reading the close, but not reading a frame: the client owes none), of each pump and of
`run_exec`. A write of a frame ends, because the client reads what it is sent or is gone;
one that stays connected and stops reading stalls the session by design of TCP. The process
owes nothing: it need not write, read its stdin or end.

In `ContainerIo` the tee and reaper threads are weakly fair, and so is an attacher that reads; an
attacher may stall for ever, and the process need not end. `OutputSettles` excepts exactly these: once the output
has ended the tee ends, and when the process is gone too every attacher has been told. In `ExecSync` the call, the
clock and a command that can write or finish are fair; a helper is not, and `PartsProgress` excepts one
that holds the pipe. The websocket session, its port forward and the SPDY one need `WF` of their
loop (a polled task) and of each pump, and nothing of process, target or client; they except
a client that stalls and a write to somebody who does not read. In `WsPortForward` `select!` picks among ready
branches at random, so output of a connected port is served however much the client sends: `SF` of
`Forward` and `Eof`. The vector runner is a single thread whose waits have a deadline (`WF` of its steps and
of the clock).

## 5. Proofs

The two modules about the backend hold for every set of sandboxes, containers and
pids and any number of crashes, from `ConstantsOK` (ids of sandboxes and containers differ
because `new_id` gives them the prefixes `sb-` and `ct-`, fake `lib.rs:677, 817`).
`FakeBackendProofs` holds for any number of threads and file errors too.

`TypeCorrect` (`Spec => []TypeOK`). Typing alone is not inductive: several steps
write the record of the container named in a thread's frame, so they keep the
types only if the frame names one. The invariant `Typed` adds `Fits`: every
label is reached only by the calls it is a step of, with their ids filled in.
Lemmas `Move`, `Advance`, `Leave` and `Rest` reduce each step of a thread to the one
frame it changes; `RecordTypes` and `ProcessTypes` give the types of everything
the actions build.

`CacheIsDurable` (`Spec => []VisibleIsDurable`, the same module) is about any
number of concurrent calls. Two steps can break the property: an insert into the
cache without a file, and an unlink of a file the cache still shows. Neither
action looks at the other side; each relies on what its thread did steps before,
and on nobody having interfered. The invariant `Safe` states that: `HandsRight`
(a thread about to insert has its record on disk, one about to unlink no longer
has it in the cache, one about to write a clone holds a real record),
`MintsAlone` (until `run_sandbox` or `create_container` returns, no other frame
holds the id, so no removal can come between write and insert), `IdsMinted` (an
id nobody minted names nothing, so a fresh one is in no frame) and `DownIsIdle`
(`open` runs alone). Lemma `Keeps` proves once that a thread's step preserves
`Safe` when its effect on cache, disk and frame stays within `SbStep`, `CtStep`
and `FrameStep`; the lemmas `Safe...Steps` show that of each action. TLC found
`Safe` to hold with two threads, a crash and a file error before it was proved.

`RemovedForGood` (`Spec => []GoneStaysGone`, the same module) is about calls that still hold an id whose removal
was answered: a start or stop of a container removed meanwhile, a stop of its sandbox. Each looks for
the record before it changes it and changes nothing when it is gone; only the call that mints an id can insert its record.
`Gone` says that a removal can be told of an id only when no frame is minting it any more, and with
`Safe` (the minted id is in nobody else's hands) no step puts a told one back.

`FakeBackendOneCaller` assumes `Threads = {t}`, one caller; reapers, programs, crashes and the recovery
still come between any two of its steps. That is how the properties are meant: two calls break them
(section 6). `ProgramSpawnedOnce` needs nothing else. Its invariant `Once` says that a process shows that its container
left Created both in cache and on disk (`Begun`), and that a start which has not spawned
yet knows of no process of its container (`BeforeSpawn`).

`DoneIsDurable`, `ContainersAreHoused`, `ChildrenAreTracked`, `CodesAreReal` and `StopsAreReal` are each
`Spec => [](ioErrors = 0 => P)`: they hold up to the first failed file operation. The premise is necessary. TLC finds each of the
five violated with one caller, no crash and one failed operation: a stop of a sandbox whose write failed
answers Ok when it is repeated; a container whose unlink failed stays on disk while its sandbox goes; a
start whose intent cannot be written leaves a Running record, and stopping it records 143 without a
process; a start that fails after the spawn returns with its child in nobody's hands, and one whose pid cannot be written leaves a child
without a reaper, so that a stop kills it, waits in vain and answers Ok.
(`OneCallerCrash.cfg` with `MaxIoErrors = 1` shows each.) None of the five is inductive and they lean on one
another, so one invariant, `Ordered`, has them all:

- `Agree`: cache and disk are equal but for the one record the caller is between changing and writing
  (`HalfSb`, `HalfCt`), and `SbHands`, `CtHands` say what that record is: an intent is the disk's record
  with the state changed, so the write is a step from Created to Running and from nothing else. A Running record
  without a pid is the record of the start under way (`PidKnown`).
- `Housed`: the containers a `remove_sandbox` has yet to remove are in its frame (`Gathered`), so when it
  comes to the sandbox there are none.
- `Family`: a child has a reaper, or is in the hands of the start that spawned it (`Reaped`, `ChildHands`);
  a code in a record, in the cache or on disk, is that of an ended process of the container. Collecting
  a child, dropping its io entry and recording its exit are three steps of the reaper, which only the first makes true.
- `Kept`: a promise is withdrawn before the step that would break it (`Withdrawn`), or the disk keeps it.

`StopsAreReal` adds `Halted`, and assumes `SlowReap = FALSE`: 5 s suffice for a reaper that exists. Without that,
`wait_until_exited` gives up and the Ok of the stop says nothing.

`DiskObeysLaw` is the refinement, `Spec /\ [](ioErrors = 0) => ObeysStateLaw`. Under `FakeBackendRefinement`'s mapping
every write and every unlink is one action of `StateLaw`, and every other step, `Crash` and `Opened`
included, is a stutter; `LawInit` and `LawNext` are the two halves. A write looks at no record but its own, so
it is `Agree` and `Housed` that show the law's guards: `remove_sandbox`'s unlink finds no container on disk,
`start_container`'s writes find Created, then Running, and an id is minted once
(`SpentStays`).

`ContainerIoProofs` holds for any attachers, pipe capacity and amount of output, from `IoConstants`.
`AttachersSeeAll` (`Spec => []AttacherSeesAll`) is a statement about sequences that no step looks at as a whole.
The invariant `Seen` says where each byte is: the pipe is the end of what was written, the chunk in the tee's hands comes
right before it (`Flows`, in terms of `UpTo`); every attacher that listens is in the list of sinks exactly once
and from its registration on (`Registered`); and the one at place j has, read or in its pipe, the stretch of the output
from its registration up to `Reach(j)`, which is how far `broadcast` has got with that place (`Fed`, `Stretch`). The delicate steps
are a byte sent, which moves `Reach` of one place by one; a pruned sink, after which every later attacher has
another place and the same reach (`RemoveAtProperties`, `TeePruneKeeps`); and a registration,
which must not fall between two sinks of one broadcast (the lock of the sinks).
`LogIsOutput` is out of reach by contrast: what the log holds is a fold over its records (`FlattenSeq`), and
the lines of a chunk are a sort of its newlines, so it takes inductions over sequences.

`StreamingUrlsProofs` holds for any tokens, clients, targets, TTL and cap, from
`RegistryConstantsOK` and `UrlConstantsOK`; `Tokens` may be infinite, since the
registry itself stays finite. `SingleUse`
(`Spec => [](AtMostOneSession /\ HonoursGrant)`) is not inductive: it says nothing of the
registry. The invariant `Law` adds where a grant is: under one token
(`OneToken`), or with one connection being upgraded (`OneConn`), never both and
nowhere once it was used (`Pending`, `Working`, `OpenedOnce`). Single use is then
that every step moves a grant on, or loses it, and none copies it: it
needs `mint` to name a fresh grant, `consume` to remove before it looks, and a
crash to lose registry and connections together. `SessionsOpenInTime` (`Spec => []OpenedInTime`): at the spawn nothing
is looked at, so `InTime` carries what the second check saw past it, while the target may go on to end; and
what is serving has been alive since the connection was let in.

`ImageStoreProofs`: `StoreTyped` for any number of threads; the other three assume
`Threads = {t}`, because two calls break them (section 6). `OneCallerDurable` and
`OneCallerInUse` rest on `Alone(t)`, what t has made sure of at each step and nobody
else can undo: the record is written before the insert, dropped before the
unlink, and at the drop nobody uses the image, since of the other steps only an
exit can change a container. `OneCallerRemoves` needs more: `remove_image` answers Ok to a
name it does not find, so `Exact(t)` says that on disk and not in the cache are only
images whose unlink failed and the one t is working on.

`ExecSessionProofs` holds for any requests, codes, pipe size and orders of streams, from
`SessionConstantsOK`. `ExitIsReal` needs `ExitLaw`: once past the reaper, the code kept for an exec is that
of its process, which does not change. `StatusComesLast` needs more, because
`StatusAfterOutput` speaks of pumps the completion has long stopped looking at. `PumpLaw` says which
pumps there can be: of streams the client opened and the session offers, one each, and so with the
entries of `output_tasks`. `OutputLaw` says that a pump which is done, while the client listens, has
emptied its pipe for good, that from the select on the expected pumps are all in `taken`, and
that they are done once the Status is being composed. The gate is the step that
establishes it: not `late` means at least as many pumps registered as expected, and
`output_tasks` holds only pumps of streams of a conforming client, so equal cardinality makes the sets
equal. The premises of the property (`Quiet`) only ever turn false (`QuietFalls`), which lets
each step assume them of the state before.

`SandboxNetworkProofs` holds for any sandboxes and threads, a chain of any length and any number
of faults and kills, from `NetworkConstants` (of which "host is not the id of a sandbox" is
needed only for `NobodyLeaksToTheHost`). None of the four properties is inductive: the steps that could
break them test nothing but their own position. `RunPersist` writes Ready without a look at the
network, `RemoveForget` unlinks the record without one. The invariant `Law` says what each position
is worth. `Kept` ties the record of a sandbox to its network; `Built` says how far a `run_sandbox` has come,
plugin by plugin, and `RunsAlone` that no other call knows its sandbox until it persists. Of removals
there may be many at once, so `RemoveFits` only speaks of what can no longer come back: at the p-th DEL
at most the plugins up to p are in effect (`DownTo`), after the unmount the sandbox is `Clean`. These facts
survive what any other call does to the sandbox, which `Falls` sums up: it may lose its network or its
record, and gains nothing. `JoinFits` keeps, from lookup to spawn, that a call bound for the host network
has a sandbox whose record gives no path. Lemma `ThreadKeeps` proves once that a step which stays
within `Same`, `Falls` and the law of its own call preserves `Law`; one lemma per action shows that it does. A removal takes the network down with
only the cache saying NotReady: `Down` says that the file says so too, or that the sandbox is `unsaved`, and
`StopFits` what a stop's clone is still worth when its late write comes. `Clean` is not mounted, unless `pinned`, and no plugin in effect.

`PartsProofs` holds for pipes and sockets of any size, any amount of output and of frames, any sessions and
any connections, from `PartsConstantsOK` (of which `Nobody \notin Conns` keeps an empty slot of a map apart from a connection).
It is about `CriParts`: a part's own steps keep its invariant, and the steps of the others leave its variables.

- `ExecSyncIsWhole`: what the call has read and what is in the pipe is what the command wrote (`Counted`),
  and it answers only after it has reaped (`Reaps`). The helper is the point: at a timeout the
  group is killed, so what is left alive is not of the group; at end of file nobody holds the pipe, so what was read is all.
- `StatusComesLast`: `WsInv` says that an output the loop gave up as ended is empty and has no writer, so
  nothing can come after (`EndedOutputs`), that the loop is over for outputs only when none is open (`Reasons`), and that the status is one
  its waiter could give when it did (`Allowed`): a record is written once and removed for good (`RecordStays`), so what was
  true then still is (`SaidStays`). Nothing opens an output again.
- `TargetsAreOwn`: connections share a key exactly when they are to one port and neither has a requestID (`KeysMix`), and every
  slot of the two maps holds a connection of its key or nobody (`PairsOwn`), also while the loop is stuck with a frame
  for it (`HeldFrame`). So data goes to the target of the connection that dialed, or of one it shares its key with. End of a data stream comes from a pump that
  has sent all its target made after that closed.
- `RefusalsAreTold`: true only of the order in which the client opens its streams, which the loop sees through the inbox.
  `Announced` says that a data stream is announced once, `ErrorFirst` that whenever it is in the inbox its
  error stream is registered or in front of it. `TakeTakes` is the lemma on sequences that this leans on:
  taking a frame moves all others up by one. So at the refusal the slot holds the connection that asked, or one of its key (`Refused`).
- `DatesAreCalendar` needs no invariant and no induction: `NextDay` shows of any one day that the date after it is
  tomorrow's. `YearsCover` and `YearsApart` say that the division by 365, corrected by the days of the leap years, finds
  the one year of an era the day is in (`YearFound`), and `YearLength` that this year has 366 days exactly if the February at its
  end is a leap year's; `DayMoves` is the same for months. What remains are the two steps from a year and from an era
  to the next. TLC compares 48000 days, into the year 2101.
- `HandlersAnswerTruly` is `Sh!AnswersAreTrue`, the half of the run's `AnswersAreTrue` that is about `CriShell`. The
  invariant `SeenLaw` says that whatever exists has a spent id and that nobody has seen it further than it is; `Moves`
  sums up what any call of the backend may do to the records meanwhile: forward, or away for good. With the two, what a client
  sees later is never less. The stats are two calls of the backend with others in between: what they have
  read are all the containers there were but those still to do, each started when it had usage (`CallFits`). `DoneIsRight` is about what changes: a removal answered Ok leaves
  nothing, one that fails leaves what was to go stopped, a failed stop has stopped, and a start answered Ok has started. `FiltersAsk` and
  `PodFiltersAsk` say that the decoded filter asks for what the wire filter means. From `ShellConstants`: ids of
  sandboxes and containers differ, and a filter of sandboxes names one by its id only. Its state is any number: 0 asks
  for Ready and every other for NotReady (`PodAsked`), as the code decodes it (section 6).

The types of the proved modules are theorems and no run repeats them; the modules
without proofs are only model-checked, and of `ContainerIo` the types of `pending` and `log`. TLC only, and why:

- liveness (`CallsReturn`, `ExitIsRecorded`, `Completes`, `DetachCompletes`, `TearsDown`,
  `OutputSettles`, `PartsProgress`): fairness and ENABLED are out of the prover's reach;
- `LogIsOutput`, `FramesReassembled`, `RoundTrips`: inductions over sequences of bytes and frames;
- `VerdictsAreRight`: about the vectors of the repository, which are constants, so that TLC's instance is the claim itself;
- `AnswersAreTrue` of `ImageShell`: it compares sizes summed over sets of images, an induction over data. TLC goes
  through its table of images entirely.

What a backend with failing files, or with two callers at once, still promises is `TypeCorrect`, `CacheIsDurable`, `RemovedForGood`, and
for failing files `ProgramSpawnedOnce`.

## 6. Where the code and its documents differ

Three have a run that ends in a counterexample. The line is where it bites.

| Run | What happens |
|---|---|
| `race_create` | a container is created in a sandbox that was removed meanwhile (fake `lib.rs:816`) |
| `tty_attach` | on a pty the tee and the attachers read the same master, so what an attacher takes is missing from the log (`:1021`) |
| `port_starvation` | of two connected ports only the first is listened to (`portforward.rs:75`) |

The rest have no run in the project. Those of the backend can be seen by adding a property
to a cfg, or a second thread.

*Backend.* A `stop_sandbox` whose write failed succeeds on retry without writing (`:723`);
with two threads, a second stop answers Ok while the write of the first is
still to come, and a stop's late write recreates the file of a sandbox removed meanwhile (`:729`), so `Durable`
fails in `TwoCallers.cfg`. Two starts spawn the program twice (`:848`, `SpawnedOnce`). A stop in
the start window records an exit code for a process that has not ended (`:1202`,
`ExitCodeIsReal`). After a restart stop returns Ok and the container stays Running, because
nobody reaps it (`:1190`, `StopStopsChild` with an orphan). A start whose pid cannot be written
returns an error with the program running and no reaper: the disjunct on `ioErrors` in
`ExitIsRecorded` excepts it. `remove_container` force-removes a running container (`:1228`; the test
`remove_while_running_force` wants it so) where the trait's doc says it is refused.
`stop_sandbox` leaves its containers and its network alone, where `api.proto:41-44` has it stop
the containers and reclaim the network.

*Images.* The in-use test of `remove_image` compares names (`:1556`), so a container that names its
image by digest, as `docs/contract/seam-contract-v1.md:118` allows, does not count. The shell
shows an image by id, digest and `:latest`; removing it by one of those answers Ok and
removes nothing, since the backend knows the reference only (`ImageShell.RemoveImage`). With a second thread in
`Images.cfg` a pull between
the drop and the unlink of a removal loses its file (`:1571`, `ListedIsDurable` fails), and
a container of the image may be created between the check and the drop (`:1566`,
`InUseByRefStays` fails).

*Network.* A chain that fails half way, a record that cannot be written and a kill leave namespace
and plugin state behind with nothing that names them (`known` excepts them in
`RecordOutlivesNetwork`): `build-spec-r1.md:58` has a sweep for that, which nothing calls. When the write of a stop
fails or is still to come, another stop or removal answers Ok to the mark in the cache (`:723`) and the removal goes on to
take the network down; a kill then brings back a sandbox that is Ready without its network (`unsaved` excepts it in
`NetworkIsWhole`). An unmount or a DEL that fails is logged (`:1971`) and the record dropped all the same, so nothing
names what is left (`pinned` and `unclean`, in `RecordOutlivesNetwork`). A start or exec that finds
the sandbox gone takes the host network (`OwnNetworkWhileRecorded` excepts it). DEL is given no
port mappings. The probe looks at `LIGHTR_CNI_BIN`, the plugins are run from `CNI_PATH`.

*Output.* A stalled attacher keeps the tee in `broadcast` with the lock of the sinks; the next
`open_attach` waits for that lock with the io table's, and then the reaper and every start
wait too. `OutputSettles` excepts it. A program that closes its stdout and lives on keeps its entry of the io table, and
with it the sinks: its attachers are told the end only when it exits (`:2376`).

*Sessions.* A SPDY session that `open_exec` refuses ends without a word on the error stream (`spdy/conn.rs:173`; the crate's
`lib.rs:76-77` says errors are surfaced to the client). A client that closes before
the detach signal is armed (`conn.rs:461`) is not heard, and the attach runs until its output
ends; an attach whose container does not read its stdin never sees its client
close (`conn.rs:350`). On a pty neither kind of session has a stdin, so what the client types is dropped
(fake `lib.rs:1715-1716`, `conn.rs:349`). A HEADERS frame is skipped without decompressing it (`conn.rs:392`),
which leaves the shared inflate stream out of step. The status of an attach over a websocket need not be the exit: on a
pty the waiter answers 0 at once (fake `:1797-1803`), on pipes it answers 0 when the record is gone (`:1874`) and
143 or 137 when a stop came before the pid was recorded; any waiter that fails makes it -1 (`ws.rs:169-172`).
A websocket session does not end with its connection
(`build-spec-r1.md:75`): after the client's close it waits for the process however long that
takes, and an error of a stdin write ends the loop with output still in the pipes.
A websocket port forward does not report a failed write, and dials again when data follows
the end of a target. Over SPDY two connections to one port without
a requestID share a pair (`spdy/conn.rs:777-780`): the second takes the first's place in it, so data of one goes to the target of the
other, and a refusal of one is told on, and resets, the error stream of the other (`MayMix` excepts exactly these).
Any RST_STREAM or GOAWAY ends all the pairs, and a failed dial is told only
to a client that opened the error stream first, as client-go does.

*`exec_sync`.* With a timeout the output is read only after the exit, so a command that writes more than
a pipe holds always times out; and no deadline covers that read, so a helper that keeps the
pipe keeps the call.

*Shell, vectors.* In a filter of sandboxes any state number other than 0 means NotReady. A stop may answer Ok with the container
still Running, when the 5 s it waits for the reaper run out. A stop or removal that fails has stopped what it names all the same, and a
`RemovePodSandbox` that fails may have removed some of the containers. `list_container_stats`
fails as a whole when one container goes between its two calls. A file of vectors that
cannot be read loses the whole report; `reopen_backend` opens the new backend while the reapers of the
old are alive; `open_exec` never drains stderr, so a command that floods it hangs the runner (`Stuck`), and on a pty it fails
when the program ends, because reading the master then gives EIO.

## 7. Plan

Done: `FakeBackend` with `StateLaw` and the refinement; `ImageStore`; `TokenRegistry` and
`StreamingUrls`; `ExecSession`; the network; the output of a container; `exec_sync`; the
websocket session and both port forwards; the codecs; the gRPC handlers; the vector runner; the proofs of section 5, which cover every safety property of the runs
about the backend, the URLs, the images, the SPDY session and the network, one of the
two about a container's output, and of those about single requests and connections the five in section 5 and the handlers of `RuntimeService`. Section 5 says why the rest stays with TLC.

## 8. Not modelled

Generated protobuf code (a third of the lines), the acceptance driver, start-up,
sockets, signals and graceful shutdown of the server binary, zlib, the JSON a plugin is given, logging, and the
tests, which are inline in the crates. RPCs that answer a constant or "unimplemented" change nothing. Status and list
calls read the cache under the lock and change nothing; `VisibleIsDurable`
speaks of what they can return, `CriShell` of how they are translated. A write is atomic: `atomic_write` renames a
synced temporary file. The directory itself is not synced, so a power failure,
unlike `kill -9`, could undo a rename; only the latter is modelled.

Also left out, with what they would show: the blocking pool of tokio, which `AttachWaiter`'s
polling threads can fill; a pid that is reused between the look into the process table and the use of its
namespaces (fake `lib.rs:1180` has no property for that reason); more than 128 ports over a
websocket, which wrap the channel byte (`PfConstants` assumes fewer); the window between a start's
return and the registration of its io, in which an attach is told "unavailable after restart".

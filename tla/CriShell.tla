------------------------------ MODULE CriShell ------------------------------
(***************************************************************************)
(* The CRI shell: what the gRPC handlers of RuntimeService answer while    *)
(* containers start, exit and go.  The backend is the State law, one call  *)
(* at a time; a handler that calls it more than once (the stats, the       *)
(* removal of a sandbox) is a sequence of steps.  The shell keeps no state *)
(* of its own but what a call in flight holds.                             *)
(*                                                                         *)
(* On the wire a container state is its number in api.proto.  Names,       *)
(* times, mounts and the like are copied from one record to the other and  *)
(* left out; the streaming calls are in StreamingUrls, the images in       *)
(* ImageStore, exec_sync in ExecSync.                                      *)
(***************************************************************************)
EXTENDS Integers, FiniteSets

CONSTANTS
  Sandboxes, Containers, None, Codes,  \* as in StateLaw
  Clients,    \* connections, each with one call at a time
  LabelsOf,   \* sandbox or container -> its labels, a set of <<key, value>>
  Filters,    \* filters of containers in a request; None is a field that is not set
  PodFilters  \* filters of sandboxes, of the same shape

\* new_id gives sandboxes and containers different prefixes; a filter's state may be any number,
\* and one of sandboxes names none but by id.
ShellConstants ==
  /\ Sandboxes \cap Containers = {} /\ None \notin Int
  /\ \A f \in Filters \cup PodFilters : f.state \in Int \cup {None}
  /\ \A f \in PodFilters : f.sandbox = None

VARIABLES
  sb, ct, spent,  \* the records, as in StateLaw
  call,           \* per client, the call it has in flight
  answer,         \* per client, the last answer it got
  seen            \* history: per client, the furthest it has seen each sandbox and container

Backend == INSTANCE StateLaw

law == <<sb, ct, spent>>
shvars == <<sb, ct, spent, call, answer, seen>>

Idle == [op |-> "idle"]
NoAnswer == [op |-> "none"]
Exists(c) == ct[c].state # "absent"

-----------------------------------------------------------------------------
(* Translation.                                                            *)

\* map_sandbox_state, and its inverse in proto_sandbox_filter.
WirePodState == [Ready |-> 0, NotReady |-> 1]
PodStateOfWire(n) == IF n = 0 THEN "Ready" ELSE "NotReady"

\* map_container_state, and its inverse in proto_container_filter.
WireState == [Created |-> 0, Running |-> 1, Exited |-> 2, Unknown |-> 3]
StateOfWire(n) == IF n \in 0..2 THEN CHOOSE s \in DOMAIN WireState : WireState[s] = n ELSE "Unknown"

MapErr == [NotFound |-> "not_found", AlreadyExists |-> "already_exists",
           InvalidArgument |-> "invalid_argument", FailedPrecondition |-> "failed_precondition",
           InUse |-> "failed_precondition", Internal |-> "internal", Io |-> "internal"]

\* The state 0, which is Created, taken for a state that is not set.
Bug_Matches(c, f) ==
  /\ Exists(c)
  /\ f.id \in {None, c} /\ f.sandbox \in {None, ct[c].sandbox}
  /\ f.state \notin {None, 0} => ct[c].state = StateOfWire(f.state)
  /\ f.labels \subseteq LabelsOf[c]

\* container_matches, on the filter as proto_container_filter decodes it.
Matches(c, f) ==
  /\ Exists(c)
  /\ f.id \in {None, c} /\ f.sandbox \in {None, ct[c].sandbox}
  /\ f.state # None => ct[c].state = StateOfWire(f.state)
  /\ f.labels \subseteq LabelsOf[c]

\* sandbox_matches, on the filter as proto_sandbox_filter decodes it.
PodMatches(s, f) ==
  /\ sb[s] # "absent" /\ f.id \in {None, s}
  /\ f.state # None => sb[s] = PodStateOfWire(f.state)
  /\ f.labels \subseteq LabelsOf[s]

\* proto_stats_filter: a filter of the stats calls has no state.
StatsFilter(f) == [f EXCEPT !.state = None]

\* rec_to_status normalizes the reason of a container that has exited.
Reason(c) ==
  IF ct[c].state # "Exited" THEN "none" ELSE IF ct[c].code = 0 THEN "Completed" ELSE "Error"
Shown(c) ==
  [id |-> c, sandbox |-> ct[c].sandbox, state |-> WireState[ct[c].state], labels |-> LabelsOf[c]]
ShownPod(s) == [id |-> s, sandbox |-> None, state |-> WirePodState[sb[s]], labels |-> LabelsOf[s]]
-----------------------------------------------------------------------------
Init ==
  /\ Backend!Init
  /\ call = [k \in Clients |-> Idle] /\ answer = [k \in Clients |-> NoAnswer]
  /\ seen = [k \in Clients |-> [x \in Sandboxes \cup Containers |-> 0]]

Free(k) == call[k] = Idle
Goto(k, rec) == call' = [call EXCEPT ![k] = rec] /\ answer' = [answer EXCEPT ![k] = NoAnswer]
Reply(k, a) == call' = [call EXCEPT ![k] = Idle] /\ answer' = [answer EXCEPT ![k] = a]
\* What is said of the sandbox or container a call was about, and what of a request refused.
Done(k, op, x, code) == Reply(k, [op |-> op, id |-> x, code |-> code]) /\ UNCHANGED seen
Ok(k, op, x) == Done(k, op, x, "ok")
Error(k, op, x) == Done(k, op, x, MapErr["Io"])
Fail(k, op, err) ==
  Reply(k, [op |-> op, code |-> MapErr[err]]) /\ UNCHANGED <<law, seen>>

\* How far a client has seen a sandbox or container get, by its state on the wire.
Sees(k, items) ==
  seen' = [seen EXCEPT ![k] = [x \in Sandboxes \cup Containers |->
             IF \E i \in items : i.id = x
             THEN (CHOOSE i \in items : i.id = x).state
             ELSE seen[k][x]]]
-----------------------------------------------------------------------------
(* The calls that change something.  A config without metadata is refused  *)
(* before the backend is asked; a file that cannot be written is an error, *)
(* which comes after the records in memory were changed, or halfway.       *)

RunPodSandbox(k, config) ==
  /\ Free(k)
  /\ IF config # "full" THEN Fail(k, "run", "InvalidArgument")
     ELSE \E s \in Sandboxes :
            \/ Backend!RunSandbox(s) /\ Ok(k, "run", s)
            \/ Backend!Waste(s) /\ Error(k, "run", s)

\* Idempotent: a sandbox that is stopped, or gone, is answered Ok.  One that was Ready has
\* stopped although the write may fail.
StopPodSandbox(k, s) ==
  /\ Free(k)
  /\ \/ sb[s] = "Ready" /\ Backend!StopSandbox(s) /\ (Ok(k, "stop_pod", s) \/ Error(k, "stop_pod", s))
     \/ sb[s] # "Ready" /\ UNCHANGED law /\ Ok(k, "stop_pod", s)

RemovePodSandbox(k, s) ==
  /\ Free(k) /\ Goto(k, [op |-> "remove_pod", sb |-> s])
  /\ UNCHANGED <<law, seen>>

\* It stops the sandbox and removes its containers one after the other; the first of these
\* that fails ends the call, with what was done done.
RemovePodStep(k) ==
  LET s == call[k].sb
      Wait == UNCHANGED <<call, answer, seen>> IN
  /\ call[k].op = "remove_pod"
  /\ \/ sb[s] = "Ready" /\ Backend!StopSandbox(s) /\ (Wait \/ Error(k, "remove_pod", s))
     \/ sb[s] = "NotReady" /\ \E c \in Backend!Members(s) :
          \/ Backend!RemoveContainer(c) /\ Wait
          \/ Backend!ExitContainer(c) /\ Error(k, "remove_pod", s)
     \/ sb[s] = "NotReady" /\ Backend!RemoveSandbox(s) /\ Ok(k, "remove_pod", s)
     \/ sb[s] = "absent" /\ UNCHANGED law /\ Ok(k, "remove_pod", s)

CreateContainer(k, s, config) ==
  /\ Free(k)
  /\ IF config # "full" THEN Fail(k, "create", "InvalidArgument")
     ELSE IF sb[s] = "absent" THEN Fail(k, "create", "NotFound")
     ELSE IF sb[s] = "NotReady" THEN Fail(k, "create", "FailedPrecondition")
     ELSE \E c \in Containers :
            \/ Backend!CreateContainer(c, s) /\ Ok(k, "create", c)
            \/ Backend!Waste(c) /\ Error(k, "create", c)

\* The log, the terminal or the network may not open; if all do, Running is recorded ...
StartContainer(k, c) ==
  /\ Free(k)
  /\ IF ~Exists(c) THEN Fail(k, "start", "NotFound")
     ELSE IF ct[c].state # "Created" THEN Fail(k, "start", "FailedPrecondition")
     ELSE \/ UNCHANGED law /\ Error(k, "start", c)
          \/ Backend!StartContainer(c) /\ UNCHANGED seen /\ Goto(k, [op |-> "start", ct |-> c])

\* ... and then the program spawned.  A write that fails leaves the record Running, a spawn
\* that fails leaves it Exited.
SpawnStep(k) ==
  LET c == call[k].ct IN
  /\ call[k].op = "start"
  /\ \/ UNCHANGED law /\ (Ok(k, "start", c) \/ Error(k, "start", c))
     \/ Backend!ExitContainer(c) /\ Error(k, "start", c)

\* The reaper records the exit, and the stop waits for it, but not for ever: it is answered Ok
\* although the container may run on.  Of one without a process it records a guess itself, and
\* that write may fail.
StopContainer(k, c) ==
  /\ Free(k)
  /\ \/ Backend!ExitContainer(c) /\ (Ok(k, "stop", c) \/ Error(k, "stop", c))
     \/ UNCHANGED law /\ Ok(k, "stop", c)

\* A container that runs is stopped on the way; one that is gone is answered Ok.
RemoveContainer(k, c) ==
  /\ Free(k)
  /\ \/ Exists(c) /\ Backend!RemoveContainer(c) /\ Ok(k, "remove", c)
     \/ Backend!ExitContainer(c) /\ Error(k, "remove", c)
     \/ ~Exists(c) /\ UNCHANGED law /\ Ok(k, "remove", c)
-----------------------------------------------------------------------------
(* The calls that look.                                                    *)

PodSandboxStatus(k, s) ==
  /\ Free(k)
  /\ IF sb[s] = "absent" THEN Fail(k, "pod_status", "NotFound")
     ELSE /\ Reply(k, [op |-> "pod_status", code |-> "ok", item |-> ShownPod(s)])
          /\ Sees(k, {ShownPod(s)}) /\ UNCHANGED law

ListPodSandbox(k, f) ==
  LET items == {ShownPod(s) : s \in {x \in Sandboxes : PodMatches(x, f)}} IN
  /\ Free(k)
  /\ Reply(k, [op |-> "list_pods", code |-> "ok", filter |-> f, items |-> items])
  /\ Sees(k, items) /\ UNCHANGED law

ContainerStatus(k, c) ==
  /\ Free(k)
  /\ IF ~Exists(c) THEN Fail(k, "status", "NotFound")
     ELSE /\ Reply(k, [op |-> "status", code |-> "ok", item |-> Shown(c), exit |-> ct[c].code,
                       reason |-> Reason(c)])
          /\ Sees(k, {Shown(c)}) /\ UNCHANGED law

ListContainers(k, f) ==
  LET items == {Shown(c) : c \in {x \in Containers : Matches(x, f)}} IN
  /\ Free(k)
  /\ Reply(k, [op |-> "list", code |-> "ok", filter |-> f, items |-> items])
  /\ Sees(k, items) /\ UNCHANGED law

\* container_stats and list_container_stats take the ids first ...
ContainerStats(k, c) ==
  /\ Free(k)
  /\ Goto(k, [op |-> "stats", ids |-> {c}, todo |-> {c}, recs |-> {}])
  /\ UNCHANGED <<law, seen>>

ListContainerStats(k, f) ==
  LET ids == {c \in Containers : Matches(c, StatsFilter(f))} IN
  /\ Free(k)
  /\ Goto(k, [op |-> "stats", ids |-> ids, todo |-> ids, recs |-> {}])
  /\ UNCHANGED <<law, seen>>

\* ... then read one container after the other, with the lock released in between.  The
\* first that is gone makes the whole call fail.  The files in /proc may be gone as well,
\* which reads as no usage.
StatsRead(k, c) ==
  /\ call[k].op = "stats" /\ c \in call[k].todo
  /\ IF ~Exists(c) THEN Fail(k, "stats", "NotFound")
     ELSE /\ \E used \in (IF ct[c].state = "Running" THEN BOOLEAN ELSE {FALSE}) :
               Goto(k, [call[k] EXCEPT !.todo = @ \ {c},
                                       !.recs = @ \cup {[id |-> c, used |-> used]}])
          /\ UNCHANGED <<law, seen>>

\* ... and look the names up at the end: what has gone by then has none.
StatsNames(k) ==
  /\ call[k].op = "stats" /\ call[k].todo = {}
  /\ Reply(k, [op |-> "stats", code |-> "ok", ids |-> call[k].ids,
               stats |-> {[id |-> r.id, used |-> r.used, named |-> Exists(r.id)] : r \in call[k].recs}])
  /\ UNCHANGED <<law, seen>>

\* Programs end by themselves.
Exits == \E c \in Containers : Backend!ExitContainer(c) /\ UNCHANGED <<call, answer, seen>>

Configs == {"none", "unnamed", "full"}

Next ==
  \/ \E k \in Clients :
       \/ RemovePodStep(k) \/ SpawnStep(k) \/ StatsNames(k)
       \/ \E config \in Configs :
            \/ RunPodSandbox(k, config)
            \/ \E s \in Sandboxes : CreateContainer(k, s, config)
       \/ \E s \in Sandboxes : StopPodSandbox(k, s) \/ RemovePodSandbox(k, s) \/ PodSandboxStatus(k, s)
       \/ \E c \in Containers :
            \/ StartContainer(k, c) \/ StopContainer(k, c) \/ RemoveContainer(k, c)
            \/ ContainerStatus(k, c) \/ ContainerStats(k, c) \/ StatsRead(k, c)
       \/ \E f \in PodFilters : ListPodSandbox(k, f)
       \/ \E f \in Filters : ListContainers(k, f) \/ ListContainerStats(k, f)
  \/ Exits

Spec == Init /\ [][Next]_shvars
-----------------------------------------------------------------------------
\* What a filter asks for, in the terms of the wire (api.proto: the fields are combined
\* with AND): what is listed has the state number it was asked by.
AskedButState(f, i) ==
  f.id \in {None, i.id} /\ f.sandbox \in {None, i.sandbox} /\ f.labels \subseteq i.labels
Asked(f, i) == AskedButState(f, i) /\ f.state \in {None, i.state}

\* Of sandboxes, 0 asks for those that are ready, and every other number for those that are not.
PodAsked(f, i) == AskedButState(f, i) /\ (f.state # None => (f.state = 0) = (i.state = 0))

\* A list is what there is at one moment, no more and no less than was asked for.
ListIsExact(a) ==
  a.items = {Shown(c) : c \in {x \in Containers : Exists(x) /\ Asked(a.filter, Shown(x))}}
PodListIsExact(a) ==
  a.items = {ShownPod(s) : s \in {x \in Sandboxes : sb[x] # "absent" /\ PodAsked(a.filter, ShownPod(x))}}

\* The stats are those of the containers there were when the call came, each with a name
\* while it is there; if not, one of them has gone.  Only a container that ran has usage.
StatsAreWhole(a) ==
  /\ a.code = "ok" =>
       /\ {r.id : r \in a.stats} = a.ids
       /\ \A r \in a.stats : r.named = Exists(r.id) /\ (r.named /\ r.used => ct[r.id].state # "Created")
  /\ a.code # "ok" => a.code = "not_found"

\* What an answer to a start, a stop or a removal says of the record it leaves.  Ok is for a
\* container that was started, and for what is not there any more; an error of a stop comes
\* only after the stop, and one of a removal leaves what was to go stopped, for another try.
ChangeIsDone(a) ==
  /\ a.op = "start" /\ a.code = "ok" => ct'[a.id].state # "Created"
  /\ a.op = "stop" /\ a.code # "ok" => ct'[a.id].state = "Exited"
  /\ a.op = "stop_pod" => sb'[a.id] # "Ready"
  /\ a.op = "remove" => ct'[a.id].state = (IF a.code = "ok" THEN "absent" ELSE "Exited")
  /\ a.op = "remove_pod" => sb'[a.id] = (IF a.code = "ok" THEN "absent" ELSE "NotReady")

\* Every answer is true of the records at one moment of the call, and neither a
\* sandbox nor a container goes back before the eyes of a client: not from Exited to Running,
\* not in a list that was asked for by state.
AnswersAreTrue ==
  [][\A k \in Clients :
       LET a == answer'[k] IN
       /\ \A x \in DOMAIN seen[k] : seen'[k][x] >= seen[k][x]
       /\ a # answer[k] =>
            /\ a.op = "list" => ListIsExact(a)
            /\ a.op = "list_pods" => PodListIsExact(a)
            /\ a.op = "stats" => StatsAreWhole(a)
            /\ a.op = "status" /\ a.code = "ok" =>
                 (a.reason = "Completed") = (a.item.state = 2 /\ a.exit = 0)
            /\ ChangeIsDone(a)]_shvars
=============================================================================

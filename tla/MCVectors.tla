----------------------------- MODULE MCVectors -----------------------------
(***************************************************************************)
(* The vectors of the repository (vectors/*.json) for VectorRunner, each   *)
(* of them again with one expectation falsified, and suites with what else *)
(* a directory may hold.  Names, uids and the like are left out, and       *)
(* vectors that differ only in those are one.                              *)
(***************************************************************************)
EXTENDS Integers, Sequences

CONSTANTS None

Call(op, id, arg, want) == [op |-> op, id |-> id, arg |-> arg, want |-> want, expect |-> "ok"]
Err(step, name) == [step EXCEPT !.expect = name]

\* The steps.  A pod and a container say what matters of their config.
RunPod == Call("run_sandbox", -1, [host |-> FALSE, logs |-> FALSE], None)
RunHostPod == [RunPod EXCEPT !.arg.host = TRUE]
RunLogPod == [RunPod EXCEPT !.arg.logs = TRUE]
StopPod(n) == Call("stop_sandbox", n, None, None)
RemovePod(n) == Call("remove_sandbox", n, None, None)
PodIs(n, state) == Call("sandbox_status", n, None, state)
IpIs(n, present) == Call("sandbox_status_ip", n, None, present)
Create(n, image, ends) ==
  Call("create_container", n, [image |-> image, ends |-> ends, log |-> FALSE, lines |-> <<>>], None)
Start(n) == Call("start_container", n, None, None)
Stop(n, grace) == Call("stop_container", n, grace, None)
RemoveCt(n) == Call("remove_container", n, None, None)
StatusIs(n, state, code) == Call("assert_status", n, None, <<state, code>>)
Wait(n) == Call("wait_exited", n, None, None)
Exec(n, cmd, code, out) == Call("exec_sync", n, cmd, <<code, out>>)
Open(n, cmd, code, out) == Call("open_exec", n, cmd, <<code, out>>)
Pull(ref) == Call("pull_image", -1, ref, None)
ImageIs(ref, present) == Call("image_status", -1, ref, present)
ImagesAre(count) == Call("list_images", -1, None, count)
RemoveRef(ref) == Call("remove_image", -1, ref, None)
Reopen == Call("reopen_backend", -1, None, None)
LogExists(s, c) == Call("assert_log_exists", s, c, None)
LogFormat(s, c) == Call("assert_log_format", s, c, None)

Sleeps == {}
Cmd(code, out) == [code |-> code, out |-> out, tty |-> FALSE, floods |-> FALSE]
Line == [date |-> TRUE, zone |-> "Z", stream |-> "stdout", tag |-> "F"]
CreateLog(n) == [Create(n, "sh", {0}) EXCEPT !.arg.log = TRUE, !.arg.lines = <<Line>>]
Missing == -1
Blank == "invalid ref"

RepositoryVectors == {
  <<RunPod, Create(0, "busy", {0}), Start(1), Wait(1), StatusIs(1, "Exited", 0), RemoveCt(1), RemovePod(0)>>,
  <<RunPod, Create(0, "sleep", Sleeps), Start(1), RemoveCt(1), RemovePod(0)>>,
  <<RunPod, Create(0, "exit0", {0}), Start(1), Wait(1), Err(Start(1), "FailedPrecondition"), RemoveCt(1),
    RemovePod(0)>>,
  <<RunPod, Create(0, "sleep", Sleeps), Start(1), Err(Start(1), "FailedPrecondition"), Stop(1, 0),
    RemovePod(0)>>,
  <<Err(StatusIs(Missing, "Created", None), "NotFound")>>,
  <<RunPod, Create(0, "sh", {42}), Start(1), Wait(1), StatusIs(1, "Exited", 42), Reopen,
    StatusIs(1, "Exited", 42), PodIs(0, "Ready"), RemovePod(0)>>,
  <<Pull("a:1"), RunPod, StopPod(1), PodIs(1, "NotReady"), Reopen, ImageIs("a:1", TRUE),
    PodIs(1, "NotReady"), RemovePod(1)>>,
  <<RunPod, Create(0, "sleeper", Sleeps), Start(1), Reopen, StatusIs(1, "Running", None),
    PodIs(0, "Ready"), Stop(1, 0), RemovePod(0)>>,
  <<RunPod, StopPod(0), PodIs(0, "NotReady"), Err(Create(0, "x", {0}), "FailedPrecondition"), RemovePod(0)>>,
  <<Err(Create(Missing, "x", {0}), "NotFound")>>,
  <<RunPod, Create(0, "sh", Sleeps), Start(1), Open(1, Cmd(0, "hi"), 0, "hi"), Stop(1, 0), RemovePod(0)>>,
  <<RunPod, Create(0, "sh", Sleeps), Start(1), Open(1, Cmd(7, ""), 7, None), Stop(1, 0), RemovePod(0)>>,
  <<RunPod, Create(0, "sh", Sleeps), Start(1), Exec(1, Cmd(0, "hello"), 0, "hello"),
    Exec(1, Cmd(7, ""), 7, None), Stop(1, 0), RemovePod(0)>>,
  <<RunHostPod, IpIs(0, FALSE), RemovePod(0)>>,
  <<RunPod, Create(0, "exit0", {0}), Start(1), Wait(1), RemoveCt(1), RemoveCt(1), RemovePod(0)>>,
  <<RunPod, StopPod(0), PodIs(0, "NotReady"), StopPod(0), PodIs(0, "NotReady"), RemovePod(0)>>,
  <<RunPod, Create(0, "sleep", Sleeps), Start(1), Stop(1, 0), StatusIs(1, "Exited", None), Stop(1, 0),
    StatusIs(1, "Exited", None), RemovePod(0)>>,
  <<Err(Pull(Blank), "InvalidArgument")>>,
  <<ImagesAre(0), Pull("a:1"), ImagesAre(1), ImageIs("a:1", TRUE), RemoveRef("a:1"), ImagesAre(0),
    ImageIs("a:1", FALSE)>>,
  <<Pull("a:1"), RunPod, Create(1, "a:1", Sleeps), Start(2), Err(RemoveRef("a:1"), "InUse"), Stop(2, 0),
    RemovePod(1)>>,
  <<RunLogPod, CreateLog(0), Start(1), Wait(1), LogExists(0, 1), LogFormat(0, 1), RemoveCt(1), RemovePod(0)>>,
  <<RemoveRef("b"), RemoveRef("b"), Pull("c"), RemoveRef("c"), RemoveRef("c")>>,
  <<RemovePod(Missing)>>,
  <<RunPod, PodIs(0, "Ready"), StopPod(0), PodIs(0, "NotReady"), RemovePod(0)>>,
  <<RunPod, Create(0, "sleep", Sleeps), Start(1), StatusIs(1, "Running", None), RemovePod(0),
    Err(StatusIs(1, "Exited", None), "NotFound")>>,
  <<Err(PodIs(Missing, None), "NotFound")>>,
  <<RunPod, Create(0, "sleep", Sleeps), Stop(1, 0), StatusIs(1, "Created", None), RemoveCt(1), RemovePod(0)>>,
  <<RunPod, Create(0, "sleep", Sleeps), Start(1), Stop(1, 5), StatusIs(1, "Exited", 143), RemoveCt(1),
    RemovePod(0)>>,
  <<RunPod, Create(0, "sleep", Sleeps), Start(1), Stop(1, 0), StatusIs(1, "Exited", 137), RemoveCt(1),
    RemovePod(0)>>}

\* Calls that no vector of the repository makes: exec where nothing runs or of nothing, a
\* log that is not there yet, a pty.
MoreVectors == {
  <<RunPod, Create(0, "sh", Sleeps), Err(Exec(1, Cmd(0, ""), None, None), "FailedPrecondition"),
    Err(Open(Missing, Cmd(0, ""), None, None), "NotFound"), Start(1),
    Err(Exec(1, None, None, None), "InvalidArgument"), Err(Open(1, None, None, None), "InvalidArgument"),
    Err(Start(Missing), "NotFound"), Err(Wait(Missing), "NotFound"), Err(IpIs(Missing, TRUE), "NotFound"),
    Err(LogExists(0, Missing), "NotFound"), Err(LogFormat(Missing, 1), "NotFound")>>,
  <<RunPod, Create(0, "sh", Sleeps), Start(1), Open(1, [Cmd(0, "hi") EXCEPT !.tty = TRUE], 0, "hi")>>,
  <<RunPod, Create(0, "sh", {3}), Start(1), Stop(1, 0), Wait(1)>>}

\* A step with another expectation: another outcome of the call, another state, number or
\* output.
Other(step) ==
  {Err(step, "Io")} \cup (IF step.expect = "ok" THEN {} ELSE {Err(step, "ok")})
    \cup IF step.expect # "ok" THEN {}
         ELSE CASE step.op = "sandbox_status" -> {[step EXCEPT !.want = "gone"]}
                [] step.op \in {"sandbox_status_ip", "image_status"} -> {[step EXCEPT !.want = ~@]}
                [] step.op = "list_images" -> {[step EXCEPT !.want = @ + 1]}
                [] step.op = "assert_status" ->
                     {[step EXCEPT !.want[1] = "Unknown"], [step EXCEPT !.want[2] = 1]}
                [] step.op \in {"exec_sync", "open_exec"} ->
                     {[step EXCEPT !.want[1] = 1], [step EXCEPT !.want[2] = "other"]}
                [] OTHER -> {}

Falsified(steps) ==
  UNION {{[steps EXCEPT ![i] = o] : o \in Other(steps[i])} :
           i \in {j \in DOMAIN steps : steps[j].op # "reopen_backend"}}

File(kind, sound, steps) == [kind |-> kind, sound |-> sound, steps |-> steps]
Sound(steps) == File("vector", "yes", steps)
Garbled == File("garbled", "no", <<>>)
Unreadable == File("unreadable", "no", <<>>)
Simple == Sound(<<RunPod, RemovePod(0)>>)

\* A reopened backend may wait for an exit in vain or find the code lost; one line of a log
\* is none; a command floods its stderr.
Open2 ==
  {File("vector", "either", steps) : steps \in {
    <<RunPod, Create(0, "sh", {3}), Start(1), Reopen, Wait(1), StatusIs(1, "Exited", 3)>>,
    <<RunLogPod, [CreateLog(0) EXCEPT !.arg.lines = <<Line, [Line EXCEPT !.tag = "X"]>>], Start(1),
      LogFormat(0, 1)>>,
    <<RunPod, Create(0, "sh", Sleeps), Start(1), Open(1, [Cmd(0, "") EXCEPT !.floods = TRUE], 0, None)>>}}

SomeSuites ==
  {<<Sound(v)>> : v \in RepositoryVectors \cup MoreVectors}
    \cup {<<File("vector", "no", w)>> : w \in UNION {Falsified(v) : v \in RepositoryVectors \cup MoreVectors}}
    \cup {<<f>> : f \in Open2}
    \cup {<<Garbled, Simple, Garbled>>, <<Simple, Unreadable, Simple>>, <<>>}
=============================================================================

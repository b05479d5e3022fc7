---------------------------- MODULE VectorRunner ----------------------------
(***************************************************************************)
(* The conformance vectors and their runner                                *)
(* (crates/lightr-cri-vectors/src/lib.rs): scripts of calls with an        *)
(* expectation each, run one after the other against a backend.  The       *)
(* backend here is the State law and a set of images; after reopen_backend *)
(* the containers that run have no reaper in the new backend, so that      *)
(* their exit is never seen by it.                                         *)
(*                                                                         *)
(* A vector reopens its backend once at most, and a call does not fail for *)
(* the disk's or the network's sake.  Messages are left out.               *)
(***************************************************************************)
EXTENDS Integers, FiniteSets, Sequences

CONSTANTS
  Sandboxes, Containers, None,
  VrCodes,   \* exit codes
  Suites,    \* directories of vectors: sequences of files
  BadRefs    \* image references with white space

VARIABLES
  vr_sb, vr_ct, vr_spent, \* the records of the backend, as in StateLaw
  vr_images,              \* the references that are pulled
  vr_cfg,                 \* the config each sandbox and container was made with
  vr_adopted,             \* containers that ran when the backend was reopened
  vr_suite,               \* the files, in the order of their names
  vr_pc,                  \* "file", "step", "looked", or how run_vectors ended
  vr_results,             \* what each step of the vector left for the later ones
  vr_late,                \* has the deadline of a wait passed?
  vr_report               \* the verdict on each file

Backend == INSTANCE StateLaw WITH sb <- vr_sb, ct <- vr_ct, spent <- vr_spent, Codes <- VrCodes

law == <<vr_sb, vr_ct, vr_spent>>
backend == <<vr_sb, vr_ct, vr_spent, vr_images, vr_cfg, vr_adopted>>
runner == <<vr_pc, vr_results, vr_late, vr_report>>
vrvars == <<vr_sb, vr_ct, vr_spent, vr_images, vr_cfg, vr_adopted,
            vr_suite, vr_pc, vr_results, vr_late, vr_report>>

Pod(s) == s \in Sandboxes /\ vr_sb[s] # "absent"
Exists(c) == c \in Containers /\ vr_ct[c].state # "absent"

Init ==
  /\ Backend!Init /\ vr_images = {} /\ vr_cfg = [x \in Sandboxes \cup Containers |-> None]
  /\ vr_adopted = {}
  /\ vr_suite \in Suites
  /\ vr_pc = "file" /\ vr_results = <<>> /\ vr_late = FALSE /\ vr_report = <<>>
-----------------------------------------------------------------------------
(* run_vectors and run_vector.                                             *)

File == vr_suite[Len(vr_report) + 1]
Step == File.steps[Len(vr_results) + 1]
At(op) == vr_pc = "step" /\ Len(vr_results) < Len(File.steps) /\ Step.op = op

Verdict(passed) ==
  vr_report' = Append(vr_report, [passed |-> passed, at |-> Len(vr_results) + 1, late |-> vr_late])

\* A file that does not parse is a failure; one that cannot be read ends it all, and the
\* report is lost.  Each vector has a backend of its own.
TakeFile ==
  /\ vr_pc = "file" /\ Len(vr_report) < Len(vr_suite)
  /\ CASE File.kind = "unreadable" -> vr_pc' = "aborted" /\ UNCHANGED <<backend, vr_report>>
       [] File.kind = "garbled" -> Verdict(FALSE) /\ UNCHANGED <<backend, vr_pc>>
       [] File.kind = "vector" ->
            /\ vr_pc' = "step" /\ UNCHANGED vr_report
            /\ vr_sb' = [s \in Sandboxes |-> "absent"]
            /\ vr_ct' = [c \in Containers |-> Backend!Nothing]
            /\ vr_spent' = {} /\ vr_images' = {} /\ vr_adopted' = {}
            /\ vr_cfg' = [x \in Sandboxes \cup Containers |-> None]
  /\ vr_results' = <<>> /\ vr_late' = FALSE /\ UNCHANGED vr_suite

VectorPasses ==
  /\ vr_pc = "step" /\ Len(vr_results) = Len(File.steps)
  /\ Verdict(TRUE) /\ vr_pc' = "file"
  /\ UNCHANGED <<backend, vr_suite, vr_results, vr_late>>

Report ==
  /\ vr_pc = "file" /\ Len(vr_report) = Len(vr_suite)
  /\ vr_pc' = "reported" /\ UNCHANGED <<backend, vr_suite, vr_results, vr_late, vr_report>>

\* "$N" is what step N left; anything else, and a step that left nothing, names nothing.
Subst(n) == IF n + 1 \in DOMAIN vr_results THEN vr_results[n + 1] ELSE None
Id == Subst(Step.id)

StepPasses(v) ==
  /\ vr_results' = Append(vr_results, v) /\ vr_pc' = "step" /\ vr_late' = FALSE
  /\ UNCHANGED <<vr_suite, vr_report>>
StepFails == Verdict(FALSE) /\ vr_pc' = "file" /\ UNCHANGED <<vr_suite, vr_results, vr_late>>

\* Mutant: any error will do where one is expected.
Bug_Judge(err, v, holds) ==
  IF (err = "ok") # (Step.expect = "ok") THEN StepFails
  ELSE IF err # "ok" THEN StepPasses(None)
  ELSE IF holds THEN StepPasses(v) ELSE StepFails

\* What a call returned against what the step expects: "ok", or the name of the error.  A
\* call that succeeds must have left what the step asserts as well.
Judge(err, v, holds) ==
  IF err # Step.expect THEN StepFails
  ELSE IF err # "ok" THEN StepPasses(None)
  ELSE IF holds THEN StepPasses(v) ELSE StepFails

Returns(err) == Judge(err, None, TRUE)
Refused(err) == Returns(err) /\ UNCHANGED backend
\* An expectation that is not there is met.
Want(want, got) == want \in {None, got}
-----------------------------------------------------------------------------
(* execute_step, an action per operation.                                  *)

\* Without a network of its own a sandbox has no ip; with one it has, if CNI is there.
RunSandbox ==
  /\ At("run_sandbox")
  /\ \E s \in Sandboxes, ip \in (IF Step.arg.host THEN {FALSE} ELSE BOOLEAN) :
       /\ Backend!RunSandbox(s) /\ Judge("ok", s, TRUE)
       /\ vr_cfg' = [vr_cfg EXCEPT ![s] = [ip |-> ip, logs |-> Step.arg.logs]]
  /\ UNCHANGED <<vr_images, vr_adopted>>

StopSandbox ==
  /\ At("stop_sandbox") /\ Returns("ok")
  /\ IF Pod(Id) /\ vr_sb[Id] = "Ready" THEN Backend!StopSandbox(Id) ELSE UNCHANGED law
  /\ UNCHANGED <<vr_images, vr_cfg, vr_adopted>>

\* It stops and removes the containers on the way.
RemoveSandbox ==
  /\ At("remove_sandbox") /\ Returns("ok")
  /\ IF Pod(Id)
     THEN /\ vr_sb' = [vr_sb EXCEPT ![Id] = "absent"]
          /\ vr_ct' = [c \in Containers |->
                         IF c \in Backend!Members(Id) THEN Backend!Nothing ELSE vr_ct[c]]
     ELSE UNCHANGED <<vr_sb, vr_ct>>
  /\ UNCHANGED <<vr_spent, vr_images, vr_cfg, vr_adopted>>

SandboxStatus ==
  /\ At("sandbox_status")
  /\ IF Pod(Id) THEN Judge("ok", None, Want(Step.want, vr_sb[Id])) ELSE Returns("NotFound")
  /\ UNCHANGED backend

SandboxStatusIp ==
  /\ At("sandbox_status_ip")
  /\ IF Pod(Id) THEN Judge("ok", None, vr_cfg[Id].ip = Step.want) ELSE Returns("NotFound")
  /\ UNCHANGED backend

CreateContainer ==
  /\ At("create_container")
  /\ \/ ~Pod(Id) /\ Refused("NotFound")
     \/ Pod(Id) /\ vr_sb[Id] # "Ready" /\ Refused("FailedPrecondition")
     \/ /\ Pod(Id) /\ vr_sb[Id] = "Ready"
        /\ \E c \in Containers :
             /\ Backend!CreateContainer(c, Id) /\ Judge("ok", c, TRUE)
             /\ vr_cfg' = [vr_cfg EXCEPT ![c] = Step.arg]
        /\ UNCHANGED <<vr_images, vr_adopted>>

StartContainer ==
  /\ At("start_container")
  /\ \/ ~Exists(Id) /\ Refused("NotFound")
     \/ Exists(Id) /\ vr_ct[Id].state # "Created" /\ Refused("FailedPrecondition")
     \/ Exists(Id) /\ Backend!StartContainer(Id) /\ Returns("ok")
        /\ UNCHANGED <<vr_images, vr_cfg, vr_adopted>>

\* A container exits with the code of its program, or of the signal that ended it.
ExitsWith(c, code) == Backend!ExitContainer(c) /\ vr_ct'[c].code = code

\* What a call to stop may wait for; the program may have ended just before.
Endings(c, grace) ==
  {IF grace > 0 THEN 128 + 15 ELSE 128 + 9} \cup vr_cfg[c].ends

StopContainer ==
  /\ At("stop_container") /\ Returns("ok")
  /\ IF Exists(Id) /\ vr_ct[Id].state = "Running" /\ Id \notin vr_adopted
     THEN \E code \in Endings(Id, Step.arg) : ExitsWith(Id, code)
     ELSE UNCHANGED law
  /\ UNCHANGED <<vr_images, vr_cfg, vr_adopted>>

RemoveContainer ==
  /\ At("remove_container") /\ Returns("ok")
  /\ IF Exists(Id) THEN Backend!RemoveContainer(Id) ELSE UNCHANGED law
  /\ UNCHANGED <<vr_images, vr_cfg, vr_adopted>>

AssertStatus ==
  /\ At("assert_status")
  /\ IF Exists(Id)
     THEN Judge("ok", None, vr_ct[Id].state = Step.want[1] /\ Want(Step.want[2], vr_ct[Id].code))
     ELSE Returns("NotFound")
  /\ UNCHANGED backend

\* wait_exited looks at the status, then, if it is not that, at the clock.
LookExited ==
  /\ At("wait_exited")
  /\ IF ~Exists(Id) THEN Returns("NotFound")
     ELSE IF vr_ct[Id].state = "Exited" THEN Returns("ok")
     ELSE vr_pc' = "looked" /\ UNCHANGED <<vr_suite, vr_results, vr_late, vr_report>>
  /\ UNCHANGED backend

LookAtClock ==
  /\ vr_pc = "looked"
  /\ IF vr_late THEN StepFails
     ELSE vr_pc' = "step" /\ UNCHANGED <<vr_suite, vr_results, vr_late, vr_report>>
  /\ UNCHANGED backend

\* The deadline of a wait passes.
Expire ==
  /\ vr_pc = "looked" \/ At("wait_exited")
  /\ ~vr_late /\ vr_late' = TRUE
  /\ UNCHANGED <<backend, vr_suite, vr_pc, vr_results, vr_report>>

Runs(c) == Exists(c) /\ vr_ct[c].state = "Running"
ExecRefused ==
  \/ ~Exists(Id) /\ Refused("NotFound")
  \/ Exists(Id) /\ ~Runs(Id) /\ Refused("FailedPrecondition")
  \/ Runs(Id) /\ Step.arg = None /\ Refused("InvalidArgument")

\* Commands end well before the 30 s they are given.
ExecSync ==
  /\ At("exec_sync")
  /\ \/ ExecRefused
     \/ /\ Runs(Id) /\ Step.arg # None
        /\ Judge("ok", None, Want(Step.want[1], Step.arg.code) /\ Want(Step.want[2], Step.arg.out))
        /\ UNCHANGED backend

\* The output is read to its end while nobody reads stderr: a command that fills that pipe
\* is waited for without end.  On a pty there is no end but an error.
OpenExec ==
  /\ At("open_exec")
  /\ \/ ExecRefused
     \/ /\ Runs(Id) /\ Step.arg # None
        /\ \/ Step.expect # "ok" /\ StepFails
           \/ /\ Step.expect = "ok" /\ ~Step.arg.floods
              /\ IF Step.arg.tty THEN StepFails
                 ELSE Judge("ok", None, /\ Want(Step.want[1], Step.arg.code)
                                        /\ Want(Step.want[2], Step.arg.out))
        /\ UNCHANGED backend

\* The hash that may be kept as the result names neither a sandbox nor a container.
PullImage ==
  /\ At("pull_image")
  /\ IF Step.arg \in BadRefs THEN Refused("InvalidArgument")
     ELSE /\ Returns("ok") /\ vr_images' = vr_images \cup {Step.arg}
          /\ UNCHANGED <<law, vr_cfg, vr_adopted>>

ImageStatus ==
  /\ At("image_status") /\ Judge("ok", None, Want(Step.want, Step.arg \in vr_images))
  /\ UNCHANGED backend

ListImages ==
  /\ At("list_images") /\ Judge("ok", None, Want(Step.want, Cardinality(vr_images)))
  /\ UNCHANGED backend

InUse(ref) == \E c \in Containers : vr_ct[c].state \in {"Created", "Running"} /\ vr_cfg[c].image = ref
RemoveImage ==
  /\ At("remove_image")
  /\ IF Step.arg \in vr_images /\ InUse(Step.arg) THEN Refused("InUse")
     ELSE /\ Returns("ok") /\ vr_images' = vr_images \ {Step.arg}
          /\ UNCHANGED <<law, vr_cfg, vr_adopted>>

\* The new backend reads the records while the reapers of the old one are still there: a
\* program that has just ended may be found gone, and its exit code lost.
Reopen ==
  /\ At("reopen_backend") /\ Returns("ok")
  /\ \E gone \in SUBSET {c \in Containers : Runs(c) /\ vr_cfg[c].ends # {}} :
       /\ vr_ct' = [c \in Containers |->
                      IF c \in gone THEN [vr_ct[c] EXCEPT !.state = "Exited", !.code = -1] ELSE vr_ct[c]]
       /\ vr_adopted' = {c \in Containers : Runs(c)} \ gone
  /\ UNCHANGED <<vr_sb, vr_spent, vr_images, vr_cfg>>

\* The log file is made when the container starts; its path is that of the two configs.
LogPath(s, c) == vr_cfg[s].logs /\ vr_cfg[c].log
AssertLogExists ==
  LET s == Id  c == Subst(Step.arg) IN
  /\ At("assert_log_exists")
  /\ IF ~Pod(s) \/ ~Exists(c) THEN Returns("NotFound")
     ELSE Judge("ok", None, LogPath(s, c) /\ vr_ct[c].state # "Created")
  /\ UNCHANGED backend

\* validate_cri_log_line, on the parts of a line.
Valid(line) ==
  /\ line.date /\ line.zone \in {"Z", "z", "+hh:mm", "+hh"}
  /\ line.stream \in {"stdout", "stderr"} /\ line.tag \in {"F", "P"}

\* The tee may not have written all of it yet.
AssertLogFormat ==
  LET s == Id  c == Subst(Step.arg) IN
  /\ At("assert_log_format")
  /\ IF ~Pod(s) \/ ~Exists(c) THEN Returns("NotFound")
     ELSE \E n \in 0..Len(vr_cfg[c].lines) :
            Judge("ok", None, /\ LogPath(s, c) /\ vr_ct[c].state # "Created"
                              /\ \A i \in 1..n : Valid(vr_cfg[c].lines[i]))
  /\ UNCHANGED backend
-----------------------------------------------------------------------------
RunnerStep ==
  \/ TakeFile \/ VectorPasses \/ Report
  \/ RunSandbox \/ StopSandbox \/ RemoveSandbox \/ SandboxStatus \/ SandboxStatusIp
  \/ CreateContainer \/ StartContainer \/ StopContainer \/ RemoveContainer
  \/ AssertStatus \/ LookExited \/ LookAtClock \/ ExecSync \/ OpenExec
  \/ PullImage \/ ImageStatus \/ ListImages \/ RemoveImage
  \/ Reopen \/ AssertLogExists \/ AssertLogFormat

\* A program ends, and the reaper of this backend, if it has one, records it.
ProgramEnds ==
  /\ vr_pc \in {"step", "looked"}
  /\ \E c \in Containers \ vr_adopted : Runs(c) /\ \E code \in vr_cfg[c].ends : ExitsWith(c, code)
  /\ UNCHANGED <<vr_images, vr_cfg, vr_adopted, vr_suite, vr_pc, vr_results, vr_late, vr_report>>

Next == RunnerStep \/ Expire \/ ProgramEnds

Spec == Init /\ [][Next]_vrvars /\ WF_vrvars(RunnerStep) /\ WF_vrvars(Expire)
-----------------------------------------------------------------------------
Ended == vr_pc \in {"reported", "aborted"}
\* A command of open_exec that fills its stderr.
Stuck == At("open_exec") /\ Step.arg # None /\ Step.arg.floods

\* A verdict can be trusted.  A vector whose expectations are those of the State law fails
\* only where it waited for an exit and the time was up, or read a pty; one of which a
\* single expectation is wrong never passes; and every file has one verdict, in order,
\* unless a file could not be read.
VerdictsAreRight ==
  /\ \A i \in DOMAIN vr_report :
       LET f == vr_suite[i]  v == vr_report[i] IN
       /\ f.kind = "garbled" => ~v.passed
       /\ f.kind = "vector" /\ f.sound = "no" => ~v.passed
       /\ (f.kind = "vector" /\ f.sound = "yes" /\ ~v.passed) =>
            \/ f.steps[v.at].op = "wait_exited" /\ v.late
            \/ f.steps[v.at].op = "open_exec" /\ f.steps[v.at].arg.tty
  /\ vr_pc = "reported" => Len(vr_report) = Len(vr_suite)
  /\ vr_pc = "aborted" => File.kind = "unreadable"
=============================================================================

------------------------ MODULE FakeBackendRefinement ------------------------
(***************************************************************************)
(* The disk is the state.  The records under sandboxes/ and containers/,   *)
(* read as the state of StateLaw, take only steps the law allows: each     *)
(* file operation is one law step or none, and a crash is no step at all.  *)
(***************************************************************************)
EXTENDS FakeBackend

\* An id is spent for the law from the write of its record on, or once the call
\* that minted it is over without one.
Unwritten(id) == \E t \in Threads :
  \/ pc[t] = "run_write" /\ fr[t].sb = id
  \/ pc[t] \in {"cc_check", "cc_write"} /\ fr[t].ct = id

LawRecord(rec) == [state |-> rec.state, sandbox |-> rec.sandbox, code |-> rec.code]

Law == INSTANCE StateLaw WITH
  sb    <- diskSb,
  ct    <- [c \in Containers |-> LawRecord(diskCt[c])],
  spent <- {id \in usedSb \cup usedCt : ~Unwritten(id)}

\* With one caller the disk obeys the State law, whatever reapers, programs and
\* crashes do meanwhile.
ObeysStateLaw == Law!Spec
=============================================================================

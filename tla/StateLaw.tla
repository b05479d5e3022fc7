------------------------------ MODULE StateLaw ------------------------------
(***************************************************************************)
(* What the backend promises its clients, free of caches, threads and      *)
(* processes: each call of crates/lightr-cri-fake/src/lib.rs as one step   *)
(* on the records that exist.  The trait CriBackend                        *)
(* (crates/lightr-cri-backend/src/lib.rs) calls this the State law.  It is *)
(* the abstract specification of FakeBackend when calls come one at a      *)
(* time, across crashes.                                                   *)
(***************************************************************************)
CONSTANTS
  Sandboxes, Containers,
  None,       \* the sandbox of a container that does not exist
  Codes       \* exit codes

VARIABLES
  sb,         \* sandbox -> "absent", "Ready" or "NotReady"
  ct,         \* container -> [state, sandbox, code]
  spent       \* ids given out: an id names one thing for ever

law == <<sb, ct, spent>>

Nothing == [state |-> "absent", sandbox |-> None, code |-> 0]

Init ==
  /\ sb = [s \in Sandboxes |-> "absent"]
  /\ ct = [c \in Containers |-> Nothing]
  /\ spent = {}

Members(s) == {c \in Containers : ct[c].state # "absent" /\ ct[c].sandbox = s}

RunSandbox(s) ==
  /\ s \notin spent
  /\ spent' = spent \cup {s}
  /\ sb' = [sb EXCEPT ![s] = "Ready"]
  /\ UNCHANGED ct

StopSandbox(s) ==
  /\ sb[s] = "Ready"
  /\ sb' = [sb EXCEPT ![s] = "NotReady"]
  /\ UNCHANGED <<ct, spent>>

\* Only a stopped sandbox goes, and its containers have gone before it.
RemoveSandbox(s) ==
  /\ sb[s] = "NotReady" /\ Members(s) = {}
  /\ sb' = [sb EXCEPT ![s] = "absent"]
  /\ UNCHANGED <<ct, spent>>

CreateContainer(c, s) ==
  /\ c \notin spent /\ sb[s] = "Ready"
  /\ spent' = spent \cup {c}
  /\ ct' = [ct EXCEPT ![c] = [state |-> "Created", sandbox |-> s, code |-> 0]]
  /\ UNCHANGED sb

StartContainer(c) ==
  /\ ct[c].state = "Created"
  /\ ct' = [ct EXCEPT ![c].state = "Running"]
  /\ UNCHANGED <<sb, spent>>

\* The exit code is set once, when the container exits.
ExitContainer(c) ==
  /\ ct[c].state = "Running"
  /\ \E k \in Codes : ct' = [ct EXCEPT ![c].state = "Exited", ![c].code = k]
  /\ UNCHANGED <<sb, spent>>

\* RemoveContainer force-removes: the law of remove_container's own comment.
RemoveContainer(c) ==
  /\ ct[c].state # "absent"
  /\ ct' = [ct EXCEPT ![c] = Nothing]
  /\ UNCHANGED <<sb, spent>>

\* A call that fails or a crash wastes the id it had minted.
Waste(id) ==
  /\ id \notin spent
  /\ spent' = spent \cup {id}
  /\ UNCHANGED <<sb, ct>>

Next ==
  \/ \E s \in Sandboxes : RunSandbox(s) \/ StopSandbox(s) \/ RemoveSandbox(s) \/ Waste(s)
  \/ \E c \in Containers :
       \/ \E s \in Sandboxes : CreateContainer(c, s)
       \/ StartContainer(c) \/ ExitContainer(c) \/ RemoveContainer(c) \/ Waste(c)

Spec == Init /\ [][Next]_law
=============================================================================

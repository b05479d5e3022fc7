----------------------------- MODULE ContainerIo -----------------------------
(***************************************************************************)
(* The output of one running container: the tee thread that writes the CRI *)
(* log, the attachers, and the io_table whose lock open_attach holds and   *)
(* the reaper and every start need too.  A container with pipes has one    *)
(* tee thread per stream (one stream is modelled, the other is alike),     *)
(* which passes the bytes on to the attachers registered in the fan-out.   *)
(* An attacher of a container with a tty reads the pty master itself.      *)
(*                                                                         *)
(* Output is a sequence of bytes, "n" a newline and "x" any other.  A CRI  *)
(* log record is a tag, F or P, and the bytes of a line; its time stamp    *)
(* and the newline that ends a P record are formatting.                    *)
(***************************************************************************)
EXTENDS Integers, Sequences, SequencesExt

CONSTANTS
  Attachers,   \* attach sessions, each opened at most once
  PipeRoom,    \* capacity of a pipe, in bytes
  MaxBytes,    \* bound on what the container writes
  Modes        \* how it may be started: "pipe", "tty"

ASSUME IoConstants ==
  PipeRoom \in Nat \ {0} /\ MaxBytes \in Nat /\ Modes \subseteq {"pipe", "tty"}

Bytes == {"x", "n"}
Nobody == "nobody"

VARIABLES
  mode,      \* config.tty
  written,   \* history: all the container wrote
  pipe,      \* bytes in its stdout pipe, or readable at its pty master
  open,      \* does any process hold a write end of that pipe?
  alive,     \* has the container's own process not ended?
  state,     \* "Running", then "Exited" once the reaper has recorded it
  tee,       \* the tee thread: its step, and the chunk it has read
  pending,   \* bytes it has taken and not logged (log_pending)
  log,       \* CRI records
  sinks,     \* attachers whose write end is in the fan-out, in order of registration
  table,     \* is the container in the io_table?
  iolock,    \* who holds the lock of the io_table
  att,       \* per attacher: "new", "locked", "reading", "stalled", "closed", "ended"
  mail,      \* per attacher: bytes in its pipe
  got,       \* per attacher: history, the bytes it has read
  since      \* per attacher: history, how much had been broadcast when it registered

iovars == <<mode, written, pipe, open, alive, state, tee, pending, log, sinks, table, iolock,
            att, mail, got, since>>
process == <<mode, written, open, alive>>
logging == <<pending, log>>
attachers == <<iolock, att, got, since>>

Record(line) == [tag |-> IF Last(line) = "n" THEN "F" ELSE "P", data |-> line]

\* The complete lines of s, each with its newline, and what follows the last of them.
Ends(s) == SetToSortSeq({i \in DOMAIN s : s[i] = "n"}, <)
Begins(s) == <<1>> \o [k \in DOMAIN Ends(s) |-> Ends(s)[k] + 1]
Lines(s) == [k \in DOMAIN Ends(s) |-> SubSeq(s, Begins(s)[k], Ends(s)[k])]
Rest(s) == SubSeq(s, Last(Begins(s)), Len(s))

Init ==
  /\ mode \in Modes
  /\ written = <<>> /\ pipe = <<>> /\ open = TRUE /\ alive = TRUE /\ state = "Running"
  /\ tee = [pc |-> "read"] /\ pending = <<>> /\ log = <<>>
  /\ sinks = <<>> /\ table = TRUE /\ iolock = Nobody
  /\ att = [a \in Attachers |-> "new"]
  /\ mail = [a \in Attachers |-> <<>>] /\ got = mail
  /\ since = [a \in Attachers |-> 0]
-----------------------------------------------------------------------------
(* The container.  Its process may close its output and live on, and a     *)
(* child it leaves behind may write after it has ended.                    *)

Write(b) ==
  /\ open /\ Len(written) < MaxBytes /\ Len(pipe) < PipeRoom
  /\ written' = Append(written, b) /\ pipe' = Append(pipe, b)
  /\ UNCHANGED <<mode, open, alive, state, tee, logging, sinks, table, attachers, mail>>

CloseOutput ==
  /\ open /\ open' = FALSE
  /\ UNCHANGED <<mode, written, alive, pipe, state, tee, logging, sinks, table, attachers, mail>>

Exit ==
  /\ alive /\ alive' = FALSE
  /\ UNCHANGED <<mode, written, open, pipe, state, tee, logging, sinks, table, attachers, mail>>

\* The reaper waits for the process and for nothing else: the entry leaves the io_table, and
\* the exit is recorded.
Reap ==
  /\ ~alive /\ table /\ iolock = Nobody
  /\ table' = FALSE
  /\ UNCHANGED <<process, pipe, state, tee, logging, sinks, attachers, mail>>

RecordExit ==
  /\ ~table /\ state = "Running" /\ state' = "Exited"
  /\ UNCHANGED <<process, pipe, tee, logging, sinks, table, attachers, mail>>
-----------------------------------------------------------------------------
(* The tee thread.  One read returns some of what is there.  broadcast     *)
(* writes the whole chunk to one sink after the other, under the lock of   *)
(* the sinks: a full pipe keeps it there, a pipe nobody reads is pruned.   *)

TeeRead ==
  /\ tee.pc = "read" /\ pipe # <<>>
  /\ \E n \in 1..Len(pipe) :
       /\ tee' = [pc |-> IF mode = "pipe" THEN "lock" ELSE "log", chunk |-> SubSeq(pipe, 1, n)]
       /\ pipe' = SubSeq(pipe, n + 1, Len(pipe))
  /\ UNCHANGED <<process, state, logging, sinks, table, attachers, mail>>

TeeLock ==
  /\ tee.pc = "lock"
  /\ tee' = [pc |-> "cast", chunk |-> tee.chunk, at |-> 1, sent |-> 0]
  /\ UNCHANGED <<process, pipe, state, logging, sinks, table, attachers, mail>>

TeeSend ==
  LET a == sinks[tee.at]  k == tee.sent + 1 IN
  /\ tee.pc = "cast" /\ tee.at <= Len(sinks)
  /\ att[a] # "closed" /\ Len(mail[a]) < PipeRoom
  /\ mail' = [mail EXCEPT ![a] = Append(@, tee.chunk[k])]
  /\ tee' = IF k = Len(tee.chunk) THEN [tee EXCEPT !.at = @ + 1, !.sent = 0]
            ELSE [tee EXCEPT !.sent = k]
  /\ UNCHANGED <<process, pipe, state, logging, sinks, table, attachers>>

\* Mutant: the index moves on although the next sink has taken the place of the pruned one.
Bug_TeePrune ==
  /\ tee.pc = "cast" /\ tee.at <= Len(sinks) /\ att[sinks[tee.at]] = "closed"
  /\ sinks' = RemoveAt(sinks, tee.at)
  /\ tee' = [tee EXCEPT !.at = @ + 1, !.sent = 0]
  /\ UNCHANGED <<process, pipe, state, logging, table, attachers, mail>>

\* Mutant: a sink whose reader has gone is not pruned.
Bug_TeePruneNever == FALSE

TeePrune ==
  /\ tee.pc = "cast" /\ tee.at <= Len(sinks) /\ att[sinks[tee.at]] = "closed"
  /\ sinks' = RemoveAt(sinks, tee.at)
  /\ tee' = [tee EXCEPT !.sent = 0]
  /\ UNCHANGED <<process, pipe, state, logging, table, attachers, mail>>

TeeUnlock ==
  /\ tee.pc = "cast" /\ tee.at > Len(sinks)
  /\ tee' = [pc |-> "log", chunk |-> tee.chunk]
  /\ UNCHANGED <<process, pipe, state, logging, sinks, table, attachers, mail>>

\* Mutant: the start of a line that an earlier read brought is forgotten.
Bug_TeeLog ==
  /\ tee.pc = "log"
  /\ log' = log \o [i \in DOMAIN Lines(tee.chunk) |-> Record(Lines(tee.chunk)[i])]
  /\ pending' = Rest(tee.chunk)
  /\ tee' = [pc |-> "read"]
  /\ UNCHANGED <<process, pipe, state, sinks, table, attachers, mail>>

TeeLog ==
  LET all == pending \o tee.chunk IN
  /\ tee.pc = "log"
  /\ log' = log \o [i \in DOMAIN Lines(all) |-> Record(Lines(all)[i])]
  /\ pending' = Rest(all)
  /\ tee' = [pc |-> "read"]
  /\ UNCHANGED <<process, pipe, state, sinks, table, attachers, mail>>

\* End of output: what is left goes to the log as a partial record.
TeeEnd ==
  /\ tee.pc = "read" /\ pipe = <<>> /\ ~open
  /\ log' = IF pending = <<>> THEN log ELSE Append(log, Record(pending))
  /\ pending' = <<>> /\ tee' = [pc |-> "done"]
  /\ UNCHANGED <<process, pipe, state, sinks, table, attachers, mail>>

TeeStep ==
  TeeRead \/ TeeLock \/ TeeSend \/ TeePrune \/ TeeUnlock \/ TeeLog \/ TeeEnd
-----------------------------------------------------------------------------
(* open_attach, which keeps the lock of the io_table until the sink is     *)
(* registered, and the session that reads what it returns.                 *)

AttachCheck(a) ==
  /\ att[a] = "new" /\ iolock = Nobody
  /\ IF state # "Running" \/ ~table
     THEN att' = [att EXCEPT ![a] = "ended"] /\ UNCHANGED iolock
     ELSE IF mode = "tty"
     THEN att' = [att EXCEPT ![a] = "reading"] /\ UNCHANGED iolock
     ELSE att' = [att EXCEPT ![a] = "locked"] /\ iolock' = a
  /\ UNCHANGED <<process, pipe, state, tee, logging, sinks, table, mail, got, since>>

\* Neither in the pipe nor in a chunk that is yet to be broadcast.
Broadcast == Len(written) - Len(pipe) - IF tee.pc = "lock" THEN Len(tee.chunk) ELSE 0

AttachRegister(a) ==
  /\ att[a] = "locked" /\ tee.pc # "cast"
  /\ sinks' = Append(sinks, a)
  /\ since' = [since EXCEPT ![a] = Broadcast]
  /\ att' = [att EXCEPT ![a] = "reading"] /\ iolock' = Nobody
  /\ UNCHANGED <<process, pipe, state, tee, logging, table, mail, got>>

AttachRead(a) ==
  /\ att[a] = "reading" /\ mode = "pipe" /\ mail[a] # <<>>
  /\ got' = [got EXCEPT ![a] = @ \o mail[a]]
  /\ mail' = [mail EXCEPT ![a] = <<>>]
  /\ UNCHANGED <<process, pipe, state, tee, logging, sinks, table, iolock, att, since>>

\* A pty master gives a byte to one reader: the tee thread, or one of the attachers.
AttachReadTty(a) ==
  /\ att[a] = "reading" /\ mode = "tty" /\ pipe # <<>>
  /\ got' = [got EXCEPT ![a] = @ \o pipe]
  /\ pipe' = <<>>
  /\ UNCHANGED <<process, state, tee, logging, sinks, table, iolock, att, mail, since>>

\* End of file: every write end is closed, those of the fan-out with its last owner (the
\* entry of the io_table, the tee thread).
AttachEof(a) ==
  /\ att[a] = "reading"
  /\ IF mode = "tty" THEN ~open /\ pipe = <<>>
     ELSE mail[a] = <<>> /\ ~table /\ tee.pc = "done"
  /\ att' = [att EXCEPT ![a] = "ended"]
  /\ UNCHANGED <<process, pipe, state, tee, logging, sinks, table, iolock, mail, got, since>>

\* The client of an attach session stops reading, or goes away.
Stall(a) ==
  /\ att[a] = "reading" /\ att' = [att EXCEPT ![a] = "stalled"]
  /\ UNCHANGED <<process, pipe, state, tee, logging, sinks, table, iolock, mail, got, since>>

Detach(a) ==
  /\ att[a] \in {"reading", "stalled"} /\ att' = [att EXCEPT ![a] = "closed"]
  /\ mail' = [mail EXCEPT ![a] = <<>>]
  /\ UNCHANGED <<process, pipe, state, tee, logging, sinks, table, iolock, got, since>>

AttachStep(a) == AttachRegister(a) \/ AttachRead(a) \/ AttachReadTty(a) \/ AttachEof(a)

Next ==
  \/ \E b \in Bytes : Write(b)
  \/ CloseOutput \/ Exit \/ Reap \/ RecordExit \/ TeeStep
  \/ \E a \in Attachers : AttachCheck(a) \/ AttachStep(a) \/ Stall(a) \/ Detach(a)

Spec == Init /\ [][Next]_iovars

\* Threads run; a client that neither stalls nor leaves reads what there is.
FairSpec ==
  /\ Spec /\ WF_iovars(TeeStep) /\ WF_iovars(Reap \/ RecordExit)
  /\ \A a \in Attachers : WF_iovars(AttachStep(a))
-----------------------------------------------------------------------------
InFlight == IF tee.pc \in {"lock", "cast", "log"} THEN tee.chunk ELSE <<>>
Logged == FlattenSeq([i \in DOMAIN log |-> log[i].data])

\* "start_container MUST tee the process stdout/stderr to the CRI log file"
\* (seam-contract-v1.1.md:104): nothing the container wrote is lost, repeated or out of
\* order between it and the log, however its output is cut into reads.
LogHasAll == Logged \o pending \o InFlight \o pipe = written

\* So it is for a container with pipes, whoever attaches and leaves, and for one with a
\* tty that nobody attached to; and a record is a line, only the last may be partial.
LogIsOutput ==
  /\ (mode = "pipe" \/ \A a \in Attachers : got[a] = <<>>) => LogHasAll
  /\ \A i \in DOMAIN log :
       /\ \A j \in DOMAIN log[i].data : log[i].data[j] = "n" => j = Len(log[i].data)
       /\ log[i].tag = "P" => i = Len(log) /\ tee.pc = "done"

\* What a sink of the fan-out has been sent of the chunk under way.
SentTo(a) ==
  IF tee.pc # "cast" \/ ~Contains(sinks, a) THEN 0
  ELSE LET i == CHOOSE j \in DOMAIN sinks : sinks[j] = a
       IN IF i < tee.at THEN 0 ELSE Len(tee.chunk) - IF i = tee.at THEN tee.sent ELSE 0

\* An attacher of a container with pipes sees a gapless stretch of the output, which
\* starts where it registered and reaches up to what has been broadcast.
AttacherSeesAll ==
  \A a \in Attachers :
    (mode = "pipe" /\ att[a] \in {"reading", "stalled"}) =>
      got[a] \o mail[a] = SubSeq(written, since[a] + 1, Broadcast - SentTo(a))

\* Once nobody can write any more all output ends up in the log, although the process may
\* live on; once that has ended too every attacher is told the end.  Its entry in the io_table
\* keeps the sinks open until then, and a child it left behind does after that.  Excepted is an
\* attacher that keeps its pipe open without reading it: broadcast waits for it with the lock
\* of the sinks held.
OutputSettles ==
  (~open) ~> \/ \E a \in Attachers : att[a] = "stalled"
             \/ tee.pc = "done" /\ (alive \/ \A a \in Attachers : att[a] # "reading")
=============================================================================

---------------------------- MODULE MCExecSession ----------------------------
(* The instances of ExecSession that TLC explores. *)
EXTENDS ExecSession

\* An exec with all its streams, one on a pty, and an attach to a pty container.
Several ==
  {[verb |-> "exec",   tty |-> FALSE, stdin |-> TRUE,  offers |-> Outputs \cup {"stdin"}],
   [verb |-> "exec",   tty |-> TRUE,  stdin |-> FALSE, offers |-> {"stdout"}],
   [verb |-> "attach", tty |-> TRUE,  stdin |-> TRUE,  offers |-> {"stdout"}]}

\* An attach to a container with pipes.
Pipes == {[verb |-> "attach", tty |-> FALSE, stdin |-> TRUE,
           offers |-> Outputs \cup {"stdin"}]}

\* In the order of client-go (error, stdin, stdout, stderr), also without stdin, and a
\* client whose first stream is stdout.
Opened ==
  {{"error"}, {"error", "stdin"}, {"error", "stdin", "stdout"}, Roles,
   {"error", "stdout"}, {"stdout"}}
=============================================================================

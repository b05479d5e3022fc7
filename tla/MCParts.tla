------------------------------ MODULE MCParts ------------------------------
(***************************************************************************)
(* The values of the constants of CriParts, all its parts in one run.      *)
(***************************************************************************)
EXTENDS CriParts, SequencesExt

\* The suites of vectors.
INSTANCE MCVectors

\* exec_sync's command may exit with 0 or 3 or be killed by SIGTERM.
Endings == {<<"code", 0>>, <<"code", 3>>, <<"signal", 15>>}

\* An exec with stdin and one on a pty, an attach to pipes (of a container without
\* stdin) and one to a pty.
Sessions ==
  {[outputs |-> {"stdout", "stderr"}, stdin |-> TRUE, waiter |-> "child"],
   [outputs |-> {"stdout"}, stdin |-> FALSE, waiter |-> "child"],
   [outputs |-> {"stdout", "stderr"}, stdin |-> FALSE, waiter |-> "record"],
   [outputs |-> {"stdout"}, stdin |-> FALSE, waiter |-> "none"]}

\* Two frames of input fill a stdin; on a pty one does for every kind.  The attach to pipes
\* is there for its waiter: its client sends none, it only stalls or leaves.  The one output of
\* a pty is more than its buffer holds; of two outputs each has a byte.
FramesOf ==
  [s \in Sessions |-> IF s.stdin THEN 2 ELSE IF s.waiter = "record" THEN 0 ELSE 1]
BytesOf == [s \in Sessions |-> IF s.outputs = {"stdout"} THEN 2 ELSE 1]

\* The connections carry a requestID, or do not.
OnePort == [c \in Conns |-> 80]
SomeNamings == {Conns, {}}

\* Every type of frame with the values at its edges, and three that are malformed: another
\* version, an unknown type, a payload too short for its type.
Small(n) == <<0, 0, 0, n>>
MaxId == <<127, 255, 255, 255>>
Frame(t, flags, words, block) ==
  [type |-> t, flags |-> flags, priority |-> IF t = "SynStream" THEN 7 ELSE 0,
   words |-> words, block |-> block]
Raw(bytes) == [type |-> "raw", bytes |-> bytes]
SomeFrames ==
  {Frame("Data", 0, <<Small(1)>>, <<10, 200>>), Frame("Data", 1, <<MaxId>>, <<>>),
   Frame("SynStream", 2, <<Small(3), Small(0)>>, <<1, 2>>),
   Frame("SynReply", 0, <<Small(3)>>, <<9>>), Frame("Rst", 0, <<Small(5), Small(3)>>, <<>>),
   Frame("Settings", 0, <<>>, <<4>>), Frame("Ping", 0, <<<<255, 1, 2, 3>>>>, <<>>),
   Frame("GoAway", 0, <<Small(9), Small(0)>>, <<>>), Frame("Headers", 1, <<MaxId>>, <<7>>),
   Frame("WindowUpdate", 0, <<Small(1), MaxId>>, <<>>),
   Raw(<<128, 2, 0, 6, 0, 0, 0, 4, 0, 0, 0, 1>>), Raw(<<128, 3, 0, 5, 0, 0, 0, 0>>),
   Raw(<<128, 3, 0, 3, 0, 0, 0, 4, 0, 0, 0, 1>>)}
PairsOfFrames == {<<>>} \cup {<<f, g>> : f \in SomeFrames, g \in SomeFrames}
SomeHeaders == {<<>>, <<<<<<1, 2>>, <<3>>>>>>, <<<<<<>>, <<255>>>>, <<<<1>>, <<>>>>>>}
SomePayloads == BoundedSeq({0, 1, 127, 255}, 4)

\* Two containers, one of which has a label more; filters by nothing, by id, by label, by
\* sandbox and state, and by each state number a client may send, one of no state included.
One(S) == CHOOSE x \in S : TRUE
SomeLabels ==
  [c \in Sandboxes \cup Containers |-> {<<"app", "a">>} \cup IF c = One(Containers) THEN {} ELSE {<<"tier", "b">>}]
All == [id |-> None, sandbox |-> None, state |-> None, labels |-> {}]
SomeFilters ==
  {All, [All EXCEPT !.id = One(Containers)], [All EXCEPT !.labels = {<<"tier", "b">>}],
   [All EXCEPT !.sandbox = One(Sandboxes), !.state = 1]}
    \cup {[All EXCEPT !.state = n] : n \in 0..4}
SomePodFilters ==
  {All, [All EXCEPT !.id = One(Sandboxes)]}
    \cup {[All EXCEPT !.state = n, !.labels = l] : n \in -1..2, l \in {{}, {<<"app", "a">>}}}

\* Two references with one tag, and one with another.
SomeRefs == {<<"a", "">>, <<"a", "latest">>, <<"b", "1">>}
SomeIds ==
  [r \in SomeRefs |-> <<CASE r[2] = "" -> "sha-1" [] r[2] = "1" -> "sha-2" [] OTHER -> "sha-3", "">>]
SomeSizes == [r \in SomeRefs |-> IF r[2] = "" THEN 1 ELSE 3]
=============================================================================

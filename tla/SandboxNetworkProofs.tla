------------------------ MODULE SandboxNetworkProofs ------------------------
(***************************************************************************)
(* Theorems about SandboxNetwork, for any sandboxes and threads, any chain *)
(* of plugins, any number of faults and crashes.                           *)
(*                                                                         *)
(* What makes the network whole, and the record outlive it, is what each   *)
(* call has made sure of before its next step and nobody else undoes: a    *)
(* run_sandbox works on a sandbox nobody else knows, and what a removal    *)
(* has taken down is never put back.                                       *)
(***************************************************************************)
EXTENDS SandboxNetwork, TLAPS

-----------------------------------------------------------------------------
(* The calls of a thread by what they carry.                               *)

RunCalls ==
  [op : {"run"}, sb : Sandboxes, netns : BOOLEAN, at : 1..(NPlugins + 1),
   pc : {"touch", "mount", "conflist", "add", "persist", "insert"}]
StopCalls ==
  [op : {"stop"}, sb : Sandboxes, pc : {"write"}, netns : BOOLEAN, remove : BOOLEAN]
ScanCalls == [op : {"remove"}, sb : Sandboxes, pc : {"scan"}]
FoundCalls == [op : {"remove"}, sb : Sandboxes, pc : {"containers"}, found : BOOLEAN, netns : BOOLEAN]
DownCalls ==
  [op : {"remove"}, sb : Sandboxes, at : 0..NPlugins,
   pc : {"conflist", "del", "umount", "unlink", "drop", "forget"}]
CreateCalls == [op : {"create"}, sb : Sandboxes, pc : {"insert"}]
ExecCalls == [op : {"exec"}, sb : Sandboxes, pc : {"proc", "net"}]
JoinCalls ==
  [op : {"start", "exec", "dial"}, sb : Sandboxes, net : Sandboxes \cup {"host"},
   pc : {"join", "spawn"}]

LEMMA CallsByShape ==
  Calls = {Idle} \cup RunCalls \cup StopCalls \cup ScanCalls \cup FoundCalls \cup DownCalls
            \cup CreateCalls \cup ExecCalls \cup JoinCalls
BY DEF Calls, Idle, RunCalls, StopCalls, ScanCalls, FoundCalls, DownCalls, CreateCalls, ExecCalls, JoinCalls

LEMMA Shapes ==
  ASSUME NEW r \in Calls
  PROVE  /\ r.op = "idle" => r = Idle
         /\ r.op = "run" => r \in RunCalls
         /\ r.op = "stop" => r \in StopCalls
         /\ r.op = "remove" /\ r.pc = "scan" => r \in ScanCalls
         /\ r.op = "remove" /\ r.pc = "containers" => r \in FoundCalls
         /\ r.op = "remove" /\ r.pc \notin {"scan", "containers"} => r \in DownCalls
         /\ r.op = "create" => r \in CreateCalls
         /\ r.op = "exec" /\ r.pc \in {"proc", "net"} => r \in ExecCalls
         /\ r.op \in {"start", "exec", "dial"} /\ r.pc \in {"join", "spawn"} => r \in JoinCalls
         /\ r.op # "idle" => r.sb \in Sandboxes
         /\ r.op \in {"idle", "run", "stop", "remove", "create", "start", "exec", "dial"}
<1>1. CASE r = Idle
  BY <1>1 DEF Idle
<1>2. CASE r \in RunCalls
  BY <1>2 DEF RunCalls
<1>3. CASE r \in ScanCalls
  BY <1>3 DEF ScanCalls
<1>4. CASE r \in FoundCalls
  BY <1>4 DEF FoundCalls
<1>5. CASE r \in DownCalls
  BY <1>5 DEF DownCalls
<1>6. CASE r \in CreateCalls
  BY <1>6 DEF CreateCalls
<1>7. CASE r \in ExecCalls
  BY <1>7 DEF ExecCalls
<1>8. CASE r \in JoinCalls
  BY <1>8 DEF JoinCalls
<1>9. CASE r \in StopCalls
  BY <1>9 DEF StopCalls
<1>. QED
  BY <1>1, <1>2, <1>3, <1>4, <1>5, <1>6, <1>7, <1>8, <1>9, CallsByShape

-----------------------------------------------------------------------------
(* The invariant.                                                          *)

\* Nothing has been made for s yet, or nothing but its record.
Bare(s) == s \notin file /\ s \notin mounted /\ attached[s] = {}
Whole(s) == s \in file /\ s \in mounted /\ attached[s] = Plugins

\* Of the plugins of s at most the first p are in effect, unless a DEL failed or was skipped.
DownTo(s, p) == s \in unclean \/ attached[s] \subseteq 1..p
Clean(s) == s \notin mounted \ pinned /\ DownTo(s, 0)

\* The file of s says Ready only because its NotReady has not been written.
Down(s) == disk[s].state = "Ready" => s \in unsaved

\* What holds of a sandbox, whatever the calls do.
Kept(s) ==
  /\ s \in known => s \notin fresh
  /\ s \notin known =>
       cache[s] = NoRecord /\ disk[s] = NoRecord /\ container[s] = "none" /\ s \notin unclean
  /\ s \in fresh => Bare(s)
  /\ cache[s] # NoRecord => disk[s] # NoRecord /\ disk[s].netns = cache[s].netns
  /\ cache[s].state = "Ready" => cache[s] = disk[s]
  /\ cache[s].state = "NotReady" /\ disk[s].state = "Ready" => s \in unsaved
  /\ disk[s] # NoRecord /\ ~disk[s].netns => s \notin mounted /\ attached[s] = {}
  /\ disk[s] = [state |-> "Ready", netns |-> TRUE] /\ s \notin unsaved => Whole(s)
  /\ s \in known /\ disk[s] = NoRecord => Clean(s)
  /\ s \notin unclean => \A p \in attached[s] : 1..p \subseteq attached[s]

\* How far a run_sandbox has come.
Built(r) ==
  /\ r.pc = "touch" => Bare(r.sb) /\ r.at = 1
  /\ r.pc = "mount" => r.sb \in file /\ r.sb \notin mounted /\ attached[r.sb] = {} /\ r.at = 1
  /\ r.pc = "conflist" => r.sb \in file /\ r.sb \in mounted /\ attached[r.sb] = {} /\ r.at = 1
  /\ r.pc = "add" =>
       r.sb \in file /\ r.sb \in mounted /\ attached[r.sb] = 1..(r.at - 1) /\ r.at \in Plugins
  /\ r.pc = "persist" => IF r.netns THEN Whole(r.sb) ELSE Bare(r.sb)

RunFits(r) ==
  /\ r.sb \notin fresh /\ (r.sb \in known <=> r.pc = "insert")
  /\ r.pc = "insert" =>
       /\ cache[r.sb] = NoRecord /\ container[r.sb] = "none"
       /\ disk[r.sb] = [state |-> "Ready", netns |-> r.netns]
  /\ r.pc \in {"touch", "mount", "conflist", "add"} => r.netns
  /\ Built(r)

\* What a stop has cloned and not yet written: still true of the record, if there is one.
StopFits(r) ==
  /\ r.sb \in known /\ cache[r.sb].state # "Ready"
  /\ cache[r.sb] # NoRecord => cache[r.sb].netns = r.netns
  /\ ~r.netns => r.sb \notin mounted /\ attached[r.sb] = {}

RemoveFits(r) ==
  /\ r.sb \in known /\ cache[r.sb].state # "Ready" /\ Down(r.sb)
  /\ r.pc = "containers" /\ ~r.netns => Clean(r.sb)
  /\ r.pc = "conflist" => r.at = NPlugins
  /\ r.pc = "del" => r.at \in Plugins /\ DownTo(r.sb, r.at)
  /\ r.pc = "umount" => DownTo(r.sb, 0)
  /\ r.pc \in {"unlink", "drop", "forget"} => Clean(r.sb)
  /\ r.pc = "forget" => cache[r.sb] = NoRecord

JoinFits(r) ==
  /\ r.sb \in known
  /\ r.pc \in {"join", "spawn"} =>
       r.net \in {"host", r.sb} /\ (r.net = "host" => ~cache[r.sb].netns)

Fits(r) ==
  /\ r.op = "run" => RunFits(r)
  /\ r.op = "stop" => StopFits(r)
  /\ r.op = "remove" => RemoveFits(r)
  /\ r.op \in {"create", "start", "exec", "dial"} => JoinFits(r)

\* A run_sandbox has its sandbox to itself.
RunsAlone ==
  \A t, u \in Threads :
    call[t].op = "run" /\ call[u].op # "idle" /\ t # u => call[t].sb # call[u].sb

Law ==
  /\ \A s \in Sandboxes : Kept(s)
  /\ \A t \in Threads, r \in Calls : r = call[t] => Fits(r)
  /\ RunsAlone

-----------------------------------------------------------------------------
(* What a step of one thread does to the others.                           *)

\* Nothing of sandbox s changes that a call relies on.
Same(s) ==
  /\ disk'[s] = disk[s] /\ cache'[s] = cache[s]
  /\ (s \in file' <=> s \in file) /\ (s \in mounted' <=> s \in mounted)
  /\ attached'[s] = attached[s] /\ (container'[s] = "none" <=> container[s] = "none")
  /\ (s \in fresh' <=> s \in fresh) /\ (s \in known' <=> s \in known)
  /\ (s \in unclean' <=> s \in unclean)
  /\ (s \in pinned' <=> s \in pinned) /\ (s \in unsaved' <=> s \in unsaved)

\* Sandbox s loses something of its network or its record, and gains nothing.
Falls(s) ==
  /\ s \in known => s \in known'
  /\ attached'[s] \subseteq attached[s]
  /\ s \in mounted' => s \in mounted
  /\ s \in unclean => s \in unclean'
  /\ s \in pinned => s \in pinned'
  /\ cache'[s] # NoRecord => cache[s] # NoRecord /\ cache'[s].netns = cache[s].netns
  /\ cache'[s].state = "Ready" => cache[s].state = "Ready"
  /\ Down(s) => Down(s)'

LEMMA SameKept == ASSUME NEW s \in Sandboxes, Same(s), Kept(s) PROVE Kept(s)'
BY DEF Same, Kept, Bare, Whole, Clean, DownTo

LEMMA SameFits == ASSUME NEW r, r.op # "idle" => Same(r.sb), Fits(r) PROVE Fits(r)'
<1>1. CASE r.op = "run"
  BY <1>1 DEF Same, Fits, RunFits, Built, Bare, Whole
<1>2. CASE r.op = "remove"
  BY <1>2 DEF Same, Fits, RemoveFits, Clean, DownTo, Down
<1>3. CASE r.op = "stop"
  BY <1>3 DEF Same, Fits, StopFits
<1>4. CASE r.op \notin {"run", "remove", "stop"}
  BY <1>4 DEF Same, Fits, JoinFits
<1>. QED
  BY <1>1, <1>2, <1>3, <1>4

LEMMA FallsFits == ASSUME NEW r, r.op # "run", Falls(r.sb), Fits(r) PROVE Fits(r)'
<1>1. CASE r.op = "remove"
  BY <1>1 DEF Falls, Fits, RemoveFits, Clean, DownTo
<1>2. CASE r.op = "stop"
  BY <1>2 DEF Falls, Fits, StopFits
<1>3. CASE r.op \notin {"remove", "stop"}
  BY <1>3 DEF Falls, Fits, JoinFits, NoRecord
<1>. QED
  BY <1>1, <1>2, <1>3

\* A step of t, about sandbox s, keeps the law if it does of s, of t's own call, and takes
\* nothing from the others that they rely on.
LEMMA ThreadKeeps ==
  ASSUME TypeOK, Law, NEW t \in Threads, NEW s \in Sandboxes, NEW r \in Calls,
         call' = [call EXCEPT ![t] = r], r.op # "idle" => r.sb = s,
         \A x \in Sandboxes \ {s} : Same(x),
         Kept(s)', Fits(r)',
         Falls(s) \/ (call[t].op = "run" /\ call[t].sb = s) \/ (s \in fresh),
         r.op = "run" => s \in fresh \/ (call[t].op = "run" /\ call[t].sb = s),
         \/ call[t].op # "idle" /\ call[t].sb = s
         \/ s \in fresh \/ cache[s] # NoRecord \/ container[s] # "none"
  PROVE  Law'
<1>1. \A u \in Threads : call[u] \in Calls /\ call'[u] = IF u = t THEN r ELSE call[u]
  BY DEF TypeOK
<1>2. ASSUME NEW u \in Threads, call[u].op # "idle"
      PROVE  call[u].sb \in Sandboxes /\ call[u].sb \notin fresh
  <2>. PICK q \in Calls : q = call[u]
    BY <1>1
  <2>1. Fits(q) /\ q.sb \in Sandboxes
    BY <1>2, Shapes DEF Law
  <2>2. Kept(q.sb)
    BY <2>1 DEF Law
  <2>. QED
    BY <1>2, <2>1, <2>2, Shapes DEF Fits, RunFits, StopFits, RemoveFits, JoinFits, Kept
<1>3. \A x \in Sandboxes : Kept(x)'
  BY SameKept DEF Law
<1>4. ASSUME NEW u \in Threads, u # t, call[u].op = "run" PROVE call[u].sb # s
  <2>. PICK q \in Calls : q = call[u]
    BY <1>1
  <2>1. RunFits(q) /\ Kept(s)
    BY <1>4 DEF Law, Fits
  <2>. QED
    BY <1>4, <2>1 DEF Law, RunsAlone, RunFits, Kept
<1>5. ASSUME NEW u \in Threads, NEW q \in Calls, q = call'[u] PROVE Fits(q)'
  <2>1. CASE u = t
    BY <2>1, <1>1, <1>5
  <2>2. CASE u # t
    <3>1. q = call[u] /\ Fits(q)
      BY <1>1, <1>5, <2>2 DEF Law
    <3>2. CASE q.op = "idle" \/ q.sb # s
      BY <3>1, <3>2, <1>2, SameFits
    <3>3. CASE q.op # "idle" /\ q.sb = s
      <4>1. q.op # "run" /\ Falls(s)
        BY <3>1, <3>3, <1>2, <1>4, <2>2 DEF Law, RunsAlone
      <4>. QED
        BY <3>1, <3>3, <4>1, FallsFits
    <3>. QED
      BY <3>2, <3>3
  <2>. QED
    BY <2>1, <2>2
<1>6. RunsAlone'
  <2>. SUFFICES ASSUME NEW u \in Threads, NEW v \in Threads, u # v,
                       call'[u].op = "run", call'[v].op # "idle"
                PROVE  call'[u].sb # call'[v].sb
    BY DEF RunsAlone
  <2>1. CASE u = t
    BY <2>1, <1>1, <1>2 DEF Law, RunsAlone
  <2>2. CASE v = t
    BY <2>2, <1>1, <1>4
  <2>3. CASE u # t /\ v # t
    BY <2>3, <1>1 DEF Law, RunsAlone
  <2>. QED
    BY <2>1, <2>2, <2>3
<1>. QED
  BY <1>3, <1>5, <1>6 DEF Law

\* What the law says of one call.
LEMMA Facts ==
  ASSUME TypeOK, Law, NEW t \in Threads, call[t].op # "idle"
  PROVE  \E q \in Calls : q = call[t] /\ q.sb \in Sandboxes /\ Fits(q) /\ Kept(q.sb)
<1>1. call[t] \in Calls
  BY DEF TypeOK
<1>2. PICK q \in Calls : q = call[t]
  BY <1>1
<1>3. q.sb \in Sandboxes
  BY <1>2, Shapes
<1>. QED
  BY <1>2, <1>3 DEF Law

LEMMA TypedCall ==
  ASSUME TypeOK, NEW t \in Threads, NEW r \in Calls, call' = [call EXCEPT ![t] = r]
  PROVE  call' \in [Threads -> Calls]
BY DEF TypeOK

LEMMA TypedIdle == Idle \in Calls /\ Idle.op = "idle" /\ Fits(Idle)'
BY CallsByShape DEF Idle, Fits

LEMMA TypedRecord ==
  ASSUME NEW st \in {"Ready", "NotReady"}, NEW n \in BOOLEAN
  PROVE  [state |-> st, netns |-> n] \in Records /\ NoRecord \in Records
BY DEF Records

-----------------------------------------------------------------------------
(* run_sandbox.                                                            *)

\* The next step of a run_sandbox, at the same or the next plugin.
LEMMA TypedRun ==
  ASSUME NEW q \in RunCalls, NEW n \in 1..(NPlugins + 1),
         NEW pc \in {"touch", "mount", "conflist", "add", "persist", "insert"}
  PROVE  /\ [q EXCEPT !.pc = pc] \in Calls /\ [q EXCEPT !.at = n, !.pc = pc] \in Calls
         /\ q.op = "run" /\ q.sb \in Sandboxes /\ q.at \in 1..(NPlugins + 1) /\ q.netns \in BOOLEAN
<1>1. /\ [q EXCEPT !.pc = pc] \in RunCalls /\ [q EXCEPT !.at = n, !.pc = pc] \in RunCalls
      /\ q.op = "run" /\ q.sb \in Sandboxes /\ q.at \in 1..(NPlugins + 1) /\ q.netns \in BOOLEAN
  BY DEF RunCalls
<1>. QED
  BY <1>1, CallsByShape

LEMMA RunCallKeeps ==
  ASSUME TypeOK, Law, NEW t \in Threads, NEW s \in Sandboxes, NEW h \in BOOLEAN, RunCall(t, s, h)
  PROVE  TypeOK' /\ Law'
<1>1. cni \in BOOLEAN
  BY DEF TypeOK
<1>2. PICK n \in BOOLEAN : n = (~h /\ cni)
  BY <1>1
<1> DEFINE r == [op |-> "run", sb |-> s, netns |-> n, pc |-> IF n THEN "touch" ELSE "persist", at |-> 1]
<1>3. r \in Calls /\ r.op = "run"
  BY CallsByShape, NetworkConstants DEF RunCalls
<1>4. call' = [call EXCEPT ![t] = r] /\ s \in fresh /\ fresh' = fresh \ {s}
      /\ UNCHANGED <<disk, cache, file, mounted, attached, container, known, unclean, pinned, unsaved>>
  BY <1>2 DEF RunCall, Goto, pins, others
<1>5. TypeOK'
  BY <1>3, <1>4, TypedCall DEF RunCall, pins, others, TypeOK
<1>6. Kept(s)
  BY DEF Law
<1>7. Kept(s)'
  BY <1>4, <1>6 DEF Kept, Bare, Whole, Clean, DownTo
<1>8. Fits(r)'
  BY <1>4, <1>6 DEF Kept, Fits, RunFits, Built, Bare
<1>9. \A x \in Sandboxes \ {s} : Same(x)
  BY <1>4 DEF Same
<1> HIDE DEF r
<1>10. r.sb = s
  BY DEF r
<1>. QED
  BY <1>3, <1>4, <1>5, <1>7, <1>8, <1>9, <1>10, ThreadKeeps

\* A step of a run_sandbox but its last two touches nothing but the network of its
\* sandbox; it goes on, or returns with an error and leaves what it has made.
LEMMA RunGoesOn ==
  ASSUME TypeOK, Law, NEW t \in Threads, NEW q \in RunCalls, q = call[t], q.pc # "insert",
         NEW r \in Calls, call' = [call EXCEPT ![t] = r], r = Idle \/ (r.op = "run" /\ r.sb = q.sb),
         UNCHANGED <<disk, cache, container, fresh, known, unclean, pinned, unsaved>>,
         \A x \in Sandboxes \ {q.sb} : /\ (x \in file' <=> x \in file)
                                       /\ (x \in mounted' <=> x \in mounted)
                                       /\ attached'[x] = attached[x],
         \A p \in attached'[q.sb] : 1..p \subseteq attached'[q.sb],
         r # Idle => r.pc # "insert" /\ r.netns /\ Built(r)'
  PROVE  Law'
<1>1. q.sb \in Sandboxes /\ q.op = "run" /\ q \in Calls
  BY CallsByShape DEF RunCalls
<1>2. Kept(q.sb) /\ Fits(q) /\ RunFits(q)
  BY <1>1 DEF Law, Fits
<1>3. Kept(q.sb)'
  BY <1>2 DEF Kept, RunFits, Bare, Whole, Clean, DownTo, NoRecord
<1>4. Fits(r)'
  <2>1. CASE r = Idle
    BY <2>1, TypedIdle
  <2>2. CASE r # Idle
    BY <2>2, <1>2 DEF Fits, RunFits
  <2>. QED
    BY <2>1, <2>2
<1>5. \A x \in Sandboxes \ {q.sb} : Same(x)
  BY DEF Same
<1>6. r.op # "idle" => r.sb = q.sb
  BY TypedIdle
<1>. QED
  BY <1>1, <1>3, <1>4, <1>5, <1>6, ThreadKeeps

LEMMA RunBegin ==
  ASSUME TypeOK, Law, NEW t \in Threads, call[t].op = "run"
  PROVE  \E q \in RunCalls : /\ q = call[t] /\ q \in Calls /\ q.op = "run" /\ q.sb \in Sandboxes
                             /\ Fits(q) /\ RunFits(q) /\ Kept(q.sb)
BY Facts, Shapes DEF Fits

LEMMA RunTouchKeeps ==
  ASSUME TypeOK, Law, NEW t \in Threads, RunTouch(t) PROVE TypeOK' /\ Law'
<1>1. PICK q \in RunCalls : /\ q = call[t] /\ q.op = "run" /\ q.sb \in Sandboxes
                            /\ RunFits(q) /\ Kept(q.sb)
  BY RunBegin DEF RunTouch, At
<1> DEFINE on == [q EXCEPT !.pc = "mount"]
<1>2. on \in Calls /\ on.op = "run" /\ on.sb = q.sb /\ on.pc = "mount" /\ on.at = q.at
      /\ on.netns = q.netns
  BY <1>1, TypedRun, NetworkConstants DEF RunCalls
<1>3. q.pc = "touch" /\ q.netns /\ Bare(q.sb) /\ q.at = 1
  BY <1>1 DEF RunTouch, At, RunFits, Built
<1> HIDE DEF on
<1>4. PICK r \in Calls : /\ call' = [call EXCEPT ![t] = r]
                         /\ \/ r = Idle /\ file' = file
                            \/ r = on /\ file' = file \cup {q.sb}
  <2>1. \/ call' = [call EXCEPT ![t] = Idle] /\ file' = file
        \/ call' = [call EXCEPT ![t] = on] /\ file' = file \cup {q.sb}
    BY <1>1 DEF RunTouch, Goto, Return, on
  <2>. QED
    BY <2>1, <1>2, TypedIdle
<1>5. TypeOK'
  BY <1>1, <1>4, TypedCall DEF RunTouch, others, books, Fault, TypeOK
<1>6. Built(r)' \/ r = Idle
  BY <1>2, <1>3, <1>4 DEF RunTouch, Built, Bare
<1>7. \A p \in attached'[q.sb] : 1..p \subseteq attached'[q.sb]
  BY <1>3 DEF RunTouch, Bare
<1>8. Law'
  BY <1>1, <1>2, <1>3, <1>4, <1>6, <1>7, RunGoesOn DEF RunTouch, others, books
<1>. QED
  BY <1>5, <1>8

LEMMA RunMountKeeps ==
  ASSUME TypeOK, Law, NEW t \in Threads, RunMount(t) PROVE TypeOK' /\ Law'
<1>1. PICK q \in RunCalls : /\ q = call[t] /\ q.op = "run" /\ q.sb \in Sandboxes
                            /\ RunFits(q) /\ Kept(q.sb)
  BY RunBegin DEF RunMount, At
<1> DEFINE on == [q EXCEPT !.pc = "conflist"]
<1>2. on \in Calls /\ on.op = "run" /\ on.sb = q.sb /\ on.pc = "conflist" /\ on.at = q.at
      /\ on.netns = q.netns
  BY <1>1, TypedRun, NetworkConstants DEF RunCalls
<1>3. q.pc = "mount" /\ q.netns /\ q.sb \in file /\ attached[q.sb] = {} /\ q.at = 1
  BY <1>1 DEF RunMount, At, RunFits, Built
<1> HIDE DEF on
<1>4. PICK r \in Calls : /\ call' = [call EXCEPT ![t] = r]
                         /\ \/ r = Idle /\ mounted' = mounted
                            \/ r = on /\ mounted' = mounted \cup {q.sb}
  <2>1. \/ call' = [call EXCEPT ![t] = Idle] /\ mounted' = mounted
        \/ call' = [call EXCEPT ![t] = on] /\ mounted' = mounted \cup {q.sb}
    BY <1>1 DEF RunMount, Goto, Return, on
  <2>. QED
    BY <2>1, <1>2, TypedIdle
<1>5. TypeOK'
  BY <1>1, <1>4, TypedCall DEF RunMount, others, books, Fault, TypeOK
<1>6. Built(r)' \/ r = Idle
  BY <1>2, <1>3, <1>4 DEF RunMount, Built
<1>7. \A p \in attached'[q.sb] : 1..p \subseteq attached'[q.sb]
  BY <1>3 DEF RunMount
<1>8. Law'
  BY <1>1, <1>2, <1>3, <1>4, <1>6, <1>7, RunGoesOn DEF RunMount, others, books
<1>. QED
  BY <1>5, <1>8

LEMMA RunConflistKeeps ==
  ASSUME TypeOK, Law, NEW t \in Threads, RunConflist(t) PROVE TypeOK' /\ Law'
<1>1. PICK q \in RunCalls : /\ q = call[t] /\ q.op = "run" /\ q.sb \in Sandboxes
                            /\ RunFits(q) /\ Kept(q.sb)
  BY RunBegin DEF RunConflist, At
<1> DEFINE on == [q EXCEPT !.pc = "add"]
<1>2. on \in Calls /\ on.op = "run" /\ on.sb = q.sb /\ on.pc = "add" /\ on.at = q.at
      /\ on.netns = q.netns
  BY <1>1, TypedRun, NetworkConstants DEF RunCalls
<1>3. q.pc = "conflist" /\ q.netns /\ q.sb \in file /\ q.sb \in mounted /\ attached[q.sb] = {}
      /\ q.at = 1
  BY <1>1 DEF RunConflist, At, RunFits, Built
<1>4. PICK r \in Calls : call' = [call EXCEPT ![t] = r] /\ r \in {Idle, on}
  BY <1>1, <1>2, TypedIdle DEF RunConflist, Goto, Return
<1>5. TypeOK'
  BY <1>4, TypedCall DEF RunConflist, pins, others, books, TypeOK
<1>6. 1 \in Plugins /\ 1..(1 - 1) = {}
  BY NetworkConstants DEF Plugins
<1>7. Built(r)' \/ r = Idle
  BY <1>2, <1>3, <1>4, <1>6 DEF RunConflist, pins, Built
<1>8. \A p \in attached'[q.sb] : 1..p \subseteq attached'[q.sb]
  BY <1>3 DEF RunConflist, pins
<1> HIDE DEF on
<1>9. Law'
  BY <1>1, <1>2, <1>3, <1>4, <1>7, <1>8, RunGoesOn DEF RunConflist, pins, others, books
<1>. QED
  BY <1>5, <1>9

\* The chain so far is a prefix, and stays one whether the plugin succeeds or fails.
LEMMA RunAddKeeps ==
  ASSUME TypeOK, Law, NEW t \in Threads, RunAdd(t) PROVE TypeOK' /\ Law'
<1>1. PICK q \in RunCalls : /\ q = call[t] /\ q.op = "run" /\ q.sb \in Sandboxes
                            /\ RunFits(q) /\ Kept(q.sb)
  BY RunBegin DEF RunAdd, At
<1> DEFINE on == [q EXCEPT !.at = q.at + 1, !.pc = IF q.at = NPlugins THEN "persist" ELSE "add"]
<1>2. q.pc = "add" /\ q.netns /\ q.sb \in file /\ q.sb \in mounted
      /\ attached[q.sb] = 1..(q.at - 1) /\ q.at \in Plugins
  BY <1>1 DEF RunAdd, At, RunFits, Built
<1>3. q.at \in Nat \ {0} /\ q.at <= NPlugins /\ q.at + 1 \in 1..(NPlugins + 1)
  BY <1>2, NetworkConstants DEF Plugins
<1>4. on \in Calls /\ on.op = "run" /\ on.sb = q.sb /\ on.at = q.at + 1 /\ on.netns = q.netns
      /\ on.pc = IF q.at = NPlugins THEN "persist" ELSE "add"
  BY <1>1, <1>3, TypedRun DEF RunCalls
<1> HIDE DEF on
<1>5. PICK r \in Calls, left \in {{}, {q.at}} :
        /\ call' = [call EXCEPT ![t] = r]
        /\ attached' = [attached EXCEPT ![q.sb] = @ \cup left]
        /\ r = Idle \/ (r = on /\ left = {q.at})
  <2>1. \/ /\ call' = [call EXCEPT ![t] = on]
           /\ attached' = [attached EXCEPT ![q.sb] = @ \cup {q.at}]
        \/ /\ call' = [call EXCEPT ![t] = Idle]
           /\ \E left \in {{}, {q.at}} : attached' = [attached EXCEPT ![q.sb] = @ \cup left]
    BY <1>1 DEF RunAdd, Goto, Return, on
  <2>. QED
    BY <2>1, <1>4, TypedIdle
<1>6. attached \in [Sandboxes -> SUBSET Plugins] /\ left \subseteq Plugins
  BY <1>2 DEF TypeOK
<1>7. attached' \in [Sandboxes -> SUBSET Plugins]
  BY <1>1, <1>5, <1>6
<1>8. TypeOK'
  BY <1>5, <1>7, TypedCall DEF RunAdd, others, books, Fault, TypeOK
<1>9. attached'[q.sb] = 1..(q.at - 1) \cup left
  BY <1>1, <1>2, <1>5, <1>6
<1>10. \A p \in attached'[q.sb] : 1..p \subseteq attached'[q.sb]
  BY <1>3, <1>9
<1>11. left = {q.at} => attached'[q.sb] = 1..q.at
  BY <1>3, <1>9
<1>12. Built(r)' \/ r = Idle
  <2>. SUFFICES ASSUME r = on, left = {q.at} PROVE Built(r)'
    BY <1>5
  <2>1. CASE q.at = NPlugins
    BY <2>1, <1>2, <1>4, <1>11 DEF RunAdd, Built, Whole, Plugins
  <2>2. CASE q.at # NPlugins
    <3>1. r.at \in Plugins /\ r.at - 1 = q.at
      BY <2>2, <1>3, <1>4, NetworkConstants DEF Plugins
    <3>. QED
      BY <2>2, <3>1, <1>2, <1>4, <1>11 DEF RunAdd, Built
  <2>. QED
    BY <2>1, <2>2
<1>13. \A x \in Sandboxes \ {q.sb} : attached'[x] = attached[x]
  BY <1>5, <1>6
<1>14. Law'
  BY <1>1, <1>2, <1>4, <1>5, <1>10, <1>12, <1>13, RunGoesOn DEF RunAdd, others, books
<1>. QED
  BY <1>8, <1>14

\* The record is written when the network is whole.
LEMMA RunPersistKeeps ==
  ASSUME TypeOK, Law, NEW t \in Threads, RunPersist(t) PROVE TypeOK' /\ Law'
<1>1. PICK q \in RunCalls : /\ q = call[t] /\ q.op = "run" /\ q.sb \in Sandboxes
                            /\ RunFits(q) /\ Kept(q.sb)
  BY RunBegin DEF RunPersist, At
<1> DEFINE on == [q EXCEPT !.pc = "insert"]
<1>2. on \in Calls /\ on.op = "run" /\ on.sb = q.sb /\ on.pc = "insert" /\ on.netns = q.netns
      /\ q.netns \in BOOLEAN
  BY <1>1, TypedRun, NetworkConstants DEF RunCalls
<1>3. q.pc = "persist" /\ (IF q.netns THEN Whole(q.sb) ELSE Bare(q.sb))
      /\ q.sb \notin known /\ q.sb \notin fresh
  BY <1>1 DEF RunPersist, At, RunFits, Built
<1> DEFINE rec == [state |-> "Ready", netns |-> q.netns]
<1>4. PICK r \in Calls :
        /\ call' = [call EXCEPT ![t] = r]
        /\ \/ r = Idle /\ disk' = disk /\ known' = known
           \/ r = on /\ disk' = [disk EXCEPT ![q.sb] = rec] /\ known' = known \cup {q.sb}
  BY <1>1, <1>2, TypedIdle DEF RunPersist, Goto, Return
<1>5. rec \in Records /\ rec # NoRecord /\ rec.netns = q.netns /\ disk \in [Sandboxes -> Records]
  BY <1>2, TypedRecord DEF NoRecord, TypeOK
<1>6. disk' \in [Sandboxes -> Records]
  BY <1>1, <1>4, <1>5
<1>7. TypeOK'
  BY <1>1, <1>4, <1>6, TypedCall DEF RunPersist, pins, others, Fault, TypeOK
<1>8. /\ cache' = cache /\ fresh' = fresh /\ unclean' = unclean /\ file' = file
      /\ pinned' = pinned /\ unsaved' = unsaved
      /\ mounted' = mounted /\ attached' = attached /\ container' = container
  BY DEF RunPersist, pins, others
<1>9. Kept(q.sb)' /\ Fits(r)'
  <2>1. CASE r = Idle /\ disk' = disk /\ known' = known
    BY <2>1, <1>1, <1>8, TypedIdle DEF Kept, Bare, Whole, Clean, DownTo
  <2>2. CASE r = on /\ disk' = [disk EXCEPT ![q.sb] = rec] /\ known' = known \cup {q.sb}
    <3>1. disk'[q.sb] = rec /\ q.sb \in known'
      BY <2>2, <1>1, <1>5
    <3>2. cache[q.sb] = NoRecord /\ container[q.sb] = "none" /\ cache[q.sb].state = "none"
      BY <1>1, <1>3 DEF Kept, NoRecord
    <3>3. Kept(q.sb)'
      <4>1. q.netns => Whole(q.sb)'
        BY <1>3, <1>8 DEF Whole
      <4>2. ~q.netns => Bare(q.sb)'
        BY <1>3, <1>8 DEF Bare
      <4>3. q.sb \notin unclean => \A p \in attached[q.sb] : 1..p \subseteq attached[q.sb]
        BY <1>1 DEF Kept
      <4>. QED
        BY <3>1, <3>2, <4>1, <4>2, <4>3, <1>3, <1>5, <1>8 DEF Kept, Bare
    <3>4. RunFits(r)'
      BY <2>2, <3>1, <3>2, <1>2, <1>3, <1>8 DEF RunFits, Built
    <3>. QED
      BY <2>2, <3>3, <3>4, <1>2 DEF Fits
  <2>. QED
    BY <1>4, <2>1, <2>2
<1>10. \A x \in Sandboxes \ {q.sb} : Same(x)
  BY <1>4, <1>5, <1>8 DEF Same
<1> HIDE DEF on, rec
<1>11. r.op # "idle" => r.sb = q.sb
  BY <1>2, <1>4, TypedIdle
<1>12. Law'
  BY <1>1, <1>4, <1>9, <1>10, <1>11, ThreadKeeps
<1>. QED
  BY <1>7, <1>12

LEMMA RunInsertKeeps ==
  ASSUME TypeOK, Law, NEW t \in Threads, RunInsert(t) PROVE TypeOK' /\ Law'
<1>1. PICK q \in RunCalls : /\ q = call[t] /\ q.op = "run" /\ q.sb \in Sandboxes
                            /\ RunFits(q) /\ Kept(q.sb)
  BY RunBegin DEF RunInsert, At
<1> DEFINE rec == [state |-> "Ready", netns |-> q.netns]
<1>2. q.pc = "insert" /\ q.sb \in known /\ disk[q.sb] = rec
  BY <1>1 DEF RunInsert, At, RunFits
<1>3. /\ call' = [call EXCEPT ![t] = Idle] /\ cache' = [cache EXCEPT ![q.sb] = rec]
      /\ disk' = disk /\ fresh' = fresh /\ unclean' = unclean /\ file' = file /\ known' = known
      /\ mounted' = mounted /\ attached' = attached /\ container' = container
      /\ pinned' = pinned /\ unsaved' = unsaved
  BY <1>1 DEF RunInsert, Return, Goto, pins, others, books
<1>4. rec \in Records /\ cache \in [Sandboxes -> Records]
  BY TypedRecord DEF TypeOK, RunCalls
<1>5. cache' \in [Sandboxes -> Records] /\ cache'[q.sb] = rec
      /\ \A x \in Sandboxes \ {q.sb} : cache'[x] = cache[x]
  BY <1>1, <1>3, <1>4
<1>6. TypeOK'
  BY <1>3, <1>5, TypedIdle, TypedCall DEF RunInsert, pins, others, books, TypeOK
<1>7. Kept(q.sb)'
  BY <1>1, <1>2, <1>3, <1>5 DEF Kept, Bare, Whole, Clean, DownTo
<1>8. \A x \in Sandboxes \ {q.sb} : Same(x)
  BY <1>3, <1>5 DEF Same
<1>9. Law'
  BY <1>1, <1>3, <1>7, <1>8, TypedIdle, ThreadKeeps
<1>. QED
  BY <1>6, <1>9

-----------------------------------------------------------------------------
(* stop_sandbox and remove_sandbox.                                        *)

LEMMA SameFalls == ASSUME NEW s, Same(s) PROVE Falls(s)
BY DEF Same, Falls, Down

LEMMA RecordNetns == ASSUME NEW c \in Records PROVE \E n \in BOOLEAN : n = c.netns
<1>1. CASE c = NoRecord
  <2>. WITNESS FALSE \in BOOLEAN
  <2>. QED
    BY <1>1 DEF NoRecord
<1>2. CASE c \in [state : {"Ready", "NotReady"}, netns : BOOLEAN]
  <2>1. c.netns \in BOOLEAN
    BY <1>2
  <2>. WITNESS c.netns \in BOOLEAN
  <2>. QED
    OBVIOUS
<1>. QED
  BY <1>1, <1>2 DEF Records

\* Marking the record takes nothing from anybody, and is for the stop to write.
LEMMA MarkKeeps ==
  ASSUME TypeOK, Law, NEW t \in Threads, NEW s \in Sandboxes, NEW b \in BOOLEAN,
         cache[s].state = "Ready", Mark(s),
         call' = [call EXCEPT ![t] = [op |-> "stop", sb |-> s, pc |-> "write",
                                      netns |-> cache[s].netns, remove |-> b]],
         UNCHANGED <<disk, file, mounted, attached, container, fresh, known, unclean, pinned>>
  PROVE  /\ cache' \in [Sandboxes -> Records] /\ call' \in [Threads -> Calls]
         /\ unsaved' \subseteq Sandboxes /\ Law'
<1>1. cache[s] \in Records /\ cache[s] # NoRecord /\ Kept(s)
  BY DEF TypeOK, NoRecord, Law
<1>2. PICK n \in BOOLEAN : n = cache[s].netns
  BY <1>1, RecordNetns
<1>3. disk[s] = cache[s] /\ disk[s].netns = n /\ s \in known
  BY <1>1, <1>2 DEF Kept
<1> DEFINE rec == [state |-> "NotReady", netns |-> n]
           r == [op |-> "stop", sb |-> s, pc |-> "write", netns |-> n, remove |-> b]
<1>4. [cache[s] EXCEPT !.state = "NotReady"] = rec
  BY <1>1, <1>2 DEF Records, NoRecord
<1>5. cache' = [cache EXCEPT ![s] = rec] /\ unsaved' = unsaved \cup {s}
  BY <1>4 DEF Mark
<1>6. rec \in Records /\ rec # NoRecord /\ rec.state # "Ready" /\ rec.netns = n
  BY TypedRecord DEF NoRecord
<1>7. r \in Calls /\ r.op = "stop" /\ r.sb = s /\ r.netns = n
  BY CallsByShape DEF StopCalls
<1>8. call' = [call EXCEPT ![t] = r]
  BY <1>2
<1> HIDE DEF rec, r
<1>9. cache' \in [Sandboxes -> Records] /\ cache'[s] = rec
      /\ \A x \in Sandboxes \ {s} : cache'[x] = cache[x]
  BY <1>5, <1>6 DEF TypeOK
<1>10. \A x \in Sandboxes \ {s} : Same(x)
  BY <1>5, <1>9 DEF Same
<1>11. Kept(s)'
  BY <1>1, <1>3, <1>5, <1>6, <1>9 DEF Kept, Bare, Whole, Clean, DownTo
<1>12. Falls(s)
  BY <1>1, <1>2, <1>3, <1>5, <1>6, <1>9 DEF Falls, Down
<1>13. ~n => s \notin mounted /\ attached[s] = {}
  BY <1>1, <1>3 DEF Kept
<1>14. Fits(r)'
  BY <1>3, <1>6, <1>7, <1>9, <1>13 DEF Fits, StopFits
<1>15. Law'
  BY <1>1, <1>7, <1>8, <1>10, <1>11, <1>12, <1>14, ThreadKeeps
<1>. QED
  BY <1>5, <1>7, <1>8, <1>9, <1>15, TypedCall DEF TypeOK

LEMMA StopCallKeeps ==
  ASSUME TypeOK, Law, NEW t \in Threads, NEW s \in Sandboxes, StopCall(t, s) PROVE TypeOK' /\ Law'
<1>1. /\ cache' \in [Sandboxes -> Records] /\ call' \in [Threads -> Calls]
      /\ unsaved' \subseteq Sandboxes /\ Law'
  BY MarkKeeps DEF StopCall, Goto, pins, others
<1>. QED
  BY <1>1 DEF StopCall, pins, others, TypeOK

LEMMA RemoveCallKeeps ==
  ASSUME TypeOK, Law, NEW t \in Threads, NEW s \in Sandboxes, RemoveCall(t, s)
  PROVE  TypeOK' /\ Law'
<1>1. CASE cache[s].state = "Ready"
  <2>1. /\ cache' \in [Sandboxes -> Records] /\ call' \in [Threads -> Calls]
        /\ unsaved' \subseteq Sandboxes /\ Law'
    BY <1>1, MarkKeeps DEF RemoveCall, Goto, pins, others
  <2>. QED
    BY <2>1 DEF RemoveCall, pins, others, TypeOK
<1>2. CASE cache[s].state # "Ready"
  <2> DEFINE r == [op |-> "remove", sb |-> s, pc |-> "scan"]
  <2>1. /\ UNCHANGED <<disk, cache, file, mounted, attached, container, fresh, known, unclean,
                       pinned, unsaved>>
        /\ call' = [call EXCEPT ![t] = r] /\ cache[s] # NoRecord
    BY <1>2 DEF RemoveCall, Goto, pins, others
  <2>2. r \in Calls /\ r.op = "remove" /\ r.sb = s /\ r.pc = "scan"
    BY CallsByShape DEF ScanCalls
  <2> HIDE DEF r
  <2>3. TypeOK'
    BY <2>1, <2>2, TypedCall DEF RemoveCall, pins, others, TypeOK
  <2>4. Kept(s) /\ s \in known
    BY <2>1 DEF Law, Kept
  <2>5. Down(s)
    <3>1. cache[s].state = "NotReady"
      BY <1>2, <2>1 DEF TypeOK, Records
    <3>. QED
      BY <3>1, <2>4 DEF Kept, Down
  <2>6. \A x \in Sandboxes : Same(x)
    BY <2>1 DEF Same
  <2>7. Fits(r)'
    BY <1>2, <2>1, <2>2, <2>4, <2>5 DEF Fits, RemoveFits, Down
  <2>8. Law'
    BY <2>1, <2>2, <2>4, <2>6, <2>7, SameKept, SameFalls, ThreadKeeps
  <2>. QED
    BY <2>3, <2>8
<1>. QED
  BY <1>1, <1>2

\* The write says NotReady, of a sandbox that is, or brings the file of a removed one back.
LEMMA StopWriteKeeps ==
  ASSUME TypeOK, Law, NEW t \in Threads, StopWrite(t) PROVE TypeOK' /\ Law'
<1>1. PICK q \in Calls : /\ q = call[t] /\ q.op = "stop" /\ q.sb \in Sandboxes
                         /\ StopFits(q) /\ Kept(q.sb) /\ q.sb \in known
  BY Facts DEF StopWrite, At, Fits, StopFits
<1>2. q \in StopCalls /\ q.netns \in BOOLEAN
  BY <1>1, Shapes DEF StopCalls
<1> DEFINE rec == [state |-> "NotReady", netns |-> q.netns]
           scan == [op |-> "remove", sb |-> q.sb, pc |-> "scan"]
<1>3. /\ UNCHANGED <<cache, file, mounted, attached, container, fresh, known, unclean, pinned>>
      /\ \/ /\ disk' = [disk EXCEPT ![q.sb] = rec] /\ unsaved' = unsaved \ {q.sb}
            /\ call' = [call EXCEPT ![t] = scan] \/ call' = [call EXCEPT ![t] = Idle]
         \/ /\ UNCHANGED <<disk, unsaved>> /\ call' = [call EXCEPT ![t] = Idle]
  BY <1>1 DEF StopWrite, Goto, Return, pins, others
<1>4. scan \in Calls /\ scan.op = "remove" /\ scan.sb = q.sb /\ scan.pc = "scan"
  BY <1>1, CallsByShape DEF ScanCalls
<1>5. /\ rec \in Records /\ rec # NoRecord /\ rec.state # "Ready" /\ rec.netns = q.netns
      /\ rec # [state |-> "Ready", netns |-> TRUE]
  BY <1>2, TypedRecord DEF NoRecord
<1> HIDE DEF rec, scan
<1>6. PICK r \in Calls : /\ call' = [call EXCEPT ![t] = r]
                         /\ r = Idle \/ (r = scan /\ disk' = [disk EXCEPT ![q.sb] = rec])
  BY <1>3, <1>4, TypedIdle
<1>7. /\ disk' \in [Sandboxes -> Records] /\ unsaved' \subseteq Sandboxes
      /\ \A x \in Sandboxes \ {q.sb} : disk'[x] = disk[x] /\ (x \in unsaved' <=> x \in unsaved)
      /\ \/ disk'[q.sb] = rec
         \/ disk'[q.sb] = disk[q.sb] /\ unsaved' = unsaved /\ r = Idle
  BY <1>1, <1>3, <1>4, <1>5, <1>6, TypedIdle DEF TypeOK
<1>8. TypeOK'
  BY <1>6, <1>7, TypedCall DEF StopWrite, Fault, pins, others, TypeOK
<1>9. \A x \in Sandboxes \ {q.sb} : Same(x)
  BY <1>3, <1>7 DEF Same
<1>10. Kept(q.sb)'
  <2>1. CASE disk'[q.sb] = rec
    BY <2>1, <1>1, <1>3, <1>5 DEF Kept, StopFits, Bare, Whole, Clean, DownTo
  <2>2. CASE disk'[q.sb] = disk[q.sb] /\ unsaved' = unsaved
    BY <2>2, <1>1, <1>3 DEF Kept, Bare, Whole, Clean, DownTo
  <2>. QED
    BY <2>1, <2>2, <1>7
<1>11. Falls(q.sb)
  BY <1>3, <1>5, <1>7 DEF Falls, Down
<1>12. Fits(r)'
  <2>1. CASE r = Idle
    BY <2>1, TypedIdle
  <2>2. CASE r # Idle
    BY <2>2, <1>1, <1>3, <1>4, <1>5, <1>6, <1>7 DEF Fits, RemoveFits, StopFits, Down
  <2>. QED
    BY <2>1, <2>2
<1>13. r.op # "idle" => r.sb = q.sb
  BY <1>4, <1>6, TypedIdle
<1>14. r.op # "run"
  BY <1>4, <1>6, TypedIdle
<1>15. Law'
  BY <1>1, <1>6, <1>9, <1>10, <1>11, <1>12, <1>13, <1>14, ThreadKeeps
<1>. QED
  BY <1>8, <1>15

LEMMA RemoveBegin ==
  ASSUME TypeOK, Law, NEW t \in Threads, call[t].op = "remove"
  PROVE  \E q \in Calls : /\ q = call[t] /\ q.op = "remove" /\ q.sb \in Sandboxes
                          /\ RemoveFits(q) /\ Kept(q.sb) /\ q.sb \in known
BY Facts DEF Fits, RemoveFits

\* A step of a removal that returns, or goes on where it stands, and takes down only.
LEMMA RemoveGoesOn ==
  ASSUME TypeOK, Law, NEW t \in Threads, NEW q \in Calls, q = call[t], q.op = "remove",
         NEW r \in Calls, call' = [call EXCEPT ![t] = r],
         r = Idle \/ (r.op = "remove" /\ r.sb = q.sb /\ RemoveFits(r)'),
         \A x \in Sandboxes \ {q.sb} : Same(x), Kept(q.sb)', Falls(q.sb)
  PROVE  Law'
<1>1. q.sb \in Sandboxes
  BY Shapes
<1>2. Fits(r)'
  BY TypedIdle DEF Fits
<1>. QED
  BY <1>1, <1>2, TypedIdle, ThreadKeeps

\* The next step of a removal that is taking down.
LEMMA TypedDown ==
  ASSUME NEW q \in DownCalls,
         NEW pc \in {"conflist", "del", "umount", "unlink", "drop", "forget"}
  PROVE  \E r \in Calls : /\ r = [q EXCEPT !.pc = pc]
                          /\ r.op = "remove" /\ r.sb = q.sb /\ r.pc = pc /\ r.at = q.at
<1> DEFINE r == [q EXCEPT !.pc = pc]
<1>1. r \in DownCalls /\ r.op = "remove" /\ r.sb = q.sb /\ r.pc = pc /\ r.at = q.at
  BY DEF DownCalls
<1> HIDE DEF r
<1>2. r \in Calls
  BY <1>1, CallsByShape
<1>. WITNESS r \in Calls
<1>. QED
  BY <1>1 DEF r

LEMMA RemoveScanKeeps ==
  ASSUME TypeOK, Law, NEW t \in Threads, RemoveScan(t) PROVE TypeOK' /\ Law'
<1>1. PICK q \in Calls : /\ q = call[t] /\ q.op = "remove" /\ q.sb \in Sandboxes
                         /\ RemoveFits(q) /\ Kept(q.sb) /\ q.sb \in known
  BY RemoveBegin DEF RemoveScan, At
<1>2. /\ UNCHANGED <<disk, cache, file, mounted, attached, container, fresh, known, unclean, pinned, unsaved>>
  BY DEF RemoveScan, pins, others, books
<1>3. cache[q.sb] \in Records
  BY <1>1 DEF TypeOK
<1>4. PICK n \in BOOLEAN : n = cache[q.sb].netns
  BY <1>3, RecordNetns
<1>5. PICK f \in BOOLEAN : f = (container[q.sb] # "none")
  <2>1. CASE container[q.sb] = "none"
    <3>. WITNESS FALSE \in BOOLEAN
    <3>. QED
      BY <2>1
  <2>2. CASE container[q.sb] # "none"
    <3>. WITNESS TRUE \in BOOLEAN
    <3>. QED
      BY <2>2
  <2>. QED
    BY <2>1, <2>2
<1> DEFINE on == [op |-> "remove", sb |-> q.sb, pc |-> "containers", found |-> f, netns |-> n]
<1>6. on \in Calls /\ on.op = "remove" /\ on.sb = q.sb /\ on.pc = "containers" /\ on.netns = n
  BY <1>1, CallsByShape DEF FoundCalls
<1> HIDE DEF on
<1>7. PICK r \in Calls : /\ call' = [call EXCEPT ![t] = r]
                         /\ r = Idle \/ (r = on /\ cache[q.sb] # NoRecord)
  <2>1. \/ call' = [call EXCEPT ![t] = Idle]
        \/ call' = [call EXCEPT ![t] = on] /\ cache[q.sb] # NoRecord
    BY <1>1, <1>4, <1>5 DEF RemoveScan, Goto, Return, on
  <2>. QED
    BY <2>1, <1>6, TypedIdle
<1>8. TypeOK'
  BY <1>7, TypedCall DEF RemoveScan, pins, others, books, TypeOK
<1>9. \A x \in Sandboxes : Same(x)
  BY <1>2 DEF Same
<1>10. r = on => RemoveFits(r)'
  <2>1. cache[q.sb] # NoRecord /\ ~n => Clean(q.sb)
    BY <1>1, <1>4 DEF Kept, Clean, DownTo
  <2>2. Clean(q.sb)' <=> Clean(q.sb)
    BY <1>2 DEF Clean, DownTo
  <2>. QED
    BY <2>1, <2>2, <1>1, <1>2, <1>6, <1>7, TypedIdle DEF RemoveFits, Down
<1>11. Law'
  BY <1>1, <1>6, <1>7, <1>9, <1>10, SameKept, SameFalls, RemoveGoesOn
<1>. QED
  BY <1>8, <1>11

LEMMA RemoveContainersKeeps ==
  ASSUME TypeOK, Law, NEW t \in Threads, RemoveContainers(t) PROVE TypeOK' /\ Law'
<1>1. PICK q \in Calls : /\ q = call[t] /\ q.op = "remove" /\ q.sb \in Sandboxes
                         /\ RemoveFits(q) /\ Kept(q.sb) /\ q.sb \in known
  BY RemoveBegin DEF RemoveContainers, At
<1>2. UNCHANGED <<disk, cache, file, mounted, attached, fresh, known, unclean, pinned, unsaved>>
  BY DEF RemoveContainers, pins, books
<1>3. q.pc = "containers" /\ q \in FoundCalls
  BY <1>1, Shapes DEF RemoveContainers, At
<1> DEFINE on == [op |-> "remove", sb |-> q.sb, at |-> NPlugins,
                  pc |-> IF q.netns THEN "conflist" ELSE "drop"]
<1>4. on \in Calls /\ on.op = "remove" /\ on.sb = q.sb /\ on.at = NPlugins
      /\ on.pc = IF q.netns THEN "conflist" ELSE "drop"
  BY <1>1, CallsByShape, NetworkConstants DEF DownCalls
<1> HIDE DEF on
<1>5. PICK r \in Calls : call' = [call EXCEPT ![t] = r] /\ r \in {on, Idle}
  <2>1. call' = [call EXCEPT ![t] = on] \/ call' = [call EXCEPT ![t] = Idle]
    BY <1>1 DEF RemoveContainers, Goto, Return, on
  <2>. QED
    BY <2>1, <1>4, TypedIdle
<1>6. /\ container' \in [Sandboxes -> {"none", "Created", "Running", "Exited"}]
      /\ procs' \subseteq procs
      /\ \A x \in Sandboxes \ {q.sb} : container'[x] = container[x]
      /\ container[q.sb] = "none" => container'[q.sb] = "none"
  BY <1>1 DEF RemoveContainers, TypeOK
<1>7. TypeOK'
  BY <1>4, <1>5, <1>6, TypedCall DEF RemoveContainers, Fault, pins, books, TypeOK
<1>8. \A x \in Sandboxes \ {q.sb} : Same(x)
  BY <1>2, <1>6 DEF Same
<1>9. Kept(q.sb)' /\ Falls(q.sb)
  BY <1>1, <1>2 DEF Kept, Falls, Bare, Whole, Clean, DownTo, Down
<1>10. RemoveFits(on)'
  BY <1>1, <1>2, <1>3, <1>4 DEF RemoveFits, Clean, DownTo, Down
<1>11. Law'
  BY <1>1, <1>4, <1>5, <1>8, <1>9, <1>10, RemoveGoesOn
<1>. QED
  BY <1>7, <1>11

\* The steps from the conflist on: q is taking its sandbox down.
LEMMA DownBegin ==
  ASSUME TypeOK, Law, NEW t \in Threads, call[t].op = "remove",
         call[t].pc \notin {"scan", "containers"}
  PROVE  \E q \in DownCalls : /\ q = call[t] /\ q \in Calls /\ q.op = "remove" /\ q.sb \in Sandboxes
                              /\ RemoveFits(q) /\ Kept(q.sb) /\ q.sb \in known
                              /\ q.at \in 0..NPlugins
<1>1. PICK q \in Calls : /\ q = call[t] /\ q.op = "remove" /\ q.sb \in Sandboxes
                         /\ RemoveFits(q) /\ Kept(q.sb) /\ q.sb \in known
  BY RemoveBegin
<1>2. q \in DownCalls
  BY <1>1, Shapes
<1>. QED
  BY <1>1, <1>2 DEF DownCalls

LEMMA RemoveConflistKeeps ==
  ASSUME TypeOK, Law, NEW t \in Threads, RemoveConflist(t) PROVE TypeOK' /\ Law'
<1>1. PICK q \in DownCalls : /\ q = call[t] /\ q \in Calls /\ q.op = "remove" /\ q.sb \in Sandboxes
                             /\ RemoveFits(q) /\ Kept(q.sb) /\ q.sb \in known
  BY DownBegin DEF RemoveConflist, At
<1>2. q.pc = "conflist" /\ q.at = NPlugins
  BY <1>1 DEF RemoveConflist, At, RemoveFits
<1>3. UNCHANGED <<disk, cache, file, mounted, attached, container, fresh, known, pinned, unsaved>>
  BY DEF RemoveConflist, pins, others
<1>4. PICK r \in Calls : /\ call' = [call EXCEPT ![t] = r] /\ r.op = "remove" /\ r.sb = q.sb
                         /\ r.at = NPlugins
                         /\ \/ r.pc = "del" /\ unclean' = unclean
                            \/ r.pc = "umount" /\ unclean' = unclean \cup {q.sb}
  <2>1. \A pc \in {"del", "umount"} :
          \E r \in Calls : /\ r = [q EXCEPT !.pc = pc] /\ r.op = "remove" /\ r.sb = q.sb
                          /\ r.at = NPlugins /\ r.pc = pc
    BY <1>2, TypedDown
  <2>2. CASE cni
    <3>1. call' = [call EXCEPT ![t] = [q EXCEPT !.pc = "del"]] /\ unclean' = unclean
      BY <1>1, <2>2 DEF RemoveConflist, Goto
    <3>. QED
      BY <3>1, <2>1
  <2>3. CASE ~cni
    <3>1. call' = [call EXCEPT ![t] = [q EXCEPT !.pc = "umount"]] /\ unclean' = unclean \cup {q.sb}
      BY <1>1, <2>3 DEF RemoveConflist, Goto
    <3>. QED
      BY <3>1, <2>1
  <2>. QED
    BY <2>2, <2>3
<1>5. TypeOK'
  BY <1>1, <1>4, TypedCall DEF RemoveConflist, pins, others, TypeOK
<1>6. \A x \in Sandboxes \ {q.sb} : Same(x)
  BY <1>3, <1>4 DEF Same
<1>7. Kept(q.sb)' /\ Falls(q.sb)
  BY <1>1, <1>3, <1>4 DEF Kept, Falls, Bare, Whole, Clean, DownTo, Down
<1>8. attached[q.sb] \subseteq 1..NPlugins /\ NPlugins \in Plugins
  BY <1>1, NetworkConstants DEF TypeOK, Plugins
<1>9. RemoveFits(r)'
  BY <1>1, <1>3, <1>4, <1>8 DEF RemoveFits, DownTo, Down
<1>10. Law'
  BY <1>1, <1>4, <1>6, <1>7, <1>9, RemoveGoesOn
<1>. QED
  BY <1>5, <1>10

\* The highest plugin in effect is taken down first, so what is left is a prefix.
LEMMA RemoveDelKeeps ==
  ASSUME TypeOK, Law, NEW t \in Threads, RemoveDel(t) PROVE TypeOK' /\ Law'
<1>1. PICK q \in DownCalls : /\ q = call[t] /\ q \in Calls /\ q.op = "remove" /\ q.sb \in Sandboxes
                             /\ RemoveFits(q) /\ Kept(q.sb) /\ q.sb \in known
  BY DownBegin DEF RemoveDel, At
<1>2. q.pc = "del" /\ q.at \in Plugins /\ DownTo(q.sb, q.at)
  BY <1>1 DEF RemoveDel, At, RemoveFits
<1>3. q.at \in Nat \ {0} /\ q.at <= NPlugins /\ q.at - 1 \in 0..NPlugins
  BY <1>2, NetworkConstants DEF Plugins
<1>4. UNCHANGED <<disk, cache, file, mounted, container, fresh, known, pinned, unsaved>>
  BY DEF RemoveDel, others
<1> DEFINE pc == IF q.at = 1 THEN "umount" ELSE "del"
<1>5. PICK r \in Calls : /\ call' = [call EXCEPT ![t] = r] /\ r.op = "remove" /\ r.sb = q.sb
                         /\ r.at = q.at - 1 /\ r.pc = pc
  <2>1. call' = [call EXCEPT ![t] = [q EXCEPT !.at = q.at - 1, !.pc = pc]]
    BY <1>1 DEF RemoveDel, Goto
  <2>2. PICK n \in 0..NPlugins : n = q.at - 1
    BY <1>3
  <2>3. PICK p \in {"umount", "del"} : p = pc
    OBVIOUS
  <2> DEFINE r == [q EXCEPT !.at = n, !.pc = p]
  <2>4. r \in DownCalls /\ r.op = "remove" /\ r.sb = q.sb /\ r.pc = p /\ r.at = n
    BY DEF DownCalls
  <2>5. call' = [call EXCEPT ![t] = r]
    BY <2>1, <2>2, <2>3
  <2> HIDE DEF r
  <2>6. r \in Calls
    BY <2>4, CallsByShape
  <2>. WITNESS r \in Calls
  <2>. QED
    BY <2>2, <2>3, <2>4, <2>5
<1>6. \/ attached' = [attached EXCEPT ![q.sb] = @ \ {q.at}] /\ unclean' = unclean
      \/ attached' = attached /\ unclean' = unclean \cup {q.sb}
  BY <1>1 DEF RemoveDel
<1>7. attached \in [Sandboxes -> SUBSET Plugins]
  BY DEF TypeOK
<1>8. /\ attached' \in [Sandboxes -> SUBSET Plugins]
      /\ \A x \in Sandboxes \ {q.sb} : attached'[x] = attached[x]
      /\ attached'[q.sb] \subseteq attached[q.sb]
      /\ q.sb \notin unclean' => q.sb \notin unclean /\ attached'[q.sb] = attached[q.sb] \ {q.at}
  BY <1>1, <1>6, <1>7
<1>9. TypeOK'
  BY <1>1, <1>5, <1>6, <1>8, TypedCall DEF RemoveDel, others, Fault, TypeOK
<1>10. \A x \in Sandboxes \ {q.sb} : Same(x)
  BY <1>4, <1>6, <1>8 DEF Same
<1>11. DownTo(q.sb, q.at - 1)'
  <2>. SUFFICES ASSUME q.sb \notin unclean' PROVE attached'[q.sb] \subseteq 1..(q.at - 1)
    BY DEF DownTo
  <2>1. attached[q.sb] \subseteq 1..q.at
    BY <1>2, <1>8 DEF DownTo
  <2>. QED
    BY <1>3, <1>8, <2>1
<1>12. q.sb \notin unclean' => \A p \in attached'[q.sb] : 1..p \subseteq attached'[q.sb]
  <2>. SUFFICES ASSUME q.sb \notin unclean', NEW p \in attached'[q.sb], NEW i \in 1..p
                PROVE  i \in attached'[q.sb]
    OBVIOUS
  <2>1. p \in attached[q.sb] /\ p \in 1..(q.at - 1)
    BY <1>8, <1>11 DEF DownTo
  <2>2. i \in attached[q.sb]
    BY <1>1, <1>8, <2>1 DEF Kept
  <2>. QED
    BY <1>3, <1>8, <2>1, <2>2
<1>13. Kept(q.sb)'
  <2>1. (disk[q.sb].state = "Ready" => q.sb \in unsaved) /\ q.sb \notin fresh
    BY <1>1 DEF RemoveFits, Down, Kept
  <2>2. disk[q.sb] = NoRecord => Clean(q.sb)'
    BY <1>1, <1>4, <1>6, <1>8 DEF Kept, Clean, DownTo
  <2>. QED
    BY <2>1, <2>2, <1>1, <1>4, <1>8, <1>12 DEF Kept
<1>14. Falls(q.sb)
  BY <1>4, <1>6, <1>8 DEF Falls, Down
<1>15. RemoveFits(r)'
  <2>1. CASE q.at = 1
    BY <2>1, <1>1, <1>4, <1>5, <1>11 DEF RemoveFits, Down
  <2>2. CASE q.at # 1
    <3>1. r.at \in Plugins
      BY <2>2, <1>3, <1>5 DEF Plugins
    <3>. QED
      BY <3>1, <2>2, <1>1, <1>4, <1>5, <1>11 DEF RemoveFits, Down
  <2>. QED
    BY <2>1, <2>2
<1> HIDE DEF pc
<1>16. Law'
  BY <1>1, <1>5, <1>10, <1>13, <1>14, <1>15, RemoveGoesOn
<1>. QED
  BY <1>9, <1>16

LEMMA RemoveUmountKeeps ==
  ASSUME TypeOK, Law, NEW t \in Threads, RemoveUmount(t) PROVE TypeOK' /\ Law'
<1>1. PICK q \in DownCalls : /\ q = call[t] /\ q \in Calls /\ q.op = "remove" /\ q.sb \in Sandboxes
                             /\ RemoveFits(q) /\ Kept(q.sb) /\ q.sb \in known
  BY DownBegin DEF RemoveUmount, At
<1>2. DownTo(q.sb, 0)
  BY <1>1 DEF RemoveUmount, At, RemoveFits
<1>3. /\ UNCHANGED <<disk, cache, file, attached, container, fresh, known, unclean, unsaved>>
      /\ \/ mounted' = mounted \ {q.sb} /\ pinned' = pinned
         \/ mounted' = mounted /\ pinned' = pinned \cup {q.sb}
  BY <1>1 DEF RemoveUmount, others
<1>4. PICK r \in Calls : /\ call' = [call EXCEPT ![t] = r] /\ r.op = "remove" /\ r.sb = q.sb
                         /\ r.pc \in {"unlink", "drop"}
  <2>1. PICK p \in {"unlink", "drop"} : call' = [call EXCEPT ![t] = [q EXCEPT !.pc = p]]
    BY <1>1 DEF RemoveUmount, Goto
  <2>2. PICK r \in Calls : /\ r = [q EXCEPT !.pc = p] /\ r.op = "remove" /\ r.sb = q.sb
                           /\ r.pc = p
    BY TypedDown
  <2>. QED
    BY <2>1, <2>2
<1>5. TypeOK'
  BY <1>1, <1>3, <1>4, TypedCall DEF RemoveUmount, Fault, others, TypeOK
<1>6. \A x \in Sandboxes \ {q.sb} : Same(x)
  BY <1>3 DEF Same
<1>7. q.sb \notin (mounted \ pinned)'
  BY <1>3
<1>8. Kept(q.sb)' /\ Falls(q.sb)
  <2>1. Kept(q.sb)'
    BY <1>1, <1>2, <1>3, <1>7 DEF Kept, RemoveFits, Down, Clean, DownTo
  <2>2. Falls(q.sb)
    BY <1>3 DEF Falls, Down
  <2>. QED
    BY <2>1, <2>2
<1>9. RemoveFits(r)'
  BY <1>1, <1>2, <1>3, <1>4, <1>7 DEF RemoveFits, Clean, DownTo, Down
<1>10. Law'
  BY <1>1, <1>4, <1>6, <1>8, <1>9, RemoveGoesOn
<1>. QED
  BY <1>5, <1>10

LEMMA RemoveUnlinkKeeps ==
  ASSUME TypeOK, Law, NEW t \in Threads, RemoveUnlink(t) PROVE TypeOK' /\ Law'
<1>1. PICK q \in DownCalls : /\ q = call[t] /\ q \in Calls /\ q.op = "remove" /\ q.sb \in Sandboxes
                             /\ RemoveFits(q) /\ Kept(q.sb) /\ q.sb \in known
  BY DownBegin DEF RemoveUnlink, At
<1>2. Clean(q.sb)
  BY <1>1 DEF RemoveUnlink, At, RemoveFits
<1>3. /\ UNCHANGED <<disk, cache, mounted, attached, container, fresh, known, unclean, pinned, unsaved>>
      /\ file' = file \ {q.sb} \/ file' = file
  BY <1>1 DEF RemoveUnlink, others, books
<1>4. PICK r \in Calls : /\ call' = [call EXCEPT ![t] = r] /\ r.op = "remove" /\ r.sb = q.sb
                         /\ r.pc = "drop"
  <2>1. call' = [call EXCEPT ![t] = [q EXCEPT !.pc = "drop"]]
    BY <1>1 DEF RemoveUnlink, Goto
  <2>2. PICK r \in Calls : r = [q EXCEPT !.pc = "drop"] /\ r.op = "remove" /\ r.sb = q.sb /\ r.pc = "drop"
    BY TypedDown
  <2>. QED
    BY <2>1, <2>2
<1>5. TypeOK'
  BY <1>1, <1>3, <1>4, TypedCall DEF RemoveUnlink, Fault, others, books, TypeOK
<1>6. \A x \in Sandboxes \ {q.sb} : Same(x)
  BY <1>3 DEF Same
<1>7. Kept(q.sb)' /\ Falls(q.sb)
  <2>1. Kept(q.sb)'
    BY <1>1, <1>3 DEF Kept, RemoveFits, Down, Clean, DownTo
  <2>2. Falls(q.sb)
    BY <1>1, <1>3 DEF Falls, Down
  <2>. QED
    BY <2>1, <2>2
<1>8. RemoveFits(r)'
  BY <1>1, <1>2, <1>3, <1>4 DEF RemoveFits, Clean, DownTo, Down
<1>9. Law'
  BY <1>1, <1>4, <1>6, <1>7, <1>8, RemoveGoesOn
<1>. QED
  BY <1>5, <1>9

LEMMA RemoveDropKeeps ==
  ASSUME TypeOK, Law, NEW t \in Threads, RemoveDrop(t) PROVE TypeOK' /\ Law'
<1>1. PICK q \in DownCalls : /\ q = call[t] /\ q \in Calls /\ q.op = "remove" /\ q.sb \in Sandboxes
                             /\ RemoveFits(q) /\ Kept(q.sb) /\ q.sb \in known
  BY DownBegin DEF RemoveDrop, At
<1>2. Clean(q.sb)
  BY <1>1 DEF RemoveDrop, At, RemoveFits
<1>3. /\ UNCHANGED <<disk, file, mounted, attached, container, fresh, known, unclean, pinned, unsaved>>
      /\ cache' = [cache EXCEPT ![q.sb] = NoRecord]
  BY <1>1 DEF RemoveDrop, pins, others, books
<1>4. PICK r \in Calls : /\ call' = [call EXCEPT ![t] = r]
                         /\ r = Idle \/ (r.op = "remove" /\ r.sb = q.sb /\ r.pc = "forget")
  <2>1. CASE call' = [call EXCEPT ![t] = Idle]
    BY <2>1, TypedIdle
  <2>2. CASE call' = [call EXCEPT ![t] = [q EXCEPT !.pc = "forget"]]
    <3>1. PICK r \in Calls : r = [q EXCEPT !.pc = "forget"] /\ r.op = "remove" /\ r.sb = q.sb /\ r.pc = "forget"
      BY TypedDown
    <3>. QED
      BY <2>2, <3>1
  <2>. QED
    BY <2>1, <2>2, <1>1 DEF RemoveDrop, Goto, Return
<1>5. /\ cache' \in [Sandboxes -> Records] /\ cache'[q.sb] = NoRecord
      /\ \A x \in Sandboxes \ {q.sb} : cache'[x] = cache[x]
  BY <1>1, <1>3 DEF TypeOK, Records
<1>6. TypeOK'
  BY <1>4, <1>5, TypedCall DEF RemoveDrop, pins, others, books, TypeOK
<1>7. \A x \in Sandboxes \ {q.sb} : Same(x)
  BY <1>3, <1>5 DEF Same
<1>8. Kept(q.sb)' /\ Falls(q.sb)
  BY <1>1, <1>3, <1>5 DEF Kept, Falls, Bare, Whole, Clean, DownTo, Down, NoRecord
<1>9. r # Idle => RemoveFits(r)'
  BY <1>1, <1>2, <1>3, <1>4, <1>5 DEF RemoveFits, Clean, DownTo, Down, NoRecord
<1>10. Law'
  BY <1>1, <1>4, <1>7, <1>8, <1>9, RemoveGoesOn
<1>. QED
  BY <1>6, <1>10

\* The record goes last: by now its sandbox is clean.
LEMMA RemoveForgetKeeps ==
  ASSUME TypeOK, Law, NEW t \in Threads, RemoveForget(t) PROVE TypeOK' /\ Law'
<1>1. PICK q \in DownCalls : /\ q = call[t] /\ q \in Calls /\ q.op = "remove" /\ q.sb \in Sandboxes
                             /\ RemoveFits(q) /\ Kept(q.sb) /\ q.sb \in known
  BY DownBegin DEF RemoveForget, At
<1>2. Clean(q.sb) /\ cache[q.sb] = NoRecord
  BY <1>1 DEF RemoveForget, At, RemoveFits
<1>3. /\ UNCHANGED <<cache, file, mounted, attached, container, fresh, known, unclean, pinned>>
      /\ \/ disk' = [disk EXCEPT ![q.sb] = NoRecord] /\ unsaved' = unsaved \ {q.sb}
         \/ disk' = disk /\ unsaved' = unsaved
      /\ call' = [call EXCEPT ![t] = Idle]
  BY <1>1 DEF RemoveForget, Goto, Return, pins, others
<1>4. /\ disk' \in [Sandboxes -> Records]
      /\ disk'[q.sb] = NoRecord \/ (disk'[q.sb] = disk[q.sb] /\ unsaved' = unsaved)
      /\ \A x \in Sandboxes \ {q.sb} : disk'[x] = disk[x]
  BY <1>1, <1>3 DEF TypeOK, Records
<1>5. TypeOK'
  BY <1>3, <1>4, TypedIdle, TypedCall DEF RemoveForget, Fault, pins, others, TypeOK
<1>6. \A x \in Sandboxes \ {q.sb} : Same(x)
  BY <1>3, <1>4 DEF Same
<1>7. Kept(q.sb)' /\ Falls(q.sb)
  BY <1>1, <1>2, <1>3, <1>4 DEF Kept, Falls, Bare, Whole, Clean, DownTo, Down, NoRecord
<1>8. Law'
  BY <1>1, <1>3, <1>6, <1>7, TypedIdle, RemoveGoesOn
<1>. QED
  BY <1>5, <1>8

-----------------------------------------------------------------------------
(* The calls that join.                                                    *)

\* A step that changes nothing a call relies on, and leaves t joining s or idle.
LEMMA QuietKeeps ==
  ASSUME TypeOK, Law, NEW t \in Threads, NEW s \in Sandboxes, NEW r \in Calls,
         call' = [call EXCEPT ![t] = r],
         r = Idle \/ (r.op \in {"create", "start", "exec", "dial"} /\ r.sb = s /\ JoinFits(r)),
         (call[t].op # "idle" /\ call[t].sb = s) \/ cache[s] # NoRecord \/ container[s] # "none",
         \A x \in Sandboxes : Same(x)
  PROVE  Law'
<1>1. Kept(s)' /\ Falls(s)
  BY SameKept, SameFalls DEF Law
<1>2. Fits(r)'
  <2>1. CASE r = Idle
    BY <2>1, TypedIdle
  <2>2. CASE r # Idle
    BY <2>2, SameFits DEF Fits
  <2>. QED
    BY <2>1, <2>2
<1>. QED
  BY <1>1, <1>2, TypedIdle, ThreadKeeps

\* A sandbox that is seen, or whose container is, has been persisted.
LEMMA SeenKnown ==
  ASSUME TypeOK, Law, NEW s \in Sandboxes, cache[s] # NoRecord \/ container[s] # "none"
  PROVE  s \in known
BY DEF Law, Kept

LEMMA TargetFits ==
  ASSUME TypeOK, NEW s \in Sandboxes, NEW op \in {"start", "exec", "dial"}, s \in known
  PROVE  \E r \in Calls : /\ r = [op |-> op, sb |-> s, net |-> Target(s), pc |-> "join"]
                          /\ r.op = op /\ r.sb = s /\ JoinFits(r)
<1> DEFINE r == [op |-> op, sb |-> s, net |-> Target(s), pc |-> "join"]
<1>1. r \in JoinCalls /\ r.op = op /\ r.sb = s /\ r.net = Target(s)
  BY DEF JoinCalls, Target
<1> HIDE DEF r
<1>2. r \in Calls
  BY <1>1, CallsByShape
<1>3. JoinFits(r)
  BY <1>1, NetworkConstants DEF JoinFits, Target
<1>. WITNESS r \in Calls
<1>. QED
  BY <1>1, <1>3 DEF r

LEMMA JoinBegin ==
  ASSUME TypeOK, Law, NEW t \in Threads, call[t].op \in {"create", "start", "exec", "dial"}
  PROVE  \E q \in Calls : /\ q = call[t] /\ q.op \in {"create", "start", "exec", "dial"}
                          /\ q.sb \in Sandboxes /\ JoinFits(q) /\ Kept(q.sb) /\ q.sb \in known
BY Facts DEF Fits, JoinFits

LEMMA CreateCheckKeeps ==
  ASSUME TypeOK, Law, NEW t \in Threads, NEW s \in Sandboxes, CreateCheck(t, s)
  PROVE  TypeOK' /\ Law'
<1> DEFINE r == [op |-> "create", sb |-> s, pc |-> "insert"]
<1>1. r \in Calls /\ r.op = "create" /\ r.sb = s /\ r.pc = "insert"
  BY CallsByShape DEF CreateCalls
<1>2. /\ UNCHANGED <<disk, cache, file, mounted, attached, container, fresh, known, unclean, pinned, unsaved>>
      /\ call' = [call EXCEPT ![t] = r]
  BY DEF CreateCheck, Goto, pins, others, books
<1> HIDE DEF r
<1>3. cache[s] # NoRecord
  BY DEF CreateCheck, NoRecord
<1>4. JoinFits(r)
  <2>1. s \in known
    BY <1>3, SeenKnown
  <2>. QED
    BY <2>1, <1>1 DEF JoinFits
<1>5. TypeOK'
  BY <1>1, <1>2, TypedCall DEF CreateCheck, pins, others, books, TypeOK
<1>6. \A x \in Sandboxes : Same(x)
  BY <1>2 DEF Same
<1>. QED
  BY <1>1, <1>2, <1>3, <1>4, <1>5, <1>6, QuietKeeps

LEMMA CreateInsertKeeps ==
  ASSUME TypeOK, Law, NEW t \in Threads, CreateInsert(t) PROVE TypeOK' /\ Law'
<1>1. PICK q \in Calls : /\ q = call[t] /\ q.op \in {"create", "start", "exec", "dial"}
                         /\ q.sb \in Sandboxes /\ JoinFits(q) /\ Kept(q.sb) /\ q.sb \in known
  BY JoinBegin DEF CreateInsert, At
<1>2. /\ UNCHANGED <<disk, cache, file, mounted, attached, fresh, known, unclean, pinned, unsaved>>
      /\ call' = [call EXCEPT ![t] = Idle]
  BY <1>1 DEF CreateInsert, Goto, Return, pins, books
<1>3. /\ container' \in [Sandboxes -> {"none", "Created", "Running", "Exited"}]
      /\ \A x \in Sandboxes \ {q.sb} : container'[x] = container[x]
  BY <1>1 DEF CreateInsert, TypeOK
<1>4. TypeOK'
  BY <1>2, <1>3, TypedIdle, TypedCall DEF CreateInsert, pins, books, TypeOK
<1>5. \A x \in Sandboxes \ {q.sb} : Same(x)
  BY <1>2, <1>3 DEF Same
<1>6. Kept(q.sb)' /\ Falls(q.sb)
  BY <1>1, <1>2 DEF Kept, Falls, Bare, Whole, Clean, DownTo, Down
<1>7. Law'
  BY <1>1, <1>2, <1>5, <1>6, TypedIdle, ThreadKeeps
<1>. QED
  BY <1>4, <1>7

LEMMA StartLookupKeeps ==
  ASSUME TypeOK, Law, NEW t \in Threads, NEW s \in Sandboxes, StartLookup(t, s)
  PROVE  TypeOK' /\ Law'
<1>1. container[s] # "none" /\ s \in known
  BY SeenKnown DEF StartLookup
<1>2. PICK r \in Calls : /\ r = [op |-> "start", sb |-> s, net |-> Target(s), pc |-> "join"]
                         /\ r.op = "start" /\ r.sb = s /\ JoinFits(r)
  BY <1>1, TargetFits
<1>3. /\ UNCHANGED <<disk, cache, file, mounted, attached, container, fresh, known, unclean, pinned, unsaved>>
      /\ call' = [call EXCEPT ![t] = r]
  BY <1>2 DEF StartLookup, Goto, pins, others, books
<1>4. TypeOK'
  BY <1>3, TypedCall DEF StartLookup, pins, others, books, TypeOK
<1>5. \A x \in Sandboxes : Same(x)
  BY <1>3 DEF Same
<1>. QED
  BY <1>1, <1>2, <1>3, <1>4, <1>5, QuietKeeps

LEMMA DialMintKeeps ==
  ASSUME TypeOK, Law, NEW t \in Threads, NEW s \in Sandboxes, DialMint(t, s)
  PROVE  TypeOK' /\ Law'
<1>1. cache[s] # NoRecord /\ s \in known
  BY SeenKnown DEF DialMint, NoRecord
<1>2. PICK r \in Calls : /\ r = [op |-> "dial", sb |-> s, net |-> Target(s), pc |-> "join"]
                         /\ r.op = "dial" /\ r.sb = s /\ JoinFits(r)
  BY <1>1, TargetFits
<1>3. /\ UNCHANGED <<disk, cache, file, mounted, attached, container, fresh, known, unclean, pinned, unsaved>>
      /\ call' = [call EXCEPT ![t] = r]
  BY <1>2 DEF DialMint, Goto, pins, others, books
<1>4. TypeOK'
  BY <1>3, TypedCall DEF DialMint, pins, others, books, TypeOK
<1>5. \A x \in Sandboxes : Same(x)
  BY <1>3 DEF Same
<1>. QED
  BY <1>1, <1>2, <1>3, <1>4, <1>5, QuietKeeps

LEMMA ExecLookupKeeps ==
  ASSUME TypeOK, Law, NEW t \in Threads, NEW s \in Sandboxes, ExecLookup(t, s)
  PROVE  TypeOK' /\ Law'
<1> DEFINE r == [op |-> "exec", sb |-> s, pc |-> "proc"]
<1>1. r \in Calls /\ r.op = "exec" /\ r.sb = s /\ r.pc = "proc"
  BY CallsByShape DEF ExecCalls
<1>2. /\ UNCHANGED <<disk, cache, file, mounted, attached, container, fresh, known, unclean, pinned, unsaved>>
      /\ call' = [call EXCEPT ![t] = r]
  BY DEF ExecLookup, Goto, pins, others, books
<1> HIDE DEF r
<1>3. container[s] # "none"
  BY DEF ExecLookup
<1>4. JoinFits(r)
  BY <1>1, <1>3, SeenKnown DEF JoinFits
<1>5. TypeOK'
  BY <1>1, <1>2, TypedCall DEF ExecLookup, pins, others, books, TypeOK
<1>6. \A x \in Sandboxes : Same(x)
  BY <1>2 DEF Same
<1>. QED
  BY <1>1, <1>2, <1>3, <1>4, <1>5, <1>6, QuietKeeps

LEMMA ExecProcKeeps ==
  ASSUME TypeOK, Law, NEW t \in Threads, ExecProc(t) PROVE TypeOK' /\ Law'
<1>1. PICK q \in Calls : /\ q = call[t] /\ q.op \in {"create", "start", "exec", "dial"}
                         /\ q.sb \in Sandboxes /\ JoinFits(q) /\ Kept(q.sb) /\ q.sb \in known
  BY JoinBegin DEF ExecProc, At
<1>2. q \in ExecCalls
  BY <1>1, Shapes DEF ExecProc, At
<1> DEFINE on == [q EXCEPT !.pc = "net"]
<1>3. on \in ExecCalls /\ on.op = "exec" /\ on.sb = q.sb /\ on.pc = "net"
  BY <1>2 DEF ExecCalls
<1>4. /\ UNCHANGED <<disk, cache, file, mounted, attached, container, fresh, known, unclean, pinned, unsaved>>
      /\ call' = [call EXCEPT ![t] = on] \/ call' = [call EXCEPT ![t] = Idle]
  BY <1>1 DEF ExecProc, Goto, Return, pins, others, books
<1> HIDE DEF on
<1>5. on \in Calls /\ JoinFits(on)
  BY <1>1, <1>3, CallsByShape DEF JoinFits
<1>6. PICK r \in Calls : call' = [call EXCEPT ![t] = r] /\ r \in {on, Idle}
  BY <1>4, <1>5, TypedIdle
<1>7. TypeOK'
  BY <1>6, TypedCall DEF ExecProc, pins, others, books, TypeOK
<1>8. \A x \in Sandboxes : Same(x)
  BY <1>4 DEF Same
<1>. QED
  BY <1>1, <1>3, <1>5, <1>6, <1>7, <1>8, QuietKeeps

LEMMA ExecNetKeeps ==
  ASSUME TypeOK, Law, NEW t \in Threads, ExecNet(t) PROVE TypeOK' /\ Law'
<1>1. PICK q \in Calls : /\ q = call[t] /\ q.op \in {"create", "start", "exec", "dial"}
                         /\ q.sb \in Sandboxes /\ JoinFits(q) /\ Kept(q.sb) /\ q.sb \in known
  BY JoinBegin DEF ExecNet, At
<1>2. PICK r \in Calls : /\ r = [op |-> "exec", sb |-> q.sb, net |-> Target(q.sb), pc |-> "join"]
                         /\ r.op = "exec" /\ r.sb = q.sb /\ JoinFits(r)
  BY <1>1, TargetFits
<1>3. /\ UNCHANGED <<disk, cache, file, mounted, attached, container, fresh, known, unclean, pinned, unsaved>>
      /\ call' = [call EXCEPT ![t] = r]
  BY <1>1, <1>2 DEF ExecNet, Goto, pins, others, books
<1>4. TypeOK'
  BY <1>3, TypedCall DEF ExecNet, pins, others, books, TypeOK
<1>5. \A x \in Sandboxes : Same(x)
  BY <1>3 DEF Same
<1>. QED
  BY <1>1, <1>2, <1>3, <1>4, <1>5, QuietKeeps

LEMMA JoinKeeps ==
  ASSUME TypeOK, Law, NEW t \in Threads, Join(t) PROVE TypeOK' /\ Law'
<1>1. PICK q \in Calls : /\ q = call[t] /\ q.op \in {"create", "start", "exec", "dial"}
                         /\ q.sb \in Sandboxes /\ JoinFits(q) /\ Kept(q.sb) /\ q.sb \in known
  BY JoinBegin DEF Join
<1>2. q \in JoinCalls /\ q.pc = "join"
  BY <1>1, Shapes DEF Join
<1> DEFINE on == [q EXCEPT !.pc = "spawn"]
<1>3. on \in JoinCalls /\ on.op = q.op /\ on.sb = q.sb /\ on.pc = "spawn" /\ on.net = q.net
  BY <1>2 DEF JoinCalls
<1>4. /\ UNCHANGED <<disk, cache, file, mounted, attached, container, fresh, known, unclean, pinned, unsaved>>
      /\ call' = [call EXCEPT ![t] = on] \/ call' = [call EXCEPT ![t] = Idle]
  BY <1>1 DEF Join, Goto, Return, pins, others, books
<1> HIDE DEF on
<1>5. on \in Calls /\ JoinFits(on)
  BY <1>1, <1>2, <1>3, CallsByShape DEF JoinFits
<1>6. PICK r \in Calls : call' = [call EXCEPT ![t] = r] /\ r \in {on, Idle}
  BY <1>4, <1>5, TypedIdle
<1>7. TypeOK'
  BY <1>6, TypedCall DEF Join, pins, others, books, TypeOK
<1>8. \A x \in Sandboxes : Same(x)
  BY <1>4 DEF Same
<1>. QED
  BY <1>1, <1>3, <1>5, <1>6, <1>7, <1>8, QuietKeeps

LEMMA SpawnKeeps ==
  ASSUME TypeOK, Law, NEW t \in Threads, Spawn(t) PROVE TypeOK' /\ Law'
<1>1. PICK q \in Calls : /\ q = call[t] /\ q.op \in {"create", "start", "exec", "dial"}
                         /\ q.sb \in Sandboxes /\ JoinFits(q) /\ Kept(q.sb) /\ q.sb \in known
  BY JoinBegin DEF Spawn
<1>2. q \in JoinCalls
  BY <1>1, Shapes DEF Spawn
<1>3. /\ UNCHANGED <<disk, cache, file, mounted, attached, fresh, known, unclean, pinned, unsaved>>
      /\ call' = [call EXCEPT ![t] = Idle]
  BY <1>1 DEF Spawn, Goto, Return, pins, books
<1>4. q.op \in {"start", "exec", "dial"} /\ q.net \in Sandboxes \cup {"host"}
  BY <1>2 DEF JoinCalls
<1>5. \/ UNCHANGED <<container, procs>>
      \/ /\ container[q.sb] # "none" /\ container' = [container EXCEPT ![q.sb] = "Running"]
         /\ procs' = procs \cup {<<"main", q.sb, q.net>>}
      \/ /\ q.op \in {"exec", "dial"} /\ UNCHANGED container
         /\ procs' = procs \cup {<<q.op, q.sb, q.net>>}
  BY <1>1, <1>4 DEF Spawn
<1>6. /\ container' \in [Sandboxes -> {"none", "Created", "Running", "Exited"}]
      /\ \A x \in Sandboxes : container'[x] = "none" <=> container[x] = "none"
  BY <1>1, <1>5 DEF TypeOK
<1>7. procs' \subseteq {"main", "exec", "dial"} \X Sandboxes \X (Sandboxes \cup {"host"})
  BY <1>1, <1>4, <1>5 DEF TypeOK
<1>8. TypeOK'
  BY <1>3, <1>6, <1>7, TypedIdle, TypedCall DEF Spawn, pins, books, TypeOK
<1>9. \A x \in Sandboxes : Same(x)
  BY <1>3, <1>6 DEF Same
<1>. QED
  BY <1>1, <1>3, <1>8, <1>9, TypedIdle, QuietKeeps

-----------------------------------------------------------------------------
(* What no thread does.                                                    *)

LEMMA StillKeeps ==
  ASSUME TypeOK, Law, UNCHANGED call, \A x \in Sandboxes : Same(x) PROVE Law'
<1>1. \A s \in Sandboxes : Kept(s)'
  BY SameKept DEF Law
<1>2. ASSUME NEW u \in Threads, NEW q \in Calls, q = call'[u] PROVE Fits(q)'
  <2>1. q.op # "idle" => q.sb \in Sandboxes
    BY Shapes
  <2>. QED
    BY <1>2, <2>1, SameFits DEF Law
<1>. QED
  BY <1>1, <1>2 DEF Law, RunsAlone

LEMMA ExitKeeps ==
  ASSUME TypeOK, Law, NEW s \in Sandboxes, Exit(s) PROVE TypeOK' /\ Law'
<1>1. UNCHANGED <<disk, cache, file, mounted, attached, call, fresh, known, unclean, pinned, unsaved>>
  BY DEF Exit, pins, books
<1>2. /\ container' \in [Sandboxes -> {"none", "Created", "Running", "Exited"}]
      /\ \A x \in Sandboxes : container'[x] = "none" <=> container[x] = "none"
  BY DEF Exit, TypeOK
<1>3. TypeOK'
  BY <1>1, <1>2 DEF Exit, pins, books, TypeOK
<1>4. \A x \in Sandboxes : Same(x)
  BY <1>1, <1>2 DEF Same
<1>. QED
  BY <1>1, <1>3, <1>4, StillKeeps

\* A restart reads the records back and forgets the calls; what they had made stays.
LEMMA CrashKeeps ==
  ASSUME TypeOK, Law, Crash PROVE TypeOK' /\ Law'
<1>1. /\ UNCHANGED <<disk, file, mounted, attached, container, fresh, known, unclean, pinned, unsaved>>
      /\ cache' = disk /\ call' = [t \in Threads |-> Idle]
  BY DEF Crash, pins, others
<1>2. TypeOK'
  BY <1>1, TypedIdle DEF Crash, pins, others, TypeOK
<1>3. \A s \in Sandboxes : Kept(s)'
  BY <1>1 DEF Law, Kept, Bare, Whole, Clean, DownTo
<1>4. \A u \in Threads, q \in Calls : q = call'[u] => Fits(q)'
  BY <1>1, TypedIdle
<1>5. RunsAlone'
  BY <1>1 DEF RunsAlone, Idle
<1>. QED
  BY <1>2, <1>3, <1>4, <1>5 DEF Law

LEMMA OtherKeeps ==
  ASSUME TypeOK, Law, Reconfigure \/ UNCHANGED vars PROVE TypeOK' /\ Law'
<1>1. UNCHANGED <<disk, cache, file, mounted, attached, container, call, fresh, known, unclean, pinned, unsaved>>
  BY DEF Reconfigure, vars, pins, books
<1>2. TypeOK'
  <2>1. cni' \in BOOLEAN
    <3>1. cni \in BOOLEAN
      BY DEF TypeOK
    <3>2. cni' = ~cni \/ cni' = cni
      BY DEF Reconfigure, vars
    <3>. QED
      BY <3>1, <3>2, Zenon
  <2>2. /\ procs' = procs /\ crashes' = crashes
        /\ faults' = faults \/ faults' = faults + 1
    BY DEF Reconfigure, Fault, vars, books
  <2>. QED
    BY <1>1, <2>1, <2>2 DEF TypeOK
<1>3. \A x \in Sandboxes : Same(x)
  BY <1>1 DEF Same
<1>. QED
  BY <1>1, <1>2, <1>3, StillKeeps

-----------------------------------------------------------------------------
LEMMA InitLaw == Init => TypeOK /\ Law
<1>. SUFFICES ASSUME Init PROVE TypeOK /\ Law
  OBVIOUS
<1>1. TypeOK
  <2>1. NoRecord \in Records /\ 0 \in Nat
    BY DEF Records
  <2>2. disk \in [Sandboxes -> Records] /\ cache \in [Sandboxes -> Records]
    BY <2>1 DEF Init
  <2>3. call \in [Threads -> Calls]
    BY TypedIdle DEF Init
  <2>. QED
    BY <2>1, <2>2, <2>3 DEF Init, TypeOK
<1>2. \A s \in Sandboxes : Kept(s)
  BY DEF Init, Kept, Bare, Whole, Clean, DownTo, NoRecord
<1>3. \A t \in Threads, r \in Calls : r = call[t] => Fits(r)
  BY DEF Init, Fits, Idle
<1>4. RunsAlone
  BY DEF Init, RunsAlone, Idle
<1>. QED
  BY <1>1, <1>2, <1>3, <1>4 DEF Law

LEMMA LawStep == TypeOK /\ Law /\ [Next]_vars => TypeOK' /\ Law'
<1>. SUFFICES ASSUME TypeOK, Law, [Next]_vars PROVE TypeOK' /\ Law'
  OBVIOUS
<1>1. CASE \E t \in Threads : RunStep(t)
  BY <1>1, RunTouchKeeps, RunMountKeeps, RunConflistKeeps, RunAddKeeps, RunPersistKeeps,
     RunInsertKeeps DEF RunStep
<1>2. CASE \E t \in Threads : RemoveStep(t)
  BY <1>2, StopWriteKeeps, RemoveScanKeeps, RemoveContainersKeeps, RemoveConflistKeeps, RemoveDelKeeps,
     RemoveUmountKeeps, RemoveUnlinkKeeps, RemoveDropKeeps, RemoveForgetKeeps DEF RemoveStep
<1>3. CASE \E t \in Threads : JoinStep(t)
  BY <1>3, CreateInsertKeeps, ExecProcKeeps, ExecNetKeeps, JoinKeeps, SpawnKeeps,
     CreateCheckKeeps, StartLookupKeeps, ExecLookupKeeps, DialMintKeeps DEF JoinStep
<1>4. CASE \E t \in Threads, s \in Sandboxes :
             StopCall(t, s) \/ RemoveCall(t, s) \/ \E h \in BOOLEAN : RunCall(t, s, h)
  BY <1>4, StopCallKeeps, RemoveCallKeeps, RunCallKeeps
<1>5. CASE \E s \in Sandboxes : Exit(s)
  BY <1>5, ExitKeeps
<1>6. CASE Reconfigure \/ UNCHANGED vars
  BY <1>6, OtherKeeps
<1>7. CASE Crash
  BY <1>7, CrashKeeps
<1>. QED
  BY <1>1, <1>2, <1>3, <1>4, <1>5, <1>6, <1>7 DEF Next

LEMMA LawHolds == Spec => [](TypeOK /\ Law)
BY InitLaw, LawStep, PTL DEF Spec

\* Every variable has its type and every thread is in a call of one of the functions.
THEOREM NetworkTyped == Spec => []TypeOK
BY LawHolds, PTL

\* Whatever fails on the way and whenever the server is killed, a sandbox that is Ready on
\* a network of its own has its pinned namespace and the work of every plugin of the chain:
\* run_sandbox persists the record last, and stop_sandbox writes NotReady before a removal
\* takes anything down, but for a stop whose write has failed or is still to come.
THEOREM NetworkStaysWhole == Spec => []NetworkIsWhole
<1>1. TypeOK /\ Law => NetworkIsWhole
  <2>. SUFFICES ASSUME TypeOK, Law, NEW s \in Sandboxes \ unsaved,
                       [state |-> "Ready", netns |-> TRUE] \in {disk[s], cache[s]}
                PROVE  Whole(s)
    BY DEF NetworkIsWhole, Whole
  <2>1. Kept(s)
    BY DEF Law
  <2>2. disk[s] = [state |-> "Ready", netns |-> TRUE]
    BY <2>1 DEF Kept
  <2>. QED
    BY <2>1, <2>2 DEF Kept
<1>. QED
  BY <1>1, LawHolds, PTL

\* What a sandbox once recorded still has of its network is described by a record on disk,
\* with any number of removals, failures and kills: remove_sandbox drops the record last.  Not
\* so what would not go: cni_teardown logs a failed unmount or DEL and the record is dropped.
THEOREM RecordGoesLast == Spec => []RecordOutlivesNetwork
<1>1. TypeOK /\ Law => RecordOutlivesNetwork
  BY DEF TypeOK, Law, Kept, Clean, DownTo, RecordOutlivesNetwork
<1>. QED
  BY <1>1, LawHolds, PTL

\* A plugin is in effect only with every plugin before it, however the runs of the chain up
\* and down fail, race and are cut short (chain::add and chain::del).
THEOREM ChainStaysPrefix == Spec => []ChainIsPrefix
<1>1. TypeOK /\ Law => ChainIsPrefix
  BY DEF Law, Kept, ChainIsPrefix
<1>. QED
  BY <1>1, LawHolds, PTL

\* Only a spawn adds a process, and where it runs is what its call looked up.
LEMMA OnlySpawnAdds ==
  ASSUME TypeOK, Law, [Next]_vars, NEW p \in procs' \ procs
  PROVE  \E r \in Calls : /\ JoinFits(r) /\ r.sb \in Sandboxes /\ r.pc = "spawn"
                          /\ p[2] = r.sb /\ p[3] = r.net
<1>1. ASSUME NEW t \in Threads, Spawn(t)
      PROVE  \E r \in Calls : /\ JoinFits(r) /\ r.sb \in Sandboxes /\ r.pc = "spawn"
                              /\ p[2] = r.sb /\ p[3] = r.net
  <2>1. PICK q \in Calls : /\ q = call[t] /\ q.op \in {"create", "start", "exec", "dial"}
                           /\ q.sb \in Sandboxes /\ JoinFits(q) /\ Kept(q.sb) /\ q.sb \in known
    BY <1>1, JoinBegin DEF Spawn
  <2>2. q.pc = "spawn" /\ q.op \in {"start", "exec", "dial"}
    BY <1>1, <2>1 DEF Spawn
  <2>3. p = <<"main", q.sb, q.net>> \/ p = <<q.op, q.sb, q.net>>
    BY <1>1, <2>1, <2>2 DEF Spawn
  <2>4. p[2] = q.sb /\ p[3] = q.net
    BY <2>3
  <2>. QED
    BY <2>1, <2>2, <2>4
<1>2. \A t \in Threads : RunStep(t) \/ RemoveStep(t) => procs' \subseteq procs
  <2>. TAKE t \in Threads
  <2>1. RunStep(t) => procs' = procs
    BY DEF RunStep, RunTouch, RunMount, RunConflist, RunAdd, RunPersist, RunInsert, others
  <2>2. RemoveContainers(t) => procs' \subseteq procs
    BY DEF RemoveContainers
  <2>3. RemoveStep(t) => procs' \subseteq procs
    BY <2>2 DEF RemoveStep, StopWrite, RemoveScan, RemoveConflist, RemoveDel, RemoveUmount, RemoveUnlink,
             RemoveDrop, RemoveForget, others
  <2>. QED
    BY <2>1, <2>3
<1>3. \A t \in Threads : JoinStep(t) => procs' = procs \/ Spawn(t)
  BY DEF JoinStep, CreateInsert, ExecProc, ExecNet, Join, CreateCheck, StartLookup, ExecLookup,
         DialMint, others
<1>4. \A t \in Threads, s \in Sandboxes, h \in BOOLEAN :
        StopCall(t, s) \/ RemoveCall(t, s) \/ RunCall(t, s, h) => procs' = procs
  BY DEF StopCall, RemoveCall, RunCall, others
<1>5. (\E s \in Sandboxes : Exit(s)) => procs' \subseteq procs
  BY DEF Exit
<1>6. Reconfigure \/ Crash \/ UNCHANGED vars => procs' = procs
  BY DEF Reconfigure, Crash, others, vars
<1>7. \E t \in Threads : Spawn(t)
  BY <1>2, <1>3, <1>4, <1>5, <1>6 DEF Next
<1>. QED
  BY <1>1, <1>7

\* No process is put on the host network for a sandbox that still has its own: a lookup
\* reads no path only from a record without one or from none at all, and by the time the
\* call spawns neither can have been given a path (start_container, open_exec, exec_sync).
THEOREM NobodyLeaksToTheHost == Spec => OwnNetworkWhileRecorded
<1>1. ASSUME TypeOK, Law, [Next]_vars
      PROVE  [\A p \in procs' \ procs :
                p[3] = "host" => ~ (p[2] \in mounted /\ cache[p[2]].netns)]_vars
  <2>. SUFFICES ASSUME NEW p \in procs' \ procs, p[3] = "host" PROVE ~cache[p[2]].netns
    OBVIOUS
  <2>1. PICK r \in Calls : /\ JoinFits(r) /\ r.sb \in Sandboxes /\ r.pc = "spawn"
                           /\ p[2] = r.sb /\ p[3] = r.net
    BY <1>1, OnlySpawnAdds
  <2>. QED
    BY <2>1 DEF JoinFits
<1>. QED
  BY <1>1, LawHolds, PTL DEF Spec, OwnNetworkWhileRecorded
=============================================================================

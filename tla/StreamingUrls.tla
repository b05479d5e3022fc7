---------------------------- MODULE StreamingUrls ----------------------------
(***************************************************************************)
(* From an Exec, Attach or PortForward RPC to a session: the shell checks  *)
(* the target and mints a URL (crates/lightr-cri-shell/src/runtime.rs), a  *)
(* client connects to it, the streaming server consumes its token, answers *)
(* 101 and opens the session (crates/lightr-cri-stream/src/server.rs).     *)
(* Up to a minute lies between the check and the use, and any number of    *)
(* clients may hold the same URL.                                          *)
(***************************************************************************)
EXTENDS TokenRegistry

CONSTANTS
  Targets,        \* containers and sandboxes, by id
  Callers,        \* RPCs the shell serves at a time
  Conns,          \* connections to the streaming server
  Grants,         \* names for the URLs handed out: history only
  MaxNow,         \* bound on the clock
  MaxCrashes,     \* bound on kill -9 of the server
  RandomFails     \* TRUE: /dev/urandom may fail, or collide eight times

VARIABLES
  serving,        \* targets that are Running (containers) or Ready (sandboxes)
  rpc,            \* caller -> the verb and target it has validated, or None
  conn,           \* connection -> what the server's task for it has in hand, or None
  life,           \* how often the server has been started before
  minted,         \* grant -> what the RPC was answered for, or None   (history)
  spent,          \* grants whose token has been presented to a server (history)
  opened          \* grant -> sessions opened with it                  (history)

registry == <<inner, now>>
history  == <<minted, spent, opened>>
vars     == <<registry, serving, rpc, conn, life, history>>

-----------------------------------------------------------------------------
Verbs == {"exec", "attach", "portforward"}

Requests == [verb : Verbs, target : Targets]
Params   == [target : Targets, grant : Grants]
Entries  == [verb : Verbs, params : Params, minted_at : Nat]
Minted   == [verb : Verbs, target : Targets, at : Nat, life : Nat]

\* `path`: the verb of the route the client used.  `at`: when it was let in.  History: `alive`,
\* whether the target was then.
Tasks == [st : {"upgrading", "opening", "session"}, path : Verbs, verb : Verbs, target : Targets,
          grant : Grants, at : Nat, alive : BOOLEAN]

ASSUME UrlConstantsOK ==
  /\ None \notin Requests /\ None \notin Entries /\ None \notin Minted /\ None \notin Tasks
  /\ MaxNow \in Nat /\ MaxCrashes \in Nat /\ RandomFails \in BOOLEAN

Init ==
  /\ inner = [tok \in Tokens |-> None] /\ now = 0
  /\ serving = Targets
  /\ rpc = [k \in Callers |-> None]
  /\ conn = [c \in Conns |-> None]
  /\ life = 0
  /\ minted = [g \in Grants |-> None]
  /\ spent = {}
  /\ opened = [g \in Grants |-> 0]

-----------------------------------------------------------------------------
(* The shell: check the target, then mint.  The check is made on a blocking *)
(* thread; whatever happens before the mint goes unnoticed.                 *)

Validate(k) ==
  /\ rpc[k] = None
  /\ \E verb \in Verbs, target \in serving :
       rpc' = [rpc EXCEPT ![k] = [verb |-> verb, target |-> target]]
  /\ UNCHANGED <<registry, serving, conn, life, history>>

MintUrl(k) ==
  /\ rpc[k] # None
  /\ \E tok \in Tokens, g \in Grants :
       /\ minted[g] = None
       /\ MintAs(tok, rpc[k].verb, [target |-> rpc[k].target, grant |-> g])
       /\ minted' = [minted EXCEPT ![g] =
            [verb |-> rpc[k].verb, target |-> rpc[k].target, at |-> now, life |-> life]]
  /\ rpc' = [rpc EXCEPT ![k] = None]
  /\ UNCHANGED <<now, serving, conn, life, spent, opened>>

\* resource_exhausted; the sweep has happened all the same.
RefuseUrl(k) ==
  /\ rpc[k] # None
  /\ ~HasRoom \/ RandomFails
  /\ MintRefused
  /\ rpc' = [rpc EXCEPT ![k] = None]
  /\ UNCHANGED <<now, serving, conn, life, history>>

-----------------------------------------------------------------------------
(* The streaming server.  Up to the 101 a handler awaits nothing. *)

Bug_LetsIn(tok, path) == Accepted(tok)
LetsIn(tok, path) == Accepted(tok) /\ inner[tok].verb = path

\* A request with a token that is no key, 404, changes nothing and is left out.
\* Otherwise the token is consumed: 404 when it is too old or of another verb, 403
\* or 400 when no protocol fits, or 101.
Connect(c) ==
  /\ conn[c] = None
  /\ \E tok \in Held, path \in Verbs :
       LET entry == inner[tok] IN
       /\ Remove(tok)
       /\ spent' = spent \cup {entry.params.grant}
       /\ \/ UNCHANGED conn
          \/ /\ LetsIn(tok, path)
             /\ conn' = [conn EXCEPT ![c] =
                  [st |-> "upgrading", path |-> path, verb |-> entry.verb,
                   target |-> entry.params.target, grant |-> entry.params.grant, at |-> now,
                   alive |-> entry.params.target \in serving]]
  /\ UNCHANGED <<now, serving, rpc, life, minted, opened>>

Bug_MayOpen(task) == TRUE

\* open_exec and open_attach look at the container again; nothing looks at the
\* sandbox of a port forward.
MayOpen(task) == task.verb = "portforward" \/ task.target \in serving

\* Under the cache lock, which is dropped again.
CheckTarget(c) ==
  /\ conn[c] # None /\ conn[c].st = "upgrading"
  /\ MayOpen(conn[c])
  /\ conn' = [conn EXCEPT ![c].st = "opening"]
  /\ UNCHANGED <<registry, serving, rpc, life, history>>

\* The spawn of the exec, the pipes of the attach, the dial: the target may have ended since.
OpenSession(c) ==
  /\ conn[c] # None /\ conn[c].st = "opening"
  /\ conn' = [conn EXCEPT ![c].st = "session"]
  /\ opened' = [opened EXCEPT ![conn[c].grant] = @ + 1]
  /\ UNCHANGED <<registry, serving, rpc, life, minted, spent>>

\* The upgrade or the opening fails, or the session ends, or the client is gone.
Disconnect(c) ==
  /\ conn[c] # None
  /\ conn' = [conn EXCEPT ![c] = None]
  /\ UNCHANGED <<registry, serving, rpc, life, history>>

-----------------------------------------------------------------------------
\* A container exits or is removed, a sandbox is stopped: neither comes back.
TargetEnds == \E target \in serving :
  /\ serving' = serving \ {target}
  /\ UNCHANGED <<registry, rpc, conn, life, history>>

Tick ==
  /\ now < MaxNow /\ now' = now + 1
  /\ UNCHANGED <<inner, serving, rpc, conn, life, history>>

\* The registry is in memory only, and sessions die with their connections.
Crash ==
  /\ life < MaxCrashes /\ life' = life + 1
  /\ inner' = [tok \in Tokens |-> None]
  /\ rpc' = [k \in Callers |-> None]
  /\ conn' = [c \in Conns |-> None]
  /\ UNCHANGED <<now, serving, history>>

CallerStep(k) == Validate(k) \/ MintUrl(k) \/ RefuseUrl(k)
ConnStep(c)   == Connect(c) \/ CheckTarget(c) \/ OpenSession(c) \/ Disconnect(c)

Next ==
  \/ \E k \in Callers : CallerStep(k)
  \/ \E c \in Conns : ConnStep(c)
  \/ TargetEnds \/ Tick \/ Crash

Spec == Init /\ [][Next]_vars

-----------------------------------------------------------------------------
(* Properties *)

\* Every variable holds what its Rust type allows.
TypeOK ==
  /\ inner \in [Tokens -> Entries \cup {None}] /\ now \in Nat
  /\ serving \subseteq Targets
  /\ rpc \in [Callers -> Requests \cup {None}]
  /\ conn \in [Conns -> Tasks \cup {None}]
  /\ life \in Nat
  /\ minted \in [Grants -> Minted \cup {None}]
  /\ spent \subseteq Grants
  /\ opened \in [Grants -> Nat]

\* Single use: a URL opens at most one session, however many clients hold it, whatever
\* random tokens repeat, and across restarts.
AtMostOneSession == \A g \in Grants : opened[g] <= 1

\* Whoever was let in holds a URL of this life of the server, was let in within the TTL of
\* its mint and on the route of its verb, and works on the target it was minted for.
HonoursGrant ==
  \A c \in Conns : conn[c] # None =>
    LET grant == minted[conn[c].grant] IN
    /\ grant # None
    /\ conn[c].verb = grant.verb /\ conn[c].path = grant.verb
    /\ conn[c].target = grant.target
    /\ conn[c].at - grant.at < TTL
    /\ grant.life = life

\* The cap of the registry holds.
InFlightBounded == Cardinality(Held) <= MAX_INFLIGHT

\* A URL is worth nothing once its target has ended, although the shell checked it up to a
\* minute ago: whoever has an exec or attach session was let in while the target was running
\* (open_exec and open_attach check again).  It may have ended between that check and the
\* spawn, which looks at nothing.
OpenedInTime ==
  \A c \in Conns :
    conn[c] # None /\ conn[c].st = "session" /\ conn[c].verb # "portforward" => conn[c].alive

=============================================================================

------------------------- MODULE StreamingUrlsProofs -------------------------
(***************************************************************************)
(* Theorems about StreamingUrls for every set of tokens, callers,          *)
(* connections and URLs, every TTL and every cap.                          *)
(***************************************************************************)
EXTENDS StreamingUrls, FiniteSetTheorems, TLAPS

-----------------------------------------------------------------------------
(* What the sweep leaves *)

\* The sweep of mint keeps some of the entries, as they are.
LEMMA SweptType ==
  ASSUME TypeOK
  PROVE  /\ Swept \in [Tokens -> Entries \cup {None}]
         /\ Kept \subseteq Held
         /\ \A tok \in Tokens : Swept[tok] # None => Swept[tok] = inner[tok]
  BY DEF TypeOK, Swept, Kept, Held

\* The type invariant is inductive as it stands.
LEMMA TypedInit == ASSUME Init PROVE TypeOK
  BY UrlConstantsOK DEF Init, TypeOK

\* A handler of the shell, from its check to the URL.
LEMMA TypedCallerStep ==
  ASSUME TypeOK, NEW k \in Callers, CallerStep(k)
  PROVE  TypeOK'
<1> USE DEF registry, history
<1>1. CASE Validate(k)
  BY <1>1 DEF Validate, TypeOK, Requests
<1>2. CASE MintUrl(k)
  <2>1. PICK tok \in Tokens, g \in Grants :
          /\ minted[g] = None
          /\ MintAs(tok, rpc[k].verb, [target |-> rpc[k].target, grant |-> g])
          /\ minted' = [minted EXCEPT ![g] =
               [verb |-> rpc[k].verb, target |-> rpc[k].target, at |-> now, life |-> life]]
    BY <1>2 DEF MintUrl
  <2>2. rpc[k] \in Requests
    BY <1>2 DEF MintUrl, TypeOK
  <2>3. Entry(rpc[k].verb, [target |-> rpc[k].target, grant |-> g]) \in Entries
    BY <2>2 DEF Entry, Entries, Params, Requests, TypeOK
  <2>4. inner' \in [Tokens -> Entries \cup {None}]
    BY <2>1, <2>3, SweptType DEF MintAs
  <2>5. [verb |-> rpc[k].verb, target |-> rpc[k].target, at |-> now, life |-> life] \in Minted
    BY <2>2 DEF Minted, Requests, TypeOK
  <2>6. minted' \in [Grants -> Minted \cup {None}]
    BY <2>1, <2>5 DEF TypeOK
  <2>7. QED
    BY <1>2, <2>4, <2>6 DEF MintUrl, TypeOK
<1>3. CASE RefuseUrl(k)
  BY <1>3, SweptType DEF RefuseUrl, MintRefused, TypeOK
<1>4. QED
  BY <1>1, <1>2, <1>3 DEF CallerStep

\* A connection of the streaming server.
LEMMA TypedConnStep ==
  ASSUME TypeOK, NEW c \in Conns, ConnStep(c)
  PROVE  TypeOK'
<1> USE DEF registry, history
<1>1. CASE Connect(c)
  <2>1. PICK tok \in Held, path \in Verbs :
          /\ Remove(tok)
          /\ spent' = spent \cup {inner[tok].params.grant}
          /\ \/ UNCHANGED conn
             \/ conn' = [conn EXCEPT ![c] =
                  [st |-> "upgrading", path |-> path, verb |-> inner[tok].verb,
                   target |-> inner[tok].params.target, grant |-> inner[tok].params.grant,
                   at |-> now, alive |-> inner[tok].params.target \in serving]]
    BY <1>1 DEF Connect
  <2>2. inner[tok] \in Entries
    BY DEF Held, TypeOK
  <2>3. [st |-> "upgrading", path |-> path, verb |-> inner[tok].verb,
         target |-> inner[tok].params.target, grant |-> inner[tok].params.grant,
         at |-> now, alive |-> inner[tok].params.target \in serving] \in Tasks
    BY <2>2 DEF Entries, Params, Tasks, TypeOK
  <2>4. conn' \in [Conns -> Tasks \cup {None}]
    BY <2>1, <2>3 DEF TypeOK
  <2>5. inner' \in [Tokens -> Entries \cup {None}]
    BY <2>1 DEF Remove, TypeOK
  <2>6. spent' \subseteq Grants
    BY <2>1, <2>2 DEF TypeOK, Entries, Params
  <2>7. QED
    BY <1>1, <2>4, <2>5, <2>6 DEF Connect, TypeOK
<1>2. CASE CheckTarget(c)
  <2>1. conn[c] \in Tasks
    BY <1>2 DEF CheckTarget, TypeOK
  <2>2. [conn[c] EXCEPT !.st = "opening"] \in Tasks
    BY <2>1 DEF Tasks
  <2>3. QED
    BY <1>2, <2>2 DEF CheckTarget, TypeOK
<1>3. CASE OpenSession(c)
  <2>1. conn[c] \in Tasks
    BY <1>3 DEF OpenSession, TypeOK
  <2>2. [conn[c] EXCEPT !.st = "session"] \in Tasks /\ conn[c].grant \in Grants
    BY <2>1 DEF Tasks
  <2>3. conn' \in [Conns -> Tasks \cup {None}]
    BY <1>3, <2>2 DEF OpenSession, TypeOK
  <2>4. opened' \in [Grants -> Nat]
    BY <1>3, <2>2 DEF OpenSession, TypeOK
  <2>5. QED
    BY <1>3, <2>3, <2>4 DEF OpenSession, TypeOK
<1>4. CASE Disconnect(c)
  BY <1>4 DEF Disconnect, TypeOK
<1>5. QED
  BY <1>1, <1>2, <1>3, <1>4 DEF ConnStep

\* Targets, the clock and a crash as well.
LEMMA TypedStep == ASSUME TypeOK, [Next]_vars PROVE TypeOK'
<1> USE DEF registry, history
<1>1. CASE TargetEnds
  BY <1>1 DEF TargetEnds, TypeOK
<1>2. CASE Tick
  BY <1>2 DEF Tick, TypeOK
<1>3. CASE Crash
  BY <1>3 DEF Crash, TypeOK
<1>4. CASE UNCHANGED vars
  BY <1>4 DEF vars, TypeOK
<1>5. QED
  BY <1>1, <1>2, <1>3, <1>4, TypedCallerStep, TypedConnStep DEF Next

\* Every variable of shell and streaming server holds what its Rust type allows.
THEOREM UrlsTyped == Spec => []TypeOK
  BY TypedInit, TypedStep, PTL DEF Spec

-----------------------------------------------------------------------------
(* The cap.  Only a mint adds a token, and it has counted what the sweep left. *)

Capped == IsFiniteSet(Held) /\ InFlightBounded

\* Removing entries keeps the cap.
LEMMA Fewer ==
  ASSUME Capped, Held' \subseteq Held
  PROVE  Capped'
<1>1. IsFiniteSet(Held') /\ Cardinality(Held') <= Cardinality(Held)
  BY FS_Subset DEF Capped
<1>2. Cardinality(Held') \in Nat /\ Cardinality(Held) \in Nat /\ MAX_INFLIGHT \in Nat
  BY <1>1, FS_CardinalityType, RegistryConstantsOK DEF Capped
<1>3. QED
  BY <1>1, <1>2 DEF Capped, InFlightBounded

\* mint sweeps, and inserts only below the cap.
LEMMA CappedMint ==
  ASSUME TypeOK, Capped, NEW tok \in Tokens, NEW verb, NEW params, MintAs(tok, verb, params)
  PROVE  Capped'
<1>1. IsFiniteSet(Kept) /\ Cardinality(Kept) \in Nat
  BY SweptType, FS_Subset, FS_CardinalityType DEF Capped
<1>2. Held' \subseteq Kept \cup {tok}
  BY SweptType DEF Held, Kept, MintAs
<1>3. IsFiniteSet(Kept \cup {tok}) /\ Cardinality(Kept \cup {tok}) = Cardinality(Kept) + 1
  BY <1>1, FS_AddElement DEF MintAs
<1>4. IsFiniteSet(Held') /\ Cardinality(Held') <= Cardinality(Kept) + 1
  BY <1>2, <1>3, FS_Subset
<1>5. Cardinality(Held') \in Nat
  BY <1>4, FS_CardinalityType
<1>6. Cardinality(Kept) < MAX_INFLIGHT
  BY DEF MintAs, HasRoom
<1>7. QED
  BY <1>1, <1>4, <1>5, <1>6, RegistryConstantsOK DEF Capped, InFlightBounded

\* Nothing but mint inserts.
LEMMA CappedStep == ASSUME TypeOK, Capped, [Next]_vars PROVE Capped'
<1> USE DEF registry, history
<1>1. ASSUME NEW k \in Callers, MintUrl(k) PROVE Capped'
  BY <1>1, CappedMint DEF MintUrl
<1>2. ASSUME NEW k \in Callers, RefuseUrl(k) PROVE Capped'
  <2>1. Held' \subseteq Held
    BY <1>2, SweptType DEF RefuseUrl, MintRefused, Held
  <2>2. QED
    BY <2>1, Fewer
<1>3. ASSUME NEW c \in Conns, Connect(c) PROVE Capped'
  <2>1. Held' \subseteq Held
    BY <1>3 DEF Connect, Remove, Held, TypeOK
  <2>2. QED
    BY <2>1, Fewer
<1>4. CASE Crash
  <2>1. Held' \subseteq Held
    BY <1>4 DEF Crash, Held
  <2>2. QED
    BY <2>1, Fewer
<1>5. CASE UNCHANGED inner
  <2>1. Held' \subseteq Held
    BY <1>5 DEF Held
  <2>2. QED
    BY <2>1, Fewer
<1>6. QED
  BY <1>1, <1>2, <1>3, <1>4, <1>5
     DEF Next, CallerStep, ConnStep, Validate, CheckTarget, OpenSession, Disconnect, TargetEnds, Tick, vars

\* The registry never holds more than the cap: mint sweeps, counts and inserts in one
\* critical section.
THEOREM RegistryBounded == Spec => []InFlightBounded
<1>1. Init => Capped
  <2>1. ASSUME Init PROVE Held = {}
    BY <2>1 DEF Init, Held
  <2>2. QED
    BY <2>1, FS_EmptySet, RegistryConstantsOK DEF Capped, InFlightBounded
<1>2. TypeOK /\ Capped /\ [Next]_vars => Capped'
  BY CappedStep
<1>3. Capped => InFlightBounded
  BY DEF Capped
<1>4. QED
  BY <1>1, <1>2, <1>3, UrlsTyped, PTL DEF Spec

-----------------------------------------------------------------------------
(* Single use.  A grant is in one place at a time: unpresented under one token, or in *)
(* the hands of one connection, or nowhere.                                            *)

\* A token in the registry stands for a URL of this life that nobody has presented.
Pending ==
  \A tok \in Tokens : inner[tok] # None =>
    LET g == inner[tok].params.grant IN
    /\ minted[g] = [verb |-> inner[tok].verb, target |-> inner[tok].params.target,
                    at |-> inner[tok].minted_at, life |-> life]
    /\ g \notin spent

OneToken ==
  \A a, b \in Tokens :
    inner[a] # None /\ inner[b] # None /\ inner[a].params.grant = inner[b].params.grant => a = b

\* A connection works for a grant that was presented, and has opened nothing before its session.
Working ==
  \A c \in Conns : conn[c] # None =>
    /\ conn[c].grant \in spent
    /\ conn[c].st # "session" => opened[conn[c].grant] = 0

OneConn ==
  \A c, d \in Conns :
    conn[c] # None /\ conn[d] # None /\ conn[c].grant = conn[d].grant => c = d

OpenedOnce ==
  \A g \in Grants : /\ opened[g] <= 1
                    /\ g \notin spent => opened[g] = 0
                    /\ minted[g] = None => g \notin spent

Law == Pending /\ OneToken /\ Working /\ OneConn /\ OpenedOnce /\ HonoursGrant

\* The grant of a task or of an entry is a grant.
LEMMA GrantTypes ==
  ASSUME TypeOK
  PROVE  /\ \A tok \in Tokens : inner[tok] # None => /\ inner[tok] \in Entries
                                                     /\ inner[tok].params.grant \in Grants
         /\ \A c \in Conns : conn[c] # None => /\ conn[c] \in Tasks
                                               /\ conn[c].grant \in Grants
  BY DEF TypeOK, Entries, Params, Tasks

\* Nothing was minted yet.
LEMMA LawInit == ASSUME Init PROVE Law
  BY DEF Init, Law, Pending, OneToken, Working, OneConn, OpenedOnce, HonoursGrant

\* mint puts a fresh grant under one token.
LEMMA LawMint ==
  ASSUME TypeOK, Law, NEW k \in Callers, MintUrl(k)
  PROVE  Law'
<1> USE DEF registry, history
<1>1. PICK tok \in Tokens, g \in Grants :
        /\ minted[g] = None
        /\ MintAs(tok, rpc[k].verb, [target |-> rpc[k].target, grant |-> g])
        /\ minted' = [minted EXCEPT ![g] =
             [verb |-> rpc[k].verb, target |-> rpc[k].target, at |-> now, life |-> life]]
  BY DEF MintUrl
<1>2. UNCHANGED <<now, serving, conn, life, spent, opened>>
  BY DEF MintUrl
<1> DEFINE new == Entry(rpc[k].verb, [target |-> rpc[k].target, grant |-> g])
           url == [verb |-> rpc[k].verb, target |-> rpc[k].target, at |-> now, life |-> life]
<1>3. /\ inner'[tok] = new /\ minted'[g] = url /\ g \notin spent
      /\ \A a \in Tokens : a # tok /\ inner'[a] # None => inner'[a] = inner[a] /\ inner[a] # None
      /\ \A h \in Grants : h # g => minted'[h] = minted[h]
  BY <1>1, SweptType DEF MintAs, Law, OpenedOnce, TypeOK
<1>4. /\ new.params.grant = g /\ new.verb = url.verb /\ new.params.target = url.target
      /\ new.minted_at = url.at /\ url.life = life
      /\ url = [verb |-> new.verb, target |-> new.params.target, at |-> new.minted_at,
                life |-> life]
  BY DEF Entry
<1>5. url # None
  <2>1. url \in Minted
    BY DEF MintUrl, TypeOK, Minted, Requests
  <2>2. QED
    BY <2>1, UrlConstantsOK
<1> HIDE DEF new, url
<1>6. \A a \in Tokens : a # tok /\ inner'[a] # None =>
        inner[a].params.grant # g /\ inner[a].params.grant \in Grants
  <2>1. SUFFICES ASSUME NEW a \in Tokens, a # tok, inner'[a] # None
                 PROVE  inner[a].params.grant # g /\ inner[a].params.grant \in Grants
    OBVIOUS
  <2>2. inner[a] # None /\ inner[a] \in Entries /\ inner[a].params.grant \in Grants
    BY <1>3, <2>1, GrantTypes
  <2>3. minted[inner[a].params.grant] \in Minted
    <3>1. inner[a].verb \in Verbs /\ inner[a].params.target \in Targets
          /\ inner[a].minted_at \in Nat /\ life \in Nat
      BY <2>2 DEF Entries, Params, TypeOK
    <3>2. minted[inner[a].params.grant] =
            [verb |-> inner[a].verb, target |-> inner[a].params.target,
             at |-> inner[a].minted_at, life |-> life]
      BY <2>2 DEF Law, Pending
    <3>3. QED
      BY <3>1, <3>2 DEF Minted
  <2>4. QED
    BY <1>1, <2>2, <2>3, UrlConstantsOK
<1>7. Pending'
  BY <1>2, <1>3, <1>4, <1>6 DEF Law, Pending
<1>8. OneToken'
  BY <1>3, <1>4, <1>6 DEF Law, OneToken
<1>9. Working' /\ OneConn'
  BY <1>2 DEF Law, Working, OneConn
<1>10. OpenedOnce'
  BY <1>2, <1>3, <1>5 DEF Law, OpenedOnce
<1>11. HonoursGrant'
  <2>1. \A c \in Conns : conn[c] # None => conn[c].grant \in Grants /\ conn[c].grant # g
    BY <1>3, GrantTypes DEF Law, Working
  <2>2. QED
    BY <1>2, <1>3, <2>1 DEF Law, HonoursGrant
<1>12. QED
  BY <1>7, <1>8, <1>9, <1>10, <1>11 DEF Law

\* consume takes the grant out of the registry, into one connection at most.
LEMMA LawConnect ==
  ASSUME TypeOK, Law, NEW c \in Conns, Connect(c)
  PROVE  Law'
<1> USE DEF registry, history
<1>1. PICK tok \in Held, path \in Verbs :
        /\ Remove(tok)
        /\ spent' = spent \cup {inner[tok].params.grant}
        /\ \/ UNCHANGED conn
           \/ /\ LetsIn(tok, path)
              /\ conn' = [conn EXCEPT ![c] =
                   [st |-> "upgrading", path |-> path, verb |-> inner[tok].verb,
                    target |-> inner[tok].params.target, grant |-> inner[tok].params.grant,
                    at |-> now, alive |-> inner[tok].params.target \in serving]]
  BY DEF Connect
<1>2. UNCHANGED <<now, serving, rpc, life, minted, opened>> /\ conn[c] = None
  BY DEF Connect
<1> DEFINE g == inner[tok].params.grant
<1>3. /\ tok \in Tokens /\ inner[tok] # None /\ g \in Grants /\ g \notin spent
      /\ minted[g] = [verb |-> inner[tok].verb, target |-> inner[tok].params.target,
                      at |-> inner[tok].minted_at, life |-> life]
      /\ inner[tok] \in Entries
  BY GrantTypes DEF Held, Law, Pending
<1>4. minted[g] # None
  <2>1. minted[g] \in Minted
    BY <1>3 DEF Entries, Params, Minted, TypeOK
  <2>2. QED
    BY <2>1, UrlConstantsOK
<1>5. /\ inner'[tok] = None
      /\ \A a \in Tokens : a # tok => inner'[a] = inner[a]
  BY <1>1, <1>3 DEF Remove, TypeOK
<1>6. \A a \in Tokens : inner'[a] # None => a # tok /\ inner[a] # None /\ inner[a].params.grant # g
  BY <1>3, <1>5 DEF Law, OneToken
<1>7. Pending' /\ OneToken'
  <2>1. Pending'
    BY <1>1, <1>2, <1>5, <1>6 DEF Law, Pending
  <2>2. OneToken'
    BY <1>5, <1>6 DEF Law, OneToken
  <2>3. QED
    BY <2>1, <2>2
<1>8. OpenedOnce'
  BY <1>1, <1>2, <1>4 DEF Law, OpenedOnce
<1>9. opened[g] = 0
  BY <1>3 DEF Law, OpenedOnce
<1>10. \A d \in Conns : d # c => conn'[d] = conn[d]
  BY <1>1 DEF TypeOK
<1>11. conn'[c] # None =>
         /\ conn'[c].grant = g /\ conn'[c].verb = inner[tok].verb
         /\ conn'[c].path = inner[tok].verb /\ conn'[c].target = inner[tok].params.target
         /\ conn'[c].at = now /\ now - inner[tok].minted_at < TTL
  BY <1>1, <1>2 DEF TypeOK, LetsIn, Accepted, Unexpired
<1>12. Working'
  BY <1>1, <1>2, <1>9, <1>10, <1>11 DEF Law, Working
<1>13. OneConn'
  <2>1. \A d \in Conns : d # c /\ conn[d] # None => conn[d].grant # g
    BY <1>3 DEF Law, Working
  <2>2. QED
    BY <1>10, <1>11, <2>1 DEF Law, OneConn
<1>14. HonoursGrant'
  BY <1>2, <1>3, <1>4, <1>10, <1>11 DEF Law, HonoursGrant
<1>15. QED
  BY <1>7, <1>8, <1>12, <1>13, <1>14 DEF Law

\* The connection that opens has its grant for the first and only time.
LEMMA LawOpen ==
  ASSUME TypeOK, Law, NEW c \in Conns, OpenSession(c)
  PROVE  Law'
<1> USE DEF registry, history
<1> DEFINE g == conn[c].grant
<1>1. /\ conn[c] \in Tasks /\ g \in Grants /\ conn[c] # None
      /\ g \in spent /\ opened[g] = 0
  BY GrantTypes DEF OpenSession, Law, Working
<1>2. UNCHANGED <<inner, now, rpc, life, minted, spent>>
  BY DEF OpenSession
<1>3. /\ opened'[g] = 1
      /\ \A h \in Grants : h # g => opened'[h] = opened[h]
  BY <1>1 DEF OpenSession, TypeOK
<1>4. /\ conn'[c].grant = g /\ conn'[c].st = "session" /\ conn'[c].verb = conn[c].verb
      /\ conn'[c].path = conn[c].path /\ conn'[c].target = conn[c].target
      /\ conn'[c].at = conn[c].at
      /\ \A d \in Conns : d # c => conn'[d] = conn[d]
  BY <1>1 DEF OpenSession, Tasks, TypeOK
<1>5. \A d \in Conns : d # c /\ conn[d] # None => conn[d].grant # g /\ conn[d].grant \in Grants
  BY <1>1, GrantTypes DEF Law, OneConn
<1>6. Pending' /\ OneToken'
  BY <1>2 DEF Law, Pending, OneToken
<1>7. Working'
  BY <1>1, <1>2, <1>3, <1>4, <1>5 DEF Law, Working
<1>8. OneConn'
  BY <1>1, <1>4 DEF Law, OneConn
<1>9. OpenedOnce'
  BY <1>1, <1>2, <1>3 DEF Law, OpenedOnce
<1>10. HonoursGrant'
  BY <1>1, <1>2, <1>4 DEF Law, HonoursGrant
<1>11. QED
  BY <1>6, <1>7, <1>8, <1>9, <1>10 DEF Law

\* The check of the target moves no grant.
LEMMA LawCheck ==
  ASSUME TypeOK, Law, NEW c \in Conns, CheckTarget(c)
  PROVE  Law'
<1> USE DEF registry, history
<1>1. conn[c] \in Tasks /\ conn[c] # None /\ conn[c].st # "session"
  BY GrantTypes DEF CheckTarget
<1>2. UNCHANGED <<inner, now, life, minted, spent, opened>>
  BY DEF CheckTarget
<1>3. \A d \in Conns :
        /\ conn'[d] # None => conn[d] # None
        /\ conn'[d].grant = conn[d].grant /\ conn'[d].verb = conn[d].verb
        /\ conn'[d].path = conn[d].path /\ conn'[d].target = conn[d].target
        /\ conn'[d].at = conn[d].at
        /\ conn'[d].st # "session" => conn[d].st # "session"
  BY <1>1 DEF CheckTarget, Tasks, TypeOK
<1>4. QED
  BY <1>2, <1>3 DEF Law, Pending, OneToken, Working, OneConn, OpenedOnce, HonoursGrant

\* Every other step leaves grants where they are, or loses them.
LEMMA LawStep == ASSUME TypeOK, Law, [Next]_vars PROVE Law'
<1> USE DEF registry, history
<1>1. ASSUME NEW k \in Callers, RefuseUrl(k) PROVE Law'
  <2>1. \A tok \in Tokens : inner'[tok] # None => inner'[tok] = inner[tok]
    BY <1>1, SweptType DEF RefuseUrl, MintRefused
  <2>2. UNCHANGED <<now, conn, life, minted, spent, opened>>
    BY <1>1 DEF RefuseUrl
  <2>3. QED
    BY <2>1, <2>2 DEF Law, Pending, OneToken, Working, OneConn, OpenedOnce, HonoursGrant
<1>2. ASSUME NEW c \in Conns, Disconnect(c) PROVE Law'
  <2>1. \A d \in Conns : conn'[d] # None => conn'[d] = conn[d]
    BY <1>2 DEF Disconnect, TypeOK
  <2>2. UNCHANGED <<inner, now, life, minted, spent, opened>>
    BY <1>2 DEF Disconnect
  <2>3. QED
    BY <2>1, <2>2 DEF Law, Pending, OneToken, Working, OneConn, OpenedOnce, HonoursGrant
<1>3. CASE Crash
  <2>1. /\ \A tok \in Tokens : inner'[tok] = None
        /\ \A d \in Conns : conn'[d] = None
        /\ UNCHANGED <<minted, spent, opened>>
    BY <1>3 DEF Crash
  <2>2. QED
    BY <2>1 DEF Law, Pending, OneToken, Working, OneConn, OpenedOnce, HonoursGrant
<1>4. CASE UNCHANGED <<inner, conn, life, minted, spent, opened>>
  BY <1>4 DEF Law, Pending, OneToken, Working, OneConn, OpenedOnce, HonoursGrant
<1>5. QED
  BY <1>1, <1>2, <1>3, <1>4, LawMint, LawConnect, LawCheck, LawOpen
     DEF Next, CallerStep, ConnStep, Validate, TargetEnds, Tick, vars

\* A streaming URL opens at most one session, and only on the route of its verb, within its
\* TTL and in the life of the server that minted it: token.rs, with the handlers of server.rs.
THEOREM SingleUse == Spec => [](AtMostOneSession /\ HonoursGrant)
<1>1. Law => AtMostOneSession /\ HonoursGrant
  BY DEF Law, OpenedOnce, AtMostOneSession
<1>2. Init => Law
  BY LawInit
<1>3. TypeOK /\ Law /\ [Next]_vars => Law'
  BY LawStep
<1>4. QED
  BY <1>1, <1>2, <1>3, UrlsTyped, PTL DEF Spec

-----------------------------------------------------------------------------
(* Use after check *)

\* A target that still runs ran when its connection was let in, since none comes back; and a
\* connection past the check was checked after it was let in.
InTime ==
  \A c \in Conns : conn[c] # None =>
    /\ conn[c].target \in serving => conn[c].alive
    /\ conn[c].st # "upgrading" /\ conn[c].verb # "portforward" => conn[c].alive

\* Each step of a connection keeps that.
LEMMA InTimeConnStep ==
  ASSUME TypeOK, InTime, NEW c \in Conns, ConnStep(c)
  PROVE  InTime'
<1> USE DEF registry, history
<1>1. serving' = serving /\ \A d \in Conns : d # c => conn'[d] = conn[d]
  BY DEF ConnStep, Connect, CheckTarget, OpenSession, Disconnect, TypeOK
<1>2. SUFFICES ASSUME conn'[c] # None
               PROVE  /\ conn'[c].target \in serving => conn'[c].alive
                      /\ conn'[c].st # "upgrading" /\ conn'[c].verb # "portforward"
                           => conn'[c].alive
  BY <1>1 DEF InTime
<1>3. CASE Connect(c)
  <2>1. PICK tok \in Held : UNCHANGED conn \/ \E path \in Verbs :
          conn' = [conn EXCEPT ![c] =
            [st |-> "upgrading", path |-> path, verb |-> inner[tok].verb,
             target |-> inner[tok].params.target, grant |-> inner[tok].params.grant,
             at |-> now, alive |-> inner[tok].params.target \in serving]]
    BY <1>3 DEF Connect
  <2>2. conn[c] = None /\ conn \in [Conns -> Tasks \cup {None}]
    BY <1>3 DEF Connect, TypeOK
  <2>3. PICK path \in Verbs :
          conn' = [conn EXCEPT ![c] =
            [st |-> "upgrading", path |-> path, verb |-> inner[tok].verb,
             target |-> inner[tok].params.target, grant |-> inner[tok].params.grant,
             at |-> now, alive |-> inner[tok].params.target \in serving]]
    BY <1>2, <2>1, <2>2
  <2>4. conn'[c] =
          [st |-> "upgrading", path |-> path, verb |-> inner[tok].verb,
           target |-> inner[tok].params.target, grant |-> inner[tok].params.grant,
           at |-> now, alive |-> inner[tok].params.target \in serving]
    BY <2>2, <2>3
  <2>5. /\ conn'[c].st = "upgrading" /\ conn'[c].target = inner[tok].params.target
        /\ conn'[c].alive = (inner[tok].params.target \in serving)
    BY <2>4
  <2>6. QED
    BY <2>5
<1>4. CASE CheckTarget(c)
  <2>1. /\ conn[c] \in Tasks /\ conn'[c].target = conn[c].target
        /\ conn'[c].alive = conn[c].alive /\ conn'[c].verb = conn[c].verb
    BY <1>4, GrantTypes DEF CheckTarget, Tasks, TypeOK
  <2>2. QED
    BY <1>4, <2>1 DEF CheckTarget, MayOpen, InTime
<1>5. CASE OpenSession(c)
  <2>1. /\ conn[c] \in Tasks /\ conn'[c].target = conn[c].target
        /\ conn'[c].alive = conn[c].alive /\ conn'[c].verb = conn[c].verb
    BY <1>5, GrantTypes DEF OpenSession, Tasks, TypeOK
  <2>2. QED
    BY <1>5, <2>1 DEF OpenSession, InTime
<1>6. CASE Disconnect(c)
  BY <1>2, <1>6 DEF Disconnect, TypeOK
<1>7. QED
  BY <1>3, <1>4, <1>5, <1>6 DEF ConnStep

\* So does every other: targets only end.
LEMMA InTimeStep == ASSUME TypeOK, InTime, [Next]_vars PROVE InTime'
<1> USE DEF registry, history
<1>1. CASE TargetEnds
  BY <1>1 DEF TargetEnds, InTime
<1>2. CASE Crash
  BY <1>2 DEF Crash, InTime
<1>3. CASE UNCHANGED <<conn, serving>>
  BY <1>3 DEF InTime
<1>4. QED
  BY <1>1, <1>2, <1>3, InTimeConnStep
     DEF Next, CallerStep, Validate, MintUrl, RefuseUrl, Tick, vars

\* However long a token and an upgrade take after the shell has checked the target, and
\* whenever it ends: nobody has a session of exec or attach whose target had ended before the
\* client was let in.
THEOREM SessionsOpenInTime == Spec => []OpenedInTime
<1>1. Init => InTime
  BY DEF Init, InTime
<1>2. TypeOK /\ InTime /\ [Next]_vars => InTime'
  BY InTimeStep
<1>3. InTime => OpenedInTime
  BY DEF InTime, OpenedInTime
<1>4. QED
  BY <1>1, <1>2, <1>3, UrlsTyped, PTL DEF Spec

=============================================================================

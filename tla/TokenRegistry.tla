---------------------------- MODULE TokenRegistry ----------------------------
(***************************************************************************)
(* The registry of single-use streaming tokens                             *)
(* (crates/lightr-cri-stream/src/token.rs): a map behind one mutex, so     *)
(* `mint` and `consume` are one step each.  A random token is any token.   *)
(***************************************************************************)
EXTENDS Integers, FiniteSets

CONSTANTS
  Tokens,         \* the strings random_token can return
  None,           \* no entry under this token
  TTL,            \* how long a token lasts
  MAX_INFLIGHT    \* how many tokens may be in flight

ASSUME RegistryConstantsOK == TTL \in Nat \ {0} /\ MAX_INFLIGHT \in Nat \ {0}

VARIABLES
  inner,          \* token -> entry, None when not a key
  now             \* Instant::now()

Entry(verb, params) == [verb |-> verb, params |-> params, minted_at |-> now]

Held == {tok \in Tokens : inner[tok] # None}

Unexpired(entry) == now - entry.minted_at < TTL

\* `retain`: what is left of the map when the expired entries are gone.
Swept == [tok \in Tokens |-> IF tok \in Held /\ Unexpired(inner[tok]) THEN inner[tok] ELSE None]

Kept == {tok \in Tokens : Swept[tok] # None}

Bug_HasRoom == Cardinality(Kept) <= MAX_INFLIGHT
HasRoom == Cardinality(Kept) < MAX_INFLIGHT

\* A token that is no key yet is taken; eight collisions in a row give up.
MintAs(tok, verb, params) ==
  /\ HasRoom /\ tok \in Tokens \ Kept
  /\ inner' = [Swept EXCEPT ![tok] = Entry(verb, params)]

MintRefused == inner' = Swept

Bug_Remove(tok) == inner' = [inner EXCEPT ![tok] = IF Unexpired(@) THEN @ ELSE None]

\* Removed first, whatever comes of it; the age is looked at afterwards.
Remove(tok) == inner' = [inner EXCEPT ![tok] = None]

Accepted(tok) == tok \in Held /\ Unexpired(inner[tok])

=============================================================================

--------------------------- MODULE MCStreamingUrls ---------------------------
(* The instances of StreamingUrls that TLC explores. *)
EXTENDS StreamingUrls, TLC

\* Tokens, grants, callers and connections are interchangeable.
Symmetry ==
  Permutations(Tokens) \cup Permutations(Grants) \cup Permutations(Callers)
    \cup Permutations(Conns)
=============================================================================

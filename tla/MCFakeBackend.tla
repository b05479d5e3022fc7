--------------------------- MODULE MCFakeBackend ---------------------------
(* The instances of FakeBackend that TLC explores. *)
EXTENDS FakeBackendRefinement, TLC

\* Threads are interchangeable, and so are containers (not used with liveness).
Symmetry == Permutations(Containers) \cup Permutations(Threads)
=============================================================================

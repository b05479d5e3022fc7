----------------------------- MODULE MCImageStore -----------------------------
(* The instances of ImageStore that TLC explores. *)
EXTENDS ImageStore, TLC

\* Images, containers and threads are interchangeable.
Symmetry ==
  Permutations(Images) \cup Permutations(Containers) \cup Permutations(Threads)
=============================================================================

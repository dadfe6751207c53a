---------------------------- MODULE MCMemoryNode ----------------------------
(* Small instances of MemoryNode for TLC. *)
EXTENDS MemoryNode, TLC

\* Threads are interchangeable.
Symmetry == Permutations(Threads)
=============================================================================

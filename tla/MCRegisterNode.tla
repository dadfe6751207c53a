---------------------------- MODULE MCRegisterNode ----------------------------
(* Small instances of RegisterNode for TLC. *)
EXTENDS RegisterNode, TLC

\* Handles, threads and events are interchangeable (safety runs only).
Symmetry == Permutations(Handles) \cup Permutations(Threads)
                \cup Permutations(Bits)
===============================================================================

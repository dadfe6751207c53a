---------------------------- MODULE MCDmaTransfer ----------------------------
(* Small instances of DmaTransfer for TLC. *)
EXTENDS DmaRefinement, TLC

\* Clients, blocks and the data they hold are interchangeable (safety runs only).
Symmetry == Permutations(Clients) \cup Permutations(Addrs) \cup Permutations(Data)
=============================================================================

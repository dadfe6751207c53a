-------------------------- MODULE MCBoardLifecycle --------------------------
(* Small instances of BoardLifecycle for TLC. *)
EXTENDS BoardLifecycle, TLC

\* Boards and files are interchangeable (safety runs only).
Symmetry == Permutations(Devs) \cup Permutations(Files)

\* Every step of probe and of amc_pci_init may fail.
AllFaults == {Steps[i] : i \in DOMAIN Steps} \cup {"chrdev", "class", "driver"}

\* For the board numbers: handlers and sysfs reads only delay the teardown.
NoActivity == inIsr = {} /\ reading = {}
=============================================================================

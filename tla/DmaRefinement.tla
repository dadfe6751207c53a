---------------------------- MODULE DmaRefinement ----------------------------
(* DmaTransfer implements AtomicMemory. *)
EXTENDS DmaTransfer

\* No block is mistaken for the absence of an answer.
ASSUME ReplyAssumption ==
    None \notin Data \cup {Torn, "ok", "error", "unspecified"}

\* A write whose block was copied in only in part asks for a torn block.
CallOf(c) == IF c \in short THEN [req[c] EXCEPT !.data = Torn] ELSE req[c]

\* A call has its answer when it is about to unlock.
ReplyOf(c) ==
    CASE pc[c] # "unlock"                 -> None
      [] pc[c] = "unlock" /\ rc[c] # "ok" -> "error"
      [] OTHER -> IF req[c].dir = "DMA_TO_DEVICE" THEN "ok"
                  ELSE IF c \in clean THEN cpuBuf ELSE "unspecified"

Memory == INSTANCE AtomicMemory WITH
    call        <- [c \in Clients |-> CallOf(c)],
    reply       <- [c \in Clients |-> ReplyOf(c)],
    served      <- {c \in Clients : mutex = c},
    sure        <- clean,
    disturbed   <- kills > 0,
    Unspecified <- "unspecified"

\* The shared buffer, the engine, its interrupt and the lock together behave
\* as a memory whose calls take effect one at a time: a read changes nothing
\* and returns the block as it is, a write changes its own block only, and a
\* transfer left behind by SIGKILL never lands while a call is served that
\* found all quiet.
ImplementsMemory == Memory!Spec
=============================================================================

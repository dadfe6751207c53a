---------------------------- MODULE AtomicMemory ----------------------------
(***************************************************************************)
(* What the memory nodes of a board promise to the threads that call read  *)
(* and write on them: calls are served one at a time, a served read is     *)
(* answered with the block as it is at that moment, a served write stores  *)
(* its block and nothing else, and memory does not change otherwise.  A    *)
(* failed write may have stored its block or not.                          *)
(*                                                                         *)
(* SIGKILL weakens the promise: a transfer may be left behind, and stray   *)
(* stores may come from it, until a call is served that is sure again.     *)
(***************************************************************************)
CONSTANTS
    Clients,     \* threads
    Addrs,       \* blocks of FPGA memory
    Data,        \* contents of a block
    Requests,    \* calls: records with fields dir, addr and data
    Torn,        \* content of a block that was not copied in full
    None,        \* no call, no answer
    Unspecified  \* what a read returns that is not sure

VARIABLES
    mem,         \* contents of each block
    call,        \* each thread's call, or None
    reply,       \* its answer: "ok", "error" or a block; None before
    served,      \* the thread being served, as a set
    sure,        \* those of them that nothing left behind can disturb
    disturbed    \* whether SIGKILL has ended a call so far

vars == <<mem, call, reply, served, sure, disturbed>>

IsWrite(c) == call[c].dir = "DMA_TO_DEVICE"

Init ==
    /\ mem \in [Addrs -> Data]
    /\ call = [c \in Clients |-> None] /\ reply = [c \in Clients |-> None]
    /\ served = {} /\ sure = {} /\ disturbed = FALSE

Accept(c, r) ==
    /\ call[c] = None
    /\ call' = [call EXCEPT ![c] = r]
    /\ UNCHANGED <<mem, reply, served, sure, disturbed>>

\* Until a call is killed, every call that is served is sure.
Serve(c) ==
    /\ call[c] # None /\ served = {}
    /\ served' = {c}
    /\ sure' = {c} \/ (disturbed /\ sure' = {})
    /\ UNCHANGED <<mem, call, reply, disturbed>>

\* Only part of a write's block can be read from its caller.
Clip(c) ==
    /\ c \in served /\ IsWrite(c) /\ reply[c] = None
    /\ call' = [call EXCEPT ![c].data = Torn]
    /\ UNCHANGED <<mem, reply, served, sure, disturbed>>

Store(c) ==
    /\ c \in sure /\ IsWrite(c)
    /\ mem' = [mem EXCEPT ![call[c].addr] = call[c].data]
    /\ UNCHANGED <<call, reply, served, sure, disturbed>>

Stray ==
    /\ disturbed /\ sure = {}
    /\ \E a \in Addrs, d \in Data \cup {Torn} : mem' = [mem EXCEPT ![a] = d]
    /\ UNCHANGED <<call, reply, served, sure, disturbed>>

Succeed(c) ==
    /\ c \in served /\ reply[c] = None
    /\ \/ /\ IsWrite(c)
          /\ c \in sure => mem[call[c].addr] = call[c].data
          /\ reply' = [reply EXCEPT ![c] = "ok"]
       \/ /\ ~ IsWrite(c)
          /\ reply' = [reply EXCEPT ![c] =
                IF c \in sure THEN mem[call[c].addr] ELSE Unspecified]
    /\ UNCHANGED <<mem, call, served, sure, disturbed>>

Fail(c) ==
    /\ c \in served /\ reply[c] = None
    /\ reply' = [reply EXCEPT ![c] = "error"]
    /\ disturbed' \in {disturbed, TRUE}
    /\ UNCHANGED <<mem, call, served, sure>>

Return(c) ==
    /\ reply[c] # None
    /\ call' = [call EXCEPT ![c] = None]
    /\ reply' = [reply EXCEPT ![c] = None]
    /\ served' = served \ {c} /\ sure' = sure \ {c}
    /\ UNCHANGED <<mem, disturbed>>

Next ==
    \/ Stray
    \/ \E c \in Clients :
        \/ \E r \in Requests : Accept(c, r)
        \/ Serve(c) \/ Clip(c) \/ Store(c) \/ Succeed(c) \/ Fail(c) \/ Return(c)

Spec == Init /\ [][Next]_vars
=============================================================================

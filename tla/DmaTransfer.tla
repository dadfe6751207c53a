----------------------------- MODULE DmaTransfer -----------------------------
(***************************************************************************)
(* The DMA path of the driver: read() and write() on a memory node         *)
(* (memory.c) share one buffer, one Xilinx CDMA engine, one mutex and one  *)
(* completion (dma_control.c); the completion is signalled by the DMA half *)
(* of the interrupt handler (interrupts.c).                                *)
(*                                                                         *)
(* A transfer is abstracted to one block: an address of FPGA memory holds  *)
(* one datum, and so does the buffer.  Everything the control flow         *)
(* distinguishes is kept: the lock, the completion count, the status bits  *)
(* of the engine, the level-triggered interrupt and its acknowledgement,   *)
(* every early return, and the SIGKILL that ends a wait.                   *)
(*                                                                         *)
(* An operator whose name ends in _Mut is a deliberately wrong variant of  *)
(* the definition it precedes; no specification uses it.                   *)
(***************************************************************************)
EXTENDS Naturals

CONSTANTS
    Clients,      \* threads inside read() or write() of a memory node
    Addrs,        \* blocks of FPGA memory
    Data,         \* contents of a block
    Coherent,     \* TRUE: CPU and device share the buffer; FALSE: the
                  \* dma_sync calls copy between two views of it
    MaxKills,     \* bound: how many waits SIGKILL may end
    MaxTimeouts,  \* bound: how many resets may miss their 1 ms deadline
    Torn,         \* buffer content that is no caller's block
    None          \* no client, no transfer, no request

VARIABLES
    pc,         \* where each client is inside its system call
    req,        \* the call's arguments
    rc,         \* the code the call will return
    mutex,      \* struct dma_control.mutex: the holder or None
    dma_done,   \* struct dma_control.dma_done: the completion's count
    cpuBuf,     \* struct dma_control.buffer as the CPU sees it
    devBuf,     \* the same buffer as the engine sees it
    mem,        \* FPGA memory
    xfer,       \* the transfer the engine is working on, or None
    cdmasr,     \* the status bits that are set (not idle: xfer # None)
    cdmacr,     \* the control bits that are set
    isr,        \* the interrupt controller's isr register, bit 0 only
    isrPc,      \* where the interrupt handler is
    isrSaw,     \* the handler's local copy of cdmasr
    kills,      \* number of waits ended by SIGKILL so far
    timeouts,   \* number of missed reset deadlines so far
    short,      \* history: clients whose block was copied in only in part
    clean       \* history: clients that found all quiet when they locked

callVars   == <<pc, req, rc>>
lockVars   == <<mutex, clean>>
bufVars    == <<cpuBuf, devBuf, mem>>
engineVars == <<xfer, cdmasr, cdmacr>>
isrVars    == <<isr, isrPc, isrSaw>>
countVars  == <<kills, timeouts>>
vars == <<pc, req, rc, mutex, clean, dma_done, cpuBuf, devBuf, mem, xfer,
          cdmasr, cdmacr, isr, isrPc, isrSaw, kills, timeouts, short>>

\* CDMASR: "Irq" is IOC_Irq or Err_Irq, "Err" any of DMADecErr, DMASlvErr and
\* DMAIntErr.  CDMACR: "IrqEn" is IrqEn and Err_IrqEn.
StatusBits  == {"Irq", "Err"}
ControlBits == {"IrqEn", "Reset"}

\* The block a call wants moved; only a write carries data.  The FPGA address
\* is aligned or not: the file position and the PROM's base address decide.
WriteRequests == [dir : {"DMA_TO_DEVICE"}, addr : Addrs, data : Data,
                  fit : {"aligned", "misaligned"}]
ReadRequests  == [dir : {"DMA_FROM_DEVICE"}, addr : Addrs, data : {None},
                  fit : {"aligned", "misaligned"}]
Requests  == WriteRequests \cup ReadRequests
Transfers == [dir : {"DMA_TO_DEVICE", "DMA_FROM_DEVICE"}, addr : Addrs]

ASSUME DmaAssumption ==
    /\ None \notin Clients \cup Requests \cup Transfers
    /\ MaxKills \in Nat
    /\ MaxTimeouts \in Nat

ASSUME DataAssumption == Torn \notin Data /\ Coherent \in BOOLEAN

\* Labels at which a client holds the mutex.
Locked == {"copy_in", "hand_over", "configure", "reset", "reset_poll",
           "program", "wait", "check", "copy_out", "unlock"}
Labels == {"idle", "lock"} \cup Locked
Codes  == {"ok", "EFAULT", "EINVAL", "EIO", "ERESTARTSYS"}

\* Nothing of an earlier transfer is left: the engine is idle, its interrupt
\* is clear, and the handler is past complete() if it is running at all.
Quiet ==
    /\ xfer = None
    /\ "Irq" \notin cdmasr
    /\ isrPc \in {"idle", "ack"}
    /\ 0 \in isr => isrPc = "ack"

\* The state initialise_dma_control leaves behind.
Init ==
    /\ pc = [c \in Clients |-> "idle"]
    /\ req = [c \in Clients |-> None]
    /\ rc = [c \in Clients |-> "ok"]
    /\ mutex = None /\ dma_done = 0
    /\ cpuBuf = Torn /\ devBuf = Torn /\ mem \in [Addrs -> Data]
    /\ xfer = None /\ cdmasr = {} /\ cdmacr = {"IrqEn"}
    /\ isr = {} /\ isrPc = "idle" /\ isrSaw = {}
    /\ kills = 0 /\ timeouts = 0 /\ short = {} /\ clean = {}

-----------------------------------------------------------------------------
(* The system calls: memory.c and dma_control.c. *)

Goto(c, label) == pc' = [pc EXCEPT ![c] = label]

\* The error exits: remember the code, then unlock.
Fail(c, code) ==
    /\ Goto(c, "unlock")
    /\ rc' = [rc EXCEPT ![c] = code]

\* A read() or write() whose range checks passed (MemoryNode has them) is
\* about to take the lock.
amc_pci_dma_call(c, r) ==
    /\ pc[c] = "idle"
    /\ Goto(c, "lock")
    /\ req' = [req EXCEPT ![c] = r]
    /\ UNCHANGED <<rc, lockVars, dma_done, bufVars, engineVars, isrVars,
                   countVars, short>>

dma_memory_lock(c) ==
    /\ pc[c] = "lock"
    /\ mutex = None
    /\ mutex' = c
    /\ Goto(c, IF req[c].dir = "DMA_TO_DEVICE" THEN "copy_in" ELSE "hand_over")
    /\ clean' = IF Quiet THEN clean \cup {c} ELSE clean
    /\ UNCHANGED <<req, rc, dma_done, bufVars, engineVars, isrVars, countVars,
                   short>>

CpuWrites(d) ==
    /\ cpuBuf' = d
    /\ devBuf' = IF Coherent THEN d ELSE devBuf

\* write() fills the buffer; it gives up only if nothing at all was copied.
\* What a partial copy leaves, its rest zeroed by the kernel, is Torn.
copy_from_user(c) ==
    /\ pc[c] = "copy_in"
    /\ \/ /\ CpuWrites(req[c].data)
          /\ Goto(c, "hand_over")
          /\ UNCHANGED <<rc, short>>
       \/ /\ CpuWrites(Torn)
          /\ short' = short \cup {c}
          /\ Goto(c, "hand_over")
          /\ UNCHANGED rc
       \/ /\ Fail(c, "EFAULT")
          /\ UNCHANGED <<cpuBuf, devBuf, short>>
    /\ UNCHANGED <<req, lockVars, dma_done, mem, engineVars, isrVars,
                   countVars>>

\* Wrong: the buffer is not handed over to the engine.
dma_operation_unlocked_Mut(c) ==
    /\ pc[c] = "hand_over"
    /\ dma_done' = 0
    /\ Goto(c, "configure")
    /\ UNCHANGED <<req, rc, lockVars, bufVars, engineVars, isrVars, countVars,
                   short>>

\* dma_operation_unlocked up to the call of configure_dma_engine: the buffer
\* goes to the device and the completion is armed.
dma_operation_unlocked(c) ==
    /\ pc[c] = "hand_over"
    /\ devBuf' = IF req[c].dir = "DMA_TO_DEVICE" THEN cpuBuf ELSE devBuf
    /\ dma_done' = 0
    /\ Goto(c, "configure")
    /\ UNCHANGED <<req, rc, lockVars, cpuBuf, mem, engineVars, isrVars,
                   countVars, short>>

\* check_dma_status and maybe_reset_dma read the same three error bits.
StatusError == "Err" \in cdmasr

\* What CDMASR_Idle may read as: not idle during a transfer, idle otherwise,
\* and either of the two while a reset goes on.
IdleReads ==
    {idle \in BOOLEAN : /\ xfer # None => ~ idle
                       /\ xfer = None /\ "Reset" \notin cdmacr => idle}

\* An error bit is set, or the engine is not idle.
maybe_reset_dma(idle) == StatusError \/ ~ idle

configure_dma_engine(c) ==
    /\ pc[c] = "configure"
    /\ \/ /\ req[c].fit = "misaligned"
          /\ Fail(c, "EINVAL")
       \/ /\ req[c].fit = "aligned"
          /\ \E idle \in IdleReads :
                Goto(c, IF maybe_reset_dma(idle) THEN "reset" ELSE "program")
          /\ UNCHANGED rc
    /\ UNCHANGED <<req, lockVars, dma_done, bufVars, engineVars, isrVars,
                   countVars, short>>

\* Writing CDMACR_Reset alone also clears both interrupt enables.
reset_dma_controller(c) ==
    /\ pc[c] = "reset"
    /\ cdmacr' = {"Reset"}
    /\ Goto(c, "reset_poll")
    /\ UNCHANGED <<req, rc, lockVars, dma_done, bufVars, xfer, cdmasr,
                   isrVars, countVars, short>>

\* The polling loop sees the reset finished and restores the enables ...
reset_finished(c) ==
    /\ pc[c] = "reset_poll"
    /\ "Reset" \notin cdmacr
    /\ cdmacr' = {"IrqEn"}
    /\ isr' = IF "Irq" \in cdmasr THEN {0} ELSE isr
    /\ Goto(c, "program")
    /\ UNCHANGED <<req, rc, lockVars, dma_done, bufVars, xfer, cdmasr,
                   isrPc, isrSaw, countVars, short>>

\* ... or passes its deadline first, and returns without restoring them.
reset_deadline(c) ==
    /\ pc[c] = "reset_poll"
    /\ "Reset" \in cdmacr
    /\ timeouts < MaxTimeouts
    /\ timeouts' = timeouts + 1
    /\ Fail(c, "EIO")
    /\ UNCHANGED <<req, lockVars, dma_done, bufVars, engineVars, isrVars,
                   kills, short>>

\* Wrong: source and destination are not exchanged for a read.
program_engine_Mut(c) ==
    /\ pc[c] = "program"
    /\ xfer' = [dir |-> "DMA_TO_DEVICE", addr |-> req[c].addr]
    /\ Goto(c, "wait")
    /\ UNCHANGED <<req, rc, lockVars, dma_done, bufVars, cdmasr, cdmacr,
                   isrVars, countVars, short>>

\* The address registers are written, and btt last, which starts the engine.
program_engine(c) ==
    /\ pc[c] = "program"
    /\ xfer' = [dir |-> req[c].dir, addr |-> req[c].addr]
    /\ Goto(c, "wait")
    /\ UNCHANGED <<req, rc, lockVars, dma_done, bufVars, cdmasr, cdmacr,
                   isrVars, countVars, short>>

\* Wrong: the wait returns without a completion.
wait_for_completion_Mut(c) ==
    /\ pc[c] = "wait"
    /\ dma_done' = dma_done - 1
    /\ Goto(c, "check")
    /\ UNCHANGED <<req, rc, lockVars, bufVars, engineVars, isrVars, countVars,
                   short>>

wait_for_completion(c) ==
    /\ pc[c] = "wait"
    /\ dma_done > 0
    /\ dma_done' = dma_done - 1
    /\ Goto(c, "check")
    /\ UNCHANGED <<req, rc, lockVars, bufVars, engineVars, isrVars, countVars,
                   short>>

\* Wrong: the wait gives up on any signal, not on SIGKILL only.
killed_Mut(c) ==
    /\ pc[c] = "wait"
    /\ dma_done = 0
    /\ kills' \in {k \in {kills, kills + 1} : k <= MaxKills}
    /\ Fail(c, "ERESTARTSYS")
    /\ UNCHANGED <<req, lockVars, dma_done, bufVars, engineVars, isrVars,
                   timeouts, short>>

\* SIGKILL ends the wait; the transfer goes on.
killed(c) ==
    /\ pc[c] = "wait"
    /\ dma_done = 0
    /\ kills < MaxKills
    /\ kills' = kills + 1
    /\ Fail(c, "ERESTARTSYS")
    /\ UNCHANGED <<req, lockVars, dma_done, bufVars, engineVars, isrVars,
                   timeouts, short>>

\* Wrong: the buffer is not handed back to the CPU.
check_dma_status_Mut(c) ==
    /\ pc[c] = "check"
    /\ \/ /\ StatusError
          /\ Fail(c, "EIO")
       \/ /\ ~ StatusError
          /\ Goto(c, IF req[c].dir = "DMA_FROM_DEVICE"
                     THEN "copy_out" ELSE "unlock")
          /\ UNCHANGED rc
    /\ UNCHANGED <<req, lockVars, dma_done, bufVars, engineVars, isrVars,
                   countVars, short>>

\* The buffer goes back to the CPU, then the status register is read.
check_dma_status(c) ==
    /\ pc[c] = "check"
    /\ cpuBuf' = IF req[c].dir = "DMA_FROM_DEVICE" THEN devBuf ELSE cpuBuf
    /\ \/ /\ StatusError
          /\ Fail(c, "EIO")
       \/ /\ ~ StatusError
          /\ Goto(c, IF req[c].dir = "DMA_FROM_DEVICE"
                     THEN "copy_out" ELSE "unlock")
          /\ UNCHANGED rc
    /\ UNCHANGED <<req, lockVars, dma_done, devBuf, mem, engineVars, isrVars,
                   countVars, short>>

\* read() hands cpuBuf to the user; a short copy only shortens the result.
copy_to_user(c) ==
    /\ pc[c] = "copy_out"
    /\ \/ Goto(c, "unlock") /\ UNCHANGED rc
       \/ Fail(c, "EFAULT")
    /\ UNCHANGED <<req, lockVars, dma_done, bufVars, engineVars, isrVars,
                   countVars, short>>

\* Wrong: the error exits return without unlocking.
dma_memory_unlock_Mut(c) ==
    /\ pc[c] = "unlock"
    /\ mutex' = IF rc[c] = "ok" THEN None ELSE mutex
    /\ Goto(c, "idle")
    /\ req' = [req EXCEPT ![c] = None]
    /\ rc' = [rc EXCEPT ![c] = "ok"]
    /\ clean' = clean \ {c}
    /\ short' = short \ {c}
    /\ UNCHANGED <<dma_done, bufVars, engineVars, isrVars, countVars>>

\* Both exits of read() and write(): unlock and return.
dma_memory_unlock(c) ==
    /\ pc[c] = "unlock"
    /\ mutex' = None
    /\ Goto(c, "idle")
    /\ req' = [req EXCEPT ![c] = None]
    /\ rc' = [rc EXCEPT ![c] = "ok"]
    /\ clean' = clean \ {c}
    /\ short' = short \ {c}
    /\ UNCHANGED <<dma_done, bufVars, engineVars, isrVars, countVars>>

-----------------------------------------------------------------------------
(* The DMA half of amc_pci_isr.  The kernel never runs it twice at once. *)

\* The handler starts, reads isr and finds bit 0 set.
amc_pci_isr ==
    /\ isrPc = "idle"
    /\ 0 \in isr
    /\ isrPc' = "status"
    /\ UNCHANGED <<callVars, lockVars, dma_done, bufVars, engineVars, isr,
                   isrSaw, countVars, short>>

dma_interrupt_read ==
    /\ isrPc = "status"
    /\ isrPc' = "clear"
    /\ isrSaw' = cdmasr
    /\ UNCHANGED <<callVars, lockVars, dma_done, bufVars, engineVars, isr,
                   countVars, short>>

\* Writing the status back clears the interrupt bits that were read as set.
dma_interrupt_clear ==
    /\ isrPc = "clear"
    /\ isrPc' = "complete"
    /\ cdmasr' = cdmasr \ (isrSaw \cap {"Irq"})
    /\ isrSaw' = {}
    /\ UNCHANGED <<callVars, lockVars, dma_done, bufVars, xfer, cdmacr, isr,
                   countVars, short>>

\* Wrong: the waiter is not told of a transfer that ended with an error.
dma_interrupt_complete_Mut ==
    /\ isrPc = "complete"
    /\ isrPc' = "ack"
    /\ dma_done' = IF StatusError THEN dma_done ELSE dma_done + 1
    /\ UNCHANGED <<callVars, lockVars, bufVars, engineVars, isr, isrSaw,
                   countVars, short>>

dma_interrupt_complete ==
    /\ isrPc = "complete"
    /\ isrPc' = "ack"
    /\ dma_done' = dma_done + 1
    /\ UNCHANGED <<callVars, lockVars, bufVars, engineVars, isr, isrSaw,
                   countVars, short>>

\* Writing iar clears bit 0, which is level-triggered: it is set again at
\* once if the engine's line is still high.
amc_pci_isr_ack ==
    /\ isrPc = "ack"
    /\ isrPc' = "idle"
    /\ isr' = IF "Irq" \in cdmasr /\ "IrqEn" \in cdmacr THEN {0} ELSE {}
    /\ UNCHANGED <<callVars, lockVars, dma_done, bufVars, engineVars, isrSaw,
                   countVars, short>>

-----------------------------------------------------------------------------
(* The CDMA engine (external: Xilinx PG034, as dma_control.c uses it). *)

MoveBlock ==
    \/ /\ xfer.dir = "DMA_FROM_DEVICE"
       /\ devBuf' = mem[xfer.addr]
       /\ cpuBuf' = IF Coherent THEN mem[xfer.addr] ELSE cpuBuf
       /\ UNCHANGED mem
    \/ /\ xfer.dir = "DMA_TO_DEVICE"
       /\ mem' = [mem EXCEPT ![xfer.addr] = devBuf]
       /\ UNCHANGED <<cpuBuf, devBuf>>

\* Idle again, with the interrupt raised if it is enabled.
EndTransfer(status) ==
    /\ xfer # None
    /\ "Reset" \notin cdmacr
    /\ xfer' = None
    /\ cdmasr' = cdmasr \cup status
    /\ isr' = IF "IrqEn" \in cdmacr THEN {0} ELSE isr
    /\ UNCHANGED <<callVars, lockVars, dma_done, cdmacr, isrPc, isrSaw,
                   countVars, short>>

cdma_complete == EndTransfer({"Irq"}) /\ MoveBlock

\* A decode, slave or internal error: the block may or may not have moved.
cdma_error == EndTransfer({"Irq", "Err"}) /\ (MoveBlock \/ UNCHANGED bufVars)

\* A soft reset is graceful: committed bus transfers still complete.
cdma_reset_done ==
    /\ "Reset" \in cdmacr
    /\ cdmacr' = cdmacr \ {"Reset"}
    /\ xfer' = None
    /\ cdmasr' = {}
    /\ \/ xfer # None /\ MoveBlock
       \/ UNCHANGED bufVars
    /\ UNCHANGED <<callVars, lockVars, dma_done, isrVars, countVars, short>>

-----------------------------------------------------------------------------
\* A call past its entry runs on by itself, except for the lock, the reset's
\* deadline and SIGKILL.
ClientStep(c) ==
    \/ copy_from_user(c)
    \/ dma_operation_unlocked(c)
    \/ configure_dma_engine(c)
    \/ reset_dma_controller(c)
    \/ reset_finished(c)
    \/ program_engine(c)
    \/ wait_for_completion(c)
    \/ check_dma_status(c)
    \/ copy_to_user(c)
    \/ dma_memory_unlock(c)

Isr ==
    \/ amc_pci_isr
    \/ dma_interrupt_read
    \/ dma_interrupt_clear
    \/ dma_interrupt_complete
    \/ amc_pci_isr_ack

Engine == cdma_complete \/ cdma_error \/ cdma_reset_done

Next ==
    \/ \E c \in Clients :
        \/ \E r \in Requests : amc_pci_dma_call(c, r)
        \/ dma_memory_lock(c)
        \/ ClientStep(c)
        \/ reset_deadline(c)
        \/ killed(c)
    \/ Isr
    \/ Engine

Spec == Init /\ [][Next]_vars

\* The kernel schedules a runnable thread and a raised interrupt, the engine
\* ends what it starts, and a mutex is handed over in queue order, so a
\* waiter gets it if it is freed again and again.
Fairness ==
    /\ WF_vars(Isr)
    /\ WF_vars(Engine)
    /\ \A c \in Clients :
        /\ WF_vars(ClientStep(c))
        /\ SF_vars(dma_memory_lock(c))

FairSpec == Spec /\ Fairness

-----------------------------------------------------------------------------
(* Properties. *)

\* Every variable keeps its type; the completion's count never goes negative.
TypeOK ==
    /\ pc \in [Clients -> Labels]
    /\ req \in [Clients -> Requests \cup {None}]
    /\ rc \in [Clients -> Codes]
    /\ mutex \in Clients \cup {None}
    /\ dma_done \in Nat
    /\ cpuBuf \in Data \cup {Torn} /\ devBuf \in Data \cup {Torn}
    /\ mem \in [Addrs -> Data \cup {Torn}]
    /\ xfer \in Transfers \cup {None}
    /\ cdmasr \subseteq StatusBits /\ cdmacr \subseteq ControlBits
    /\ isr \subseteq {0} /\ isrSaw \subseteq StatusBits
    /\ isrPc \in {"idle", "status", "clear", "complete", "ack"}
    /\ kills \in 0..MaxKills /\ timeouts \in 0..MaxTimeouts
    /\ short \subseteq Clients /\ clean \subseteq Clients

\* What amc_pci_dma_read is about to give to the user is the block it asked
\* for, provided nothing of a killed call's transfer was left when it took
\* the mutex.
ReadIntegrity ==
    \A c \in Clients :
        pc[c] = "copy_out" /\ c \in clean => cpuBuf = mem[req[c].addr]

\* When amc_pci_dma_write reports success the whole of the user's block is in
\* FPGA memory, if it was copied from user space in full and nothing of a
\* killed call's transfer was left when it took the mutex.
WriteIntegrity ==
    \A c \in Clients :
        /\ pc[c] = "unlock" /\ rc[c] = "ok" /\ c \in clean \ short
        /\ req[c].dir = "DMA_TO_DEVICE"
        => mem[req[c].addr] = req[c].data

\* Only SIGKILL leaves a transfer behind for the next holder of the mutex:
\* until a wait is killed every call finds the engine, its interrupt and the
\* handler quiet, whatever errors and missed deadlines came before.
QuietUnlessKilled == kills = 0 /\ mutex # None => mutex \in clean

\* A client that waits is owed a complete(): with the engine's interrupt
\* enabled, its transfer is running, its interrupt is latched, or the handler
\* has not called complete() yet, even if earlier calls were killed.
NoLostCompletion ==
    \A c \in Clients :
        pc[c] = "wait" /\ dma_done = 0 /\ "IrqEn" \in cdmacr =>
            \/ xfer # None
            \/ 0 \in isr
            \/ isrPc \in {"status", "clear", "complete"}

\* Every read() and write() returns.
EveryCallReturns ==
    \A c \in Clients : pc[c] = "lock" ~> pc[c] = "idle"

\* "We use a deadline just in case something goes wrong so we don't deadlock"
\* (dma_control.c): no call waits for ever, also after a missed deadline.
DeadlineAvoidsDeadlock ==
    \A c \in Clients : pc[c] = "lock" ~> pc[c] = "idle"

\* "This is called to read the specified block from FPGA memory into the DMA
\* buffer" (dma_control.h): whenever dma_operation_unlocked succeeds for a
\* read, the buffer holds the block it was asked for.
ReadsSpecifiedBlock ==
    \A c \in Clients : pc[c] = "copy_out" => cpuBuf = mem[req[c].addr]
=============================================================================

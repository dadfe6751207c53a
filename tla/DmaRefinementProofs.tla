------------------------- MODULE DmaRefinementProofs -------------------------
(***************************************************************************)
(* DmaTransfer implements AtomicMemory, for any number of clients, blocks, *)
(* kills and missed deadlines.  Each step of a call, of the interrupt      *)
(* handler and of the engine is shown to be a step of the atomic memory or *)
(* to leave it unchanged, by the invariant of DmaTransferProofs.           *)
(***************************************************************************)
EXTENDS DmaRefinement, DmaTransferProofs

\* What the atomic memory sees of a step that serves nobody: nothing.
LEMMA Stutter ==
    ASSUME \A c \in Clients : UNCHANGED <<CallOf(c), ReplyOf(c)>>,
           UNCHANGED <<mem, mutex, clean, kills>>
    PROVE  UNCHANGED Memory!vars
BY DEF Memory!vars

\* The state initialise_dma_control leaves is one of a memory without calls.
LEMMA InitRefines == Init => Memory!Init
BY DmaAssumption DEF Init, Memory!Init, CallOf, ReplyOf

\* The steps of a call before its answer is known do not show.
LEMMA QuietSteps ==
    ASSUME IInv, NEW d \in Clients,
           \/ dma_operation_unlocked(d)
           \/ reset_dma_controller(d)
           \/ reset_finished(d)
           \/ program_engine(d)
           \/ wait_for_completion(d)
    PROVE  UNCHANGED Memory!vars
<1> USE DEF IInv, TypeOK, LockInv, Locked, Goto, callVars, lockVars, bufVars,
        engineVars, isrVars, countVars, dma_operation_unlocked,
        reset_dma_controller, reset_finished, program_engine,
        wait_for_completion
<1>1. UNCHANGED <<mem, mutex, clean, kills, req, rc, cpuBuf, short>>
  OBVIOUS
<1>2. \A c \in Clients : pc'[c] = "unlock" <=> pc[c] = "unlock"
  OBVIOUS
<1>3. \A c \in Clients : UNCHANGED <<CallOf(c), ReplyOf(c)>>
  BY <1>1, <1>2 DEF CallOf, ReplyOf
<1> QED
  BY <1>1, <1>3, Stutter

\* Nor do those of the interrupt handler.
LEMMA IsrRefines == Isr => UNCHANGED Memory!vars
<1> SUFFICES ASSUME Isr PROVE UNCHANGED Memory!vars
  OBVIOUS
<1>1. UNCHANGED <<mem, mutex, clean, kills, pc, req, rc, cpuBuf, short>>
  BY DEF Isr, amc_pci_isr, dma_interrupt_read, dma_interrupt_clear,
     dma_interrupt_complete, amc_pci_isr_ack, callVars, lockVars, bufVars,
     countVars
<1>2. \A c \in Clients : UNCHANGED <<CallOf(c), ReplyOf(c)>>
  BY <1>1 DEF CallOf, ReplyOf
<1> QED
  BY <1>1, <1>2, Stutter

\* When the engine stores a block it is the block of the call being served,
\* if that call is sure; otherwise some wait was killed before.
LEMMA EngineStores ==
    ASSUME IInv, xfer # None
    PROVE  /\ clean = {} => kills > 0
           /\ \A c \in clean :
                /\ pc[c] = "wait" \/ (pc[c] = "unlock" /\ rc[c] = "ERESTARTSYS")
                /\ OwnTransfer(c)
<1>1. clean = {} => kills > 0
  BY DEF IInv, TypeOK, NoKillInv, Quiet
<1>2. ASSUME NEW c \in clean
      PROVE  /\ pc[c] = "wait" \/ (pc[c] = "unlock" /\ rc[c] = "ERESTARTSYS")
             /\ OwnTransfer(c)
  BY <1>2 DEF IInv, TypeOK, LockInv, Locked, CleanInv, CleanCall, Quiet,
     Running, Raised, Cleared, Completed, Lost
<1> QED
  BY <1>1, <1>2

\* The end of a transfer, successful or not, early by a reset or not, is a
\* store of the call that asked for it, a stray store, or does not show.
LEMMA EngineRefines ==
    ASSUME IInv, Engine
    PROVE  [Memory!Next]_(Memory!vars)
<1> USE DEF IInv, TypeOK, LockInv, Locked, callVars, lockVars, bufVars,
        engineVars, isrVars, countVars, CallOf, ReplyOf
<1>1. UNCHANGED <<mutex, clean, kills, pc, req, rc, short>>
  BY DEF Engine, cdma_complete, cdma_error, cdma_reset_done, EndTransfer
<1>2. \/ UNCHANGED <<mem, cpuBuf>>
      \/ xfer # None /\ MoveBlock
  BY DEF Engine, cdma_complete, cdma_error, cdma_reset_done, EndTransfer
<1>3. CASE UNCHANGED <<mem, cpuBuf>>
  <2>1. \A c \in Clients : UNCHANGED <<CallOf(c), ReplyOf(c)>>
    BY <1>1, <1>3
  <2> QED
    BY <1>1, <1>3, <2>1, Stutter
<1>4. CASE xfer # None /\ MoveBlock
  <2>1. \A c \in Clients : UNCHANGED <<CallOf(c), ReplyOf(c)>>
    BY <1>1, <1>4, EngineStores
  <2>2. CASE UNCHANGED mem
    BY <1>1, <2>1, <2>2, Stutter
  <2>3. CASE xfer.dir = "DMA_TO_DEVICE" /\ mem' = [mem EXCEPT ![xfer.addr] = devBuf]
    <3>1. UNCHANGED <<[c \in Clients |-> CallOf(c)],
                      [c \in Clients |-> ReplyOf(c)],
                      {c \in Clients : mutex = c}, clean, kills > 0>>
      BY <1>1, <2>1
    <3>2. CASE clean = {}
      <4>1. Memory!Stray
        BY <1>4, <2>3, <3>1, <3>2, EngineStores DEF Memory!Stray, Transfers
      <4> QED
        BY <4>1 DEF Memory!Next
    <3>3. ASSUME NEW c \in clean PROVE Memory!Next
      <4>1. OwnTransfer(c) /\ c \in Clients /\ pc[c] # "idle"
        BY <1>4, <3>3, EngineStores
      <4>2. req[c] \in Requests /\ xfer.addr = req[c].addr
            /\ req[c].dir = "DMA_TO_DEVICE"
        BY <2>3, <4>1 DEF OwnTransfer
      <4>3. CallOf(c).dir = "DMA_TO_DEVICE" /\ CallOf(c).addr = req[c].addr
            /\ CallOf(c).data = devBuf
        BY <4>1, <4>2 DEF OwnTransfer, Block, Requests, WriteRequests,
           ReadRequests
      <4>4. Memory!Store(c)
        BY <2>3, <3>1, <3>3, <4>1, <4>2, <4>3 DEF Memory!Store, Memory!IsWrite
      <4> QED
        BY <4>1, <4>4 DEF Memory!Next
    <3> QED
      BY <3>2, <3>3
  <2> QED
    BY <1>4, <2>2, <2>3 DEF MoveBlock
<1> QED
  BY <1>2, <1>3, <1>4

\* While a call holds or takes the mutex nobody else is about to unlock: the
\* other calls and their answers stay as they are.
LEMMA OthersUnseen ==
    ASSUME IInv, NEW d \in Clients, mutex \in {None, d},
           \A c \in Clients \ {d} : /\ UNCHANGED <<pc[c], req[c]>>
                                    /\ c \in short' <=> c \in short
    PROVE  \A c \in Clients \ {d} : UNCHANGED <<CallOf(c), ReplyOf(c)>>
BY DmaAssumption DEF IInv, LockInv, Locked, CallOf, ReplyOf

\* The error exits of read() and write() answer the call with an error.
LEMMA FailRefines ==
    ASSUME IInv, NEW d \in Clients, NEW code \in Codes \ {"ok"},
           pc[d] \in Locked \ {"unlock"}, Fail(d, code),
           UNCHANGED <<req, short, mem, mutex, clean>>,
           kills' \in {kills, kills + 1}
    PROVE  Memory!Next
<1> USE DEF IInv, TypeOK, LockInv, Locked, Fail, Goto
<1>1. mutex = d /\ pc'[d] = "unlock" /\ rc'[d] = code
  OBVIOUS
<1>2. \A c \in Clients \ {d} : UNCHANGED <<CallOf(c), ReplyOf(c)>>
  BY <1>1, OthersUnseen
<1>3. UNCHANGED CallOf(d) /\ ReplyOf(d) = None /\ ReplyOf(d)' = "error"
  BY <1>1 DEF CallOf, ReplyOf
<1>4. (kills > 0)' \in {kills > 0, TRUE}
  <2>1. kills' = kills \/ kills' > 0
    BY DmaAssumption
  <2>2. CASE kills' = kills
    BY <2>2, Zenon
  <2>3. CASE kills' > 0
    BY <2>3, Zenon
  <2> QED
    BY <2>1, <2>2, <2>3, Zenon
<1>5. Memory!Fail(d)
  BY <1>1, <1>2, <1>3, <1>4 DEF Memory!Fail
<1> QED
  BY <1>5 DEF Memory!Next

\* A call that enters the driver.
LEMMA CallRefines ==
    ASSUME IInv, NEW d \in Clients, NEW r \in Requests,
           amc_pci_dma_call(d, r)
    PROVE  Memory!Next
<1> USE DEF IInv, TypeOK, LockInv, Locked, Goto, amc_pci_dma_call, lockVars,
        bufVars, countVars, CallOf, ReplyOf
<1>1. \A c \in Clients \ {d} : UNCHANGED <<CallOf(c), ReplyOf(c)>>
  OBVIOUS
<1>2. CallOf(d) = None /\ CallOf(d)' = r /\ UNCHANGED ReplyOf(d)
  BY DmaAssumption
<1>3. Memory!Accept(d, r)
  BY <1>1, <1>2 DEF Memory!Accept
<1> QED
  BY <1>3 DEF Memory!Next

\* dma_memory_lock starts to serve the call, surely so if all was quiet.
LEMMA LockRefines ==
    ASSUME IInv, NEW d \in Clients, dma_memory_lock(d)
    PROVE  Memory!Next
<1> USE DEF IInv, TypeOK, LockInv, Locked, Goto, dma_memory_lock, lockVars,
        bufVars, countVars
<1>1. mutex = None /\ clean = {} /\ mutex' = d
  BY DmaAssumption
<1>2. \A c \in Clients \ {d} : UNCHANGED <<CallOf(c), ReplyOf(c)>>
  BY <1>1, OthersUnseen
<1>3. CallOf(d) # None /\ UNCHANGED <<CallOf(d), ReplyOf(d)>>
  BY DmaAssumption, <1>1 DEF CallOf, ReplyOf
<1>4. clean' = {d} \/ (kills > 0 /\ clean' = {})
  BY <1>1 DEF NoKillInv
<1>5. {c \in Clients : mutex = c} = {} /\ {c \in Clients : mutex = c}' = {d}
  BY DmaAssumption, <1>1
<1>6. Memory!Serve(d)
  BY <1>2, <1>3, <1>4, <1>5 DEF Memory!Serve
<1> QED
  BY <1>6 DEF Memory!Next

\* write() copies its block in full, in part, or not at all.
LEMMA CopyInRefines ==
    ASSUME IInv, NEW d \in Clients, copy_from_user(d)
    PROVE  [Memory!Next]_(Memory!vars)
<1> USE DEF IInv, TypeOK, LockInv, Locked, Goto, lockVars, countVars
<1>1. mutex = d /\ req[d] \in Requests /\ req[d].dir = "DMA_TO_DEVICE"
      /\ d \notin short
  BY DEF copy_from_user
<1>2. UNCHANGED <<mem, mutex, clean, kills, req>>
  BY DEF copy_from_user
<1>3. CASE Goto(d, "hand_over") /\ UNCHANGED short
  <2>1. \A c \in Clients \ {d} : UNCHANGED <<CallOf(c), ReplyOf(c)>>
    BY <1>1, <1>2, <1>3, OthersUnseen
  <2>2. UNCHANGED <<CallOf(d), ReplyOf(d)>>
    BY <1>2, <1>3 DEF CallOf, ReplyOf, copy_from_user
  <2> QED
    BY <1>2, <2>1, <2>2, Stutter
<1>4. CASE Goto(d, "hand_over") /\ short' = short \cup {d}
  <2>1. \A c \in Clients \ {d} : UNCHANGED <<CallOf(c), ReplyOf(c)>>
    BY <1>1, <1>2, <1>4, OthersUnseen
  <2>2. /\ CallOf(d) = req[d] /\ CallOf(d)' = [req[d] EXCEPT !.data = Torn]
        /\ ReplyOf(d) = None /\ ReplyOf(d)' = None
    BY <1>1, <1>2, <1>4 DEF CallOf, ReplyOf, copy_from_user
  <2>3. [c \in Clients |-> CallOf(c)]' =
            [[c \in Clients |-> CallOf(c)] EXCEPT ![d].data = Torn]
    BY <2>1, <2>2
  <2>4. UNCHANGED [c \in Clients |-> ReplyOf(c)]
    BY <2>1, <2>2
  <2>5. Memory!Clip(d)
    BY <1>1, <1>2, <2>2, <2>3, <2>4 DEF Memory!Clip, Memory!IsWrite
  <2> QED
    BY <2>5 DEF Memory!Next
<1>5. CASE Fail(d, "EFAULT") /\ UNCHANGED short
  BY <1>2, <1>5, FailRefines DEF copy_from_user, Codes
<1> QED
  BY <1>3, <1>4, <1>5 DEF copy_from_user

\* A misaligned address is refused; otherwise nothing shows yet.
LEMMA ConfigureRefines ==
    ASSUME IInv, NEW d \in Clients, configure_dma_engine(d)
    PROVE  [Memory!Next]_(Memory!vars)
<1> USE DEF IInv, TypeOK, LockInv, Locked, Goto, lockVars, bufVars, countVars,
        configure_dma_engine
<1>1. UNCHANGED <<mem, mutex, clean, kills, req, short, cpuBuf>>
  OBVIOUS
<1>2. CASE Fail(d, "EINVAL")
  BY <1>1, <1>2, FailRefines DEF Codes
<1>3. CASE UNCHANGED rc /\ \E l \in {"reset", "program"} : Goto(d, l)
  <2>1. \A c \in Clients : UNCHANGED <<CallOf(c), ReplyOf(c)>>
    BY <1>1, <1>3 DEF CallOf, ReplyOf
  <2> QED
    BY <1>1, <2>1, Stutter
<1> QED
  BY <1>2, <1>3

\* A missed deadline and a SIGKILL answer with an error; the transfer that a
\* killed call leaves behind disturbs the memory from now on.
LEMMA GiveUpRefines ==
    ASSUME IInv, NEW d \in Clients, reset_deadline(d) \/ killed(d)
    PROVE  Memory!Next
<1> USE DEF IInv, TypeOK, LockInv, Locked, lockVars, bufVars, countVars
<1>1. CASE reset_deadline(d)
  BY <1>1, FailRefines DEF reset_deadline, Codes
<1>2. CASE killed(d)
  BY <1>2, FailRefines DEF killed, Codes
<1> QED
  BY <1>1, <1>2

\* The status register decides: an error, the success of a write whose block
\* is in memory, or a read whose block is in the buffer.
LEMMA CheckRefines ==
    ASSUME IInv, NEW d \in Clients, check_dma_status(d)
    PROVE  [Memory!Next]_(Memory!vars)
<1> USE DEF IInv, TypeOK, LockInv, Locked, Goto, lockVars, bufVars, countVars,
        check_dma_status
<1>1. UNCHANGED <<mem, mutex, clean, kills, req, short>>
  OBVIOUS
<1>2. mutex = d /\ req[d] \in Requests /\ rc[d] = "ok" /\ pc[d] = "check"
  OBVIOUS
<1>3. CASE Fail(d, "EIO")
  BY <1>1, <1>3, FailRefines DEF Codes
<1>4. CASE /\ ~ StatusError /\ req[d].dir = "DMA_FROM_DEVICE"
           /\ Goto(d, "copy_out") /\ UNCHANGED rc
  <2>1. \A c \in Clients \ {d} : UNCHANGED <<CallOf(c), ReplyOf(c)>>
    BY <1>1, <1>2, <1>4, OthersUnseen
  <2>2. UNCHANGED <<CallOf(d), ReplyOf(d)>>
    BY <1>1, <1>4 DEF CallOf, ReplyOf
  <2> QED
    BY <1>1, <2>1, <2>2, Stutter
<1>5. CASE /\ ~ StatusError /\ req[d].dir # "DMA_FROM_DEVICE"
           /\ Goto(d, "unlock") /\ UNCHANGED rc
  <2>1. \A c \in Clients \ {d} : UNCHANGED <<CallOf(c), ReplyOf(c)>>
    BY <1>1, <1>2, <1>5, OthersUnseen
  <2>2. /\ UNCHANGED CallOf(d)
        /\ CallOf(d).dir = "DMA_TO_DEVICE" /\ CallOf(d).addr = req[d].addr
        /\ CallOf(d).data = Block(d)
    BY <1>1, <1>2, <1>5 DEF CallOf, Block, Requests, WriteRequests,
       ReadRequests
  <2>3. ReplyOf(d) = None /\ ReplyOf(d)' = "ok"
    BY <1>1, <1>2, <1>5, <2>2 DEF ReplyOf, Requests, WriteRequests,
       ReadRequests
  <2>4. d \in clean => mem[req[d].addr] = Block(d)
    BY <1>2, <1>5, <2>2 DEF CleanInv, CleanCall, Moved, StatusError, Requests,
       WriteRequests, ReadRequests
  <2>5. Memory!Succeed(d)
    BY <1>1, <1>2, <2>1, <2>2, <2>3, <2>4 DEF Memory!Succeed, Memory!IsWrite
  <2> QED
    BY <2>5 DEF Memory!Next
<1> QED
  BY <1>3, <1>4, <1>5

\* read() gives its user what the buffer holds, or nothing.
LEMMA CopyOutRefines ==
    ASSUME IInv, NEW d \in Clients, copy_to_user(d)
    PROVE  Memory!Next
<1> USE DEF IInv, TypeOK, LockInv, Locked, Goto, lockVars, bufVars, countVars,
        copy_to_user
<1>1. UNCHANGED <<mem, mutex, clean, kills, req, short, cpuBuf>>
  OBVIOUS
<1>2. /\ mutex = d /\ req[d] \in Requests /\ rc[d] = "ok"
      /\ pc[d] = "copy_out" /\ req[d].dir = "DMA_FROM_DEVICE"
      /\ d \notin short
  OBVIOUS
<1>3. CASE Fail(d, "EFAULT")
  BY <1>1, <1>2, <1>3, FailRefines DEF Codes
<1>4. CASE Goto(d, "unlock") /\ UNCHANGED rc
  <2>1. \A c \in Clients \ {d} : UNCHANGED <<CallOf(c), ReplyOf(c)>>
    BY <1>1, <1>2, <1>4, OthersUnseen
  <2>2. CallOf(d) = req[d] /\ CallOf(d)' = req[d]
    BY <1>1, <1>2 DEF CallOf
  <2>3. /\ ReplyOf(d) = None
        /\ ReplyOf(d)' = IF d \in clean THEN cpuBuf ELSE "unspecified"
    BY <1>1, <1>2, <1>4 DEF ReplyOf
  <2>4. d \in clean => cpuBuf = mem[req[d].addr]
    BY <1>2 DEF CleanInv, CleanCall
  <2>5. UNCHANGED [c \in Clients |-> CallOf(c)]
    BY <2>1, <2>2
  <2>6. [c \in Clients |-> ReplyOf(c)]' =
            [[c \in Clients |-> ReplyOf(c)] EXCEPT ![d] =
                IF d \in clean THEN mem[CallOf(d).addr] ELSE "unspecified"]
    BY <2>1, <2>2, <2>3, <2>4
  <2>7. Memory!Succeed(d)
    BY <1>1, <1>2, <2>2, <2>3, <2>5, <2>6 DEF Memory!Succeed, Memory!IsWrite
  <2> QED
    BY <2>7 DEF Memory!Next
<1> QED
  BY <1>3, <1>4

\* The call returns with the answer it has.
LEMMA UnlockRefines ==
    ASSUME IInv, NEW d \in Clients, dma_memory_unlock(d)
    PROVE  Memory!Next
<1> USE DEF IInv, TypeOK, LockInv, Locked, Goto, lockVars, bufVars, countVars,
        dma_memory_unlock
<1>1. mutex = d /\ mutex' = None /\ clean' = clean \ {d}
      /\ UNCHANGED <<mem, kills>>
  OBVIOUS
<1>2. \A c \in Clients \ {d} : UNCHANGED <<CallOf(c), ReplyOf(c)>>
  BY <1>1, OthersUnseen
<1>3. CallOf(d)' = None /\ ReplyOf(d) # None /\ ReplyOf(d)' = None
  BY ReplyAssumption DEF CallOf, ReplyOf
<1>4. {c \in Clients : mutex = c}' = {c \in Clients : mutex = c} \ {d}
  BY DmaAssumption, <1>1
<1>5. Memory!Return(d)
  BY <1>1, <1>2, <1>3, <1>4 DEF Memory!Return
<1> QED
  BY <1>5 DEF Memory!Next

\* Every step of the driver and the engine is a step of the atomic memory or
\* changes nothing of it.
LEMMA StepRefines == IInv /\ [Next]_vars => [Memory!Next]_(Memory!vars)
<1> SUFFICES ASSUME IInv, [Next]_vars
             PROVE  [Memory!Next]_(Memory!vars)
  OBVIOUS
<1>1. ASSUME NEW d \in Clients, NEW r \in Requests, amc_pci_dma_call(d, r)
      PROVE  Memory!Next
  BY <1>1, CallRefines
<1>2. ASSUME NEW d \in Clients, dma_memory_lock(d) PROVE Memory!Next
  BY <1>2, LockRefines
<1>3. ASSUME NEW d \in Clients, ClientStep(d)
      PROVE  [Memory!Next]_(Memory!vars)
  BY <1>3, CopyInRefines, QuietSteps, ConfigureRefines, CheckRefines,
     CopyOutRefines, UnlockRefines DEF ClientStep
<1>4. ASSUME NEW d \in Clients, reset_deadline(d) \/ killed(d)
      PROVE  Memory!Next
  BY <1>4, GiveUpRefines
<1>5. CASE Isr
  BY <1>5, IsrRefines
<1>6. CASE Engine
  BY <1>6, EngineRefines
<1>7. CASE UNCHANGED vars
  <2>1. \A c \in Clients : UNCHANGED <<CallOf(c), ReplyOf(c)>>
    BY <1>7 DEF vars, CallOf, ReplyOf
  <2> QED
    BY <1>7, <2>1, Stutter DEF vars
<1> QED
  BY <1>1, <1>2, <1>3, <1>4, <1>5, <1>6, <1>7 DEF Next

\* The DMA path of the driver implements the atomic memory: whatever the
\* interleaving of calls, interrupts, errors, missed deadlines and kills.
THEOREM Refinement == Spec => ImplementsMemory
<1>1. Init => Memory!Init
  BY InitRefines
<1>2. IInv /\ [Next]_vars => [Memory!Next]_(Memory!vars)
  BY StepRefines
<1> QED
  BY <1>1, <1>2, Inductive, PTL DEF Spec, ImplementsMemory, Memory!Spec
=============================================================================

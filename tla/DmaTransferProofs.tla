-------------------------- MODULE DmaTransferProofs --------------------------
(***************************************************************************)
(* Proofs about DmaTransfer, for any number of clients, blocks, kills and  *)
(* missed deadlines, and for coherent and non-coherent buffers.            *)
(***************************************************************************)
EXTENDS DmaTransfer, TLAPS

\* Who holds the mutex, and what every place in the call relies on.  A reset
\* clears the interrupt enables, and only its polling loop restores them.
LockInv ==
    /\ "Reset" \in cdmacr => "IrqEn" \notin cdmacr
    /\ \A c \in Clients :
           /\ pc[c] \in Locked <=> mutex = c
           /\ req[c] \in IF pc[c] = "idle" THEN {None} ELSE Requests
           /\ pc[c] = "copy_in" => req[c].dir = "DMA_TO_DEVICE"
           /\ pc[c] = "copy_out" => req[c].dir = "DMA_FROM_DEVICE"
           /\ rc[c] # "ok" => pc[c] = "unlock"
           /\ rc[c] = "ERESTARTSYS" => kills > 0
           /\ c \in clean \cup short => mutex = c
           /\ c \in short => pc[c] # "copy_in" /\ req[c].dir = "DMA_TO_DEVICE"

\* NoLostCompletion, made inductive: a bit 0 that is latched while the handler
\* is about to acknowledge it survives only if the line is still high.
WaitInv ==
    \A c \in Clients :
        pc[c] = "wait" /\ dma_done = 0 /\ "IrqEn" \in cdmacr =>
            \/ xfer # None
            \/ 0 \in isr /\ "Irq" \in cdmasr
            \/ isrPc \in {"status", "clear", "complete"}

\* What client c has put into the buffer, if it writes.
Block(c) == IF c \in short THEN Torn ELSE req[c].data

\* The block of client c's finished transfer is where it should be, or the
\* engine reports an error that no reset is about to clear.
Moved(c) ==
    /\ "Reset" \notin cdmacr
    /\ \/ "Err" \in cdmasr
       \/ /\ req[c].dir = "DMA_FROM_DEVICE" => devBuf = mem[req[c].addr]
          /\ req[c].dir = "DMA_TO_DEVICE" => mem[req[c].addr] = Block(c)

\* The engine works on client c's own transfer.
OwnTransfer(c) ==
    /\ xfer = [dir |-> req[c].dir, addr |-> req[c].addr]
    /\ req[c].dir = "DMA_TO_DEVICE" => devBuf = Block(c)

\* A waiting client that found all quiet is in one of these five phases.
Running(c) ==
    /\ OwnTransfer(c)
    /\ "Irq" \notin cdmasr
    /\ isrPc \in {"idle", "ack"}
    /\ 0 \in isr => isrPc = "ack"
    /\ dma_done = 0

Raised(c) ==
    /\ xfer = None
    /\ "Irq" \in cdmasr
    /\ isrPc \in {"idle", "status", "clear", "ack"}
    /\ isrPc = "clear" => "Irq" \in isrSaw
    /\ dma_done = 0
    /\ Moved(c)

Cleared(c) ==
    /\ xfer = None
    /\ "Irq" \notin cdmasr
    /\ isrPc = "complete"
    /\ dma_done = 0
    /\ Moved(c)

Completed(c) == Quiet /\ dma_done = 1 /\ Moved(c)

\* An earlier call's late reset has ended the transfer: nobody will complete it.
Lost(c) == Quiet /\ dma_done = 0

\* What holds at each place of a call that found all quiet.
CleanCall(c) ==
    /\ pc[c] \in {"copy_in", "hand_over", "configure", "reset", "reset_poll",
                  "program", "check", "copy_out"} => Quiet
    /\ pc[c] \in {"configure", "reset", "reset_poll", "program"} =>
           dma_done = 0
    /\ req[c].dir = "DMA_TO_DEVICE" =>
           /\ pc[c] = "hand_over" => cpuBuf = Block(c)
           /\ pc[c] \in {"configure", "reset", "reset_poll", "program"} =>
                  devBuf = Block(c)
           /\ pc[c] = "unlock" /\ rc[c] = "ok" => mem[req[c].addr] = Block(c)
    /\ pc[c] = "wait" =>
           Running(c) \/ Raised(c) \/ Cleared(c) \/ Completed(c) \/ Lost(c)
    /\ pc[c] = "check" => Moved(c)
    /\ pc[c] = "copy_out" => cpuBuf = mem[req[c].addr]
    /\ pc[c] = "unlock" =>
           IF rc[c] = "ERESTARTSYS" THEN xfer = None \/ OwnTransfer(c)
           ELSE Quiet

CleanInv == \A c \in clean : CleanCall(c)

\* Until a wait is killed, whoever holds the mutex found all quiet, and all
\* is quiet whenever nobody holds it.
NoKillInv ==
    kills = 0 => /\ mutex = None => Quiet
                 /\ mutex # None => mutex \in clean

IInv == TypeOK /\ LockInv /\ WaitInv /\ CleanInv /\ NoKillInv

-----------------------------------------------------------------------------
(* The initial state and every step preserve the five parts of IInv. *)

\* The state initialise_dma_control leaves satisfies the invariant.
LEMMA InitIInv == Init => IInv
<1> SUFFICES ASSUME Init PROVE IInv
  OBVIOUS
<1>1. TypeOK
  BY DmaAssumption
     DEF Init, TypeOK, Labels, Codes, StatusBits, ControlBits
<1>2. LockInv
  BY DmaAssumption DEF Init, LockInv, Locked
<1>3. WaitInv /\ CleanInv /\ NoKillInv
  BY DEF Init, WaitInv, CleanInv, NoKillInv, Quiet
<1> QED
  BY <1>1, <1>2, <1>3 DEF IInv

\* A step of the system calls, the handler or the engine keeps the types; a
\* call's arguments are known to be a request only because of LockInv.
LEMMA TypeStep ==
    TypeOK /\ LockInv /\ [Next]_vars => TypeOK'
<1> SUFFICES ASSUME TypeOK, LockInv, [Next]_vars
             PROVE  TypeOK'
  OBVIOUS
<1> USE DmaAssumption DEF TypeOK, Labels, Locked, Codes, StatusBits,
        ControlBits, Goto, Fail, callVars, lockVars, bufVars, engineVars,
        isrVars, countVars
<1>1. ASSUME NEW d \in Clients, NEW r \in Requests, amc_pci_dma_call(d, r)
      PROVE  TypeOK'
  BY <1>1 DEF amc_pci_dma_call
<1>2. ASSUME NEW d \in Clients, dma_memory_lock(d)
      PROVE  TypeOK'
  BY <1>2 DEF dma_memory_lock
<1>3. ASSUME NEW d \in Clients, copy_from_user(d)
      PROVE  TypeOK'
  BY <1>3 DEF copy_from_user, CpuWrites, LockInv, Requests, WriteRequests,
     ReadRequests
<1>4. ASSUME NEW d \in Clients, dma_operation_unlocked(d)
      PROVE  TypeOK'
  BY <1>4 DEF dma_operation_unlocked
<1>5. ASSUME NEW d \in Clients, configure_dma_engine(d)
      PROVE  TypeOK'
  BY <1>5 DEF configure_dma_engine
<1>6. ASSUME NEW d \in Clients, reset_dma_controller(d)
      PROVE  TypeOK'
  BY <1>6 DEF reset_dma_controller
<1>7. ASSUME NEW d \in Clients, reset_finished(d)
      PROVE  TypeOK'
  BY <1>7 DEF reset_finished
<1>8. ASSUME NEW d \in Clients, program_engine(d)
      PROVE  TypeOK'
  BY <1>8 DEF program_engine, LockInv, Transfers, Requests, WriteRequests,
     ReadRequests
<1>9. ASSUME NEW d \in Clients, wait_for_completion(d)
      PROVE  TypeOK'
  BY <1>9 DEF wait_for_completion
<1>10. ASSUME NEW d \in Clients, check_dma_status(d)
       PROVE  TypeOK'
  BY <1>10 DEF check_dma_status, StatusError
<1>11. ASSUME NEW d \in Clients, copy_to_user(d)
       PROVE  TypeOK'
  BY <1>11 DEF copy_to_user
<1>12. ASSUME NEW d \in Clients, dma_memory_unlock(d)
       PROVE  TypeOK'
  BY <1>12 DEF dma_memory_unlock
<1>13. ASSUME NEW d \in Clients, reset_deadline(d)
       PROVE  TypeOK'
  BY <1>13 DEF reset_deadline
<1>14. ASSUME NEW d \in Clients, killed(d)
       PROVE  TypeOK'
  BY <1>14 DEF killed
<1>15. CASE amc_pci_isr
  BY <1>15 DEF amc_pci_isr
<1>16. CASE dma_interrupt_read
  BY <1>16 DEF dma_interrupt_read
<1>17. CASE dma_interrupt_clear
  BY <1>17 DEF dma_interrupt_clear
<1>18. CASE dma_interrupt_complete
  BY <1>18 DEF dma_interrupt_complete
<1>19. CASE amc_pci_isr_ack
  BY <1>19 DEF amc_pci_isr_ack
<1>20. CASE cdma_complete
  BY <1>20 DEF cdma_complete, EndTransfer, MoveBlock, Transfers
<1>21. CASE cdma_error
  BY <1>21 DEF cdma_error, EndTransfer, MoveBlock, Transfers
<1>22. CASE cdma_reset_done
  BY <1>22 DEF cdma_reset_done, MoveBlock, Transfers
<1>23. CASE UNCHANGED vars
  BY <1>23 DEF vars
<1> QED
  BY <1>1, <1>2, <1>3, <1>4, <1>5, <1>6, <1>7, <1>8, <1>9, <1>10, <1>11,
     <1>12, <1>13, <1>14, <1>15, <1>16, <1>17, <1>18, <1>19, <1>20, <1>21,
     <1>22, <1>23
     DEF Next, ClientStep, Isr, Engine

\* dma_memory_lock and dma_memory_unlock bracket everything that touches the
\* engine or the buffer, on every path through read() and write().
LEMMA LockStep ==
    TypeOK /\ LockInv /\ [Next]_vars => LockInv'
<1> SUFFICES ASSUME TypeOK, LockInv, [Next]_vars
             PROVE  LockInv'
  OBVIOUS
<1> USE DmaAssumption DEF TypeOK, LockInv, Labels, Locked, Goto, Fail,
        callVars, lockVars, bufVars, engineVars, isrVars, countVars
<1>1. ASSUME NEW d \in Clients, NEW r \in Requests, amc_pci_dma_call(d, r)
      PROVE  LockInv'
  BY <1>1 DEF amc_pci_dma_call
<1>2. ASSUME NEW d \in Clients, dma_memory_lock(d)
      PROVE  LockInv'
  BY <1>2 DEF dma_memory_lock, Requests, WriteRequests, ReadRequests
<1>3. ASSUME NEW d \in Clients, copy_from_user(d)
      PROVE  LockInv'
  BY <1>3 DEF copy_from_user, CpuWrites
<1>4. ASSUME NEW d \in Clients, dma_operation_unlocked(d)
      PROVE  LockInv'
  BY <1>4 DEF dma_operation_unlocked
<1>5. ASSUME NEW d \in Clients, configure_dma_engine(d)
      PROVE  LockInv'
  BY <1>5 DEF configure_dma_engine
<1>6. ASSUME NEW d \in Clients, reset_dma_controller(d)
      PROVE  LockInv'
  BY <1>6 DEF reset_dma_controller
<1>7. ASSUME NEW d \in Clients, reset_finished(d)
      PROVE  LockInv'
  BY <1>7 DEF reset_finished
<1>8. ASSUME NEW d \in Clients, program_engine(d)
      PROVE  LockInv'
  BY <1>8 DEF program_engine
<1>9. ASSUME NEW d \in Clients, wait_for_completion(d)
      PROVE  LockInv'
  BY <1>9 DEF wait_for_completion
<1>10. ASSUME NEW d \in Clients, check_dma_status(d)
       PROVE  LockInv'
  BY <1>10 DEF check_dma_status, StatusError, Requests, WriteRequests,
     ReadRequests
<1>11. ASSUME NEW d \in Clients, copy_to_user(d)
       PROVE  LockInv'
  BY <1>11 DEF copy_to_user
<1>12. ASSUME NEW d \in Clients, dma_memory_unlock(d)
       PROVE  LockInv'
  BY <1>12 DEF dma_memory_unlock
<1>13. ASSUME NEW d \in Clients, reset_deadline(d)
       PROVE  LockInv'
  BY <1>13 DEF reset_deadline
<1>14. ASSUME NEW d \in Clients, killed(d)
       PROVE  LockInv'
  BY <1>14 DEF killed
<1>15. CASE amc_pci_isr
  BY <1>15 DEF amc_pci_isr
<1>16. CASE dma_interrupt_read
  BY <1>16 DEF dma_interrupt_read
<1>17. CASE dma_interrupt_clear
  BY <1>17 DEF dma_interrupt_clear
<1>18. CASE dma_interrupt_complete
  BY <1>18 DEF dma_interrupt_complete
<1>19. CASE amc_pci_isr_ack
  BY <1>19 DEF amc_pci_isr_ack
<1>20. CASE cdma_complete
  BY <1>20 DEF cdma_complete, EndTransfer, MoveBlock
<1>21. CASE cdma_error
  BY <1>21 DEF cdma_error, EndTransfer, MoveBlock
<1>22. CASE cdma_reset_done
  BY <1>22 DEF cdma_reset_done, MoveBlock
<1>23. CASE UNCHANGED vars
  BY <1>23 DEF vars
<1> QED
  BY <1>1, <1>2, <1>3, <1>4, <1>5, <1>6, <1>7, <1>8, <1>9, <1>10, <1>11,
     <1>12, <1>13, <1>14, <1>15, <1>16, <1>17, <1>18, <1>19, <1>20, <1>21,
     <1>22, <1>23
     DEF Next, ClientStep, Isr, Engine

\* No step of the handler takes away the complete() a waiting client is owed;
\* nobody else resets the engine while it waits.
LEMMA WaitStep ==
    TypeOK /\ LockInv /\ WaitInv /\ [Next]_vars => WaitInv'
<1> SUFFICES ASSUME TypeOK, LockInv, WaitInv, [Next]_vars
             PROVE  WaitInv'
  OBVIOUS
<1> USE DmaAssumption DEF TypeOK, LockInv, WaitInv, Labels, Locked, Goto,
        Fail, callVars, lockVars, bufVars, engineVars, isrVars, countVars
<1>1. ASSUME NEW d \in Clients, NEW r \in Requests, amc_pci_dma_call(d, r)
      PROVE  WaitInv'
  BY <1>1 DEF amc_pci_dma_call
<1>2. ASSUME NEW d \in Clients, dma_memory_lock(d)
      PROVE  WaitInv'
  BY <1>2 DEF dma_memory_lock
<1>3. ASSUME NEW d \in Clients, copy_from_user(d)
      PROVE  WaitInv'
  BY <1>3 DEF copy_from_user, CpuWrites
<1>4. ASSUME NEW d \in Clients, dma_operation_unlocked(d)
      PROVE  WaitInv'
  BY <1>4 DEF dma_operation_unlocked
<1>5. ASSUME NEW d \in Clients, configure_dma_engine(d)
      PROVE  WaitInv'
  BY <1>5 DEF configure_dma_engine
<1>6. ASSUME NEW d \in Clients, reset_dma_controller(d)
      PROVE  WaitInv'
  BY <1>6 DEF reset_dma_controller
<1>7. ASSUME NEW d \in Clients, reset_finished(d)
      PROVE  WaitInv'
  BY <1>7 DEF reset_finished
<1>8. ASSUME NEW d \in Clients, program_engine(d)
      PROVE  WaitInv'
  BY <1>8 DEF program_engine, Transfers, Requests, WriteRequests, ReadRequests
<1>9. ASSUME NEW d \in Clients, wait_for_completion(d)
      PROVE  WaitInv'
  BY <1>9 DEF wait_for_completion
<1>10. ASSUME NEW d \in Clients, check_dma_status(d)
       PROVE  WaitInv'
  BY <1>10 DEF check_dma_status, StatusError
<1>11. ASSUME NEW d \in Clients, copy_to_user(d)
       PROVE  WaitInv'
  BY <1>11 DEF copy_to_user
<1>12. ASSUME NEW d \in Clients, dma_memory_unlock(d)
       PROVE  WaitInv'
  BY <1>12 DEF dma_memory_unlock
<1>13. ASSUME NEW d \in Clients, reset_deadline(d)
       PROVE  WaitInv'
  BY <1>13 DEF reset_deadline
<1>14. ASSUME NEW d \in Clients, killed(d)
       PROVE  WaitInv'
  BY <1>14 DEF killed
<1>15. CASE amc_pci_isr
  BY <1>15 DEF amc_pci_isr
<1>16. CASE dma_interrupt_read
  BY <1>16 DEF dma_interrupt_read
<1>17. CASE dma_interrupt_clear
  BY <1>17 DEF dma_interrupt_clear
<1>18. CASE dma_interrupt_complete
  BY <1>18 DEF dma_interrupt_complete
<1>19. CASE amc_pci_isr_ack
  BY <1>19 DEF amc_pci_isr_ack
<1>20. CASE cdma_complete
  BY <1>20 DEF cdma_complete, EndTransfer, MoveBlock
<1>21. CASE cdma_error
  BY <1>21 DEF cdma_error, EndTransfer, MoveBlock
<1>22. CASE cdma_reset_done
  BY <1>22 DEF cdma_reset_done, MoveBlock
<1>23. CASE UNCHANGED vars
  BY <1>23 DEF vars
<1> QED
  BY <1>1, <1>2, <1>3, <1>4, <1>5, <1>6, <1>7, <1>8, <1>9, <1>10, <1>11,
     <1>12, <1>13, <1>14, <1>15, <1>16, <1>17, <1>18, <1>19, <1>20, <1>21,
     <1>22, <1>23
     DEF Next, ClientStep, Isr, Engine

\* A call that found all quiet stays in one of the phases CleanCall lists:
\* since it holds the mutex, only the handler and the engine act beside it.
LEMMA CleanStep ==
    TypeOK /\ LockInv /\ CleanInv /\ [Next]_vars => CleanInv'
<1> SUFFICES ASSUME TypeOK, LockInv, CleanInv, [Next]_vars
             PROVE  CleanInv'
  OBVIOUS
<1> SUFFICES ASSUME NEW c \in clean'
             PROVE  CleanCall(c)'
  BY DEF CleanInv
<1> USE DmaAssumption DEF TypeOK, LockInv, CleanInv, CleanCall, Running,
        Raised, Cleared, Completed, Lost, Moved, Block, OwnTransfer, Quiet,
        Locked, Goto, Fail, callVars, lockVars, bufVars, engineVars, isrVars,
        countVars
<1>1. ASSUME NEW d \in Clients, NEW r \in Requests, amc_pci_dma_call(d, r)
      PROVE  CleanCall(c)'
  BY <1>1 DEF amc_pci_dma_call
<1>2. ASSUME NEW d \in Clients, dma_memory_lock(d)
      PROVE  CleanCall(c)'
  BY <1>2 DEF dma_memory_lock
<1>3. ASSUME NEW d \in Clients, copy_from_user(d)
      PROVE  CleanCall(c)'
  BY <1>3 DEF copy_from_user, CpuWrites
<1>4. ASSUME NEW d \in Clients, dma_operation_unlocked(d)
      PROVE  CleanCall(c)'
  BY <1>4 DEF dma_operation_unlocked
<1>5. ASSUME NEW d \in Clients, configure_dma_engine(d)
      PROVE  CleanCall(c)'
  BY <1>5 DEF configure_dma_engine
<1>6. ASSUME NEW d \in Clients, reset_dma_controller(d)
      PROVE  CleanCall(c)'
  BY <1>6 DEF reset_dma_controller
<1>7. ASSUME NEW d \in Clients, reset_finished(d)
      PROVE  CleanCall(c)'
  BY <1>7 DEF reset_finished
<1>8. ASSUME NEW d \in Clients, program_engine(d)
      PROVE  CleanCall(c)'
  BY <1>8 DEF program_engine, Transfers, Requests, WriteRequests, ReadRequests
<1>9. ASSUME NEW d \in Clients, wait_for_completion(d)
      PROVE  CleanCall(c)'
  BY <1>9 DEF wait_for_completion
<1>10. ASSUME NEW d \in Clients, check_dma_status(d)
       PROVE  CleanCall(c)'
  BY <1>10 DEF check_dma_status, StatusError, Requests, WriteRequests,
     ReadRequests
<1>11. ASSUME NEW d \in Clients, copy_to_user(d)
       PROVE  CleanCall(c)'
  BY <1>11 DEF copy_to_user
<1>12. ASSUME NEW d \in Clients, dma_memory_unlock(d)
       PROVE  CleanCall(c)'
  BY <1>12 DEF dma_memory_unlock
<1>13. ASSUME NEW d \in Clients, reset_deadline(d)
       PROVE  CleanCall(c)'
  BY <1>13 DEF reset_deadline
<1>14. ASSUME NEW d \in Clients, killed(d)
       PROVE  CleanCall(c)'
  BY <1>14 DEF killed
<1>15. CASE amc_pci_isr
  BY <1>15 DEF amc_pci_isr
<1>16. CASE dma_interrupt_read
  BY <1>16 DEF dma_interrupt_read
<1>17. CASE dma_interrupt_clear
  BY <1>17 DEF dma_interrupt_clear
<1>18. CASE dma_interrupt_complete
  BY <1>18 DEF dma_interrupt_complete
<1>19. CASE amc_pci_isr_ack
  BY <1>19 DEF amc_pci_isr_ack
<1>20. CASE cdma_complete
  BY <1>20 DEF cdma_complete, EndTransfer, MoveBlock, Requests, WriteRequests,
     ReadRequests
<1>21. CASE cdma_error
  BY <1>21 DEF cdma_error, EndTransfer, MoveBlock
<1>22. CASE cdma_reset_done
  <2>1. c \in clean /\ c \in Clients
    BY <1>22 DEF cdma_reset_done
  <2>2. pc[c] \in Locked /\ "Reset" \in cdmacr
    BY <1>22, <2>1 DEF cdma_reset_done
  <2>3. CASE pc[c] = "unlock" /\ rc[c] = "ERESTARTSYS"
    BY <1>22, <2>1, <2>3 DEF cdma_reset_done
  <2>4. CASE pc[c] = "wait"
    <3>1. Running(c) \/ Lost(c)
      BY <2>1, <2>2, <2>4
    <3>2. Lost(c)'
      BY <1>22, <3>1 DEF cdma_reset_done
    <3> QED
      BY <1>22, <2>1, <2>4, <3>2 DEF cdma_reset_done
  <2>5. CASE pc[c] # "wait" /\ ~(pc[c] = "unlock" /\ rc[c] = "ERESTARTSYS")
    <3>1. Quiet /\ pc[c] # "check"
      BY <2>1, <2>2, <2>5
    <3>2. Quiet' /\ UNCHANGED bufVars
      BY <1>22, <3>1 DEF cdma_reset_done
    <3> QED
      BY <1>22, <2>1, <2>2, <2>5, <3>1, <3>2 DEF cdma_reset_done
  <2> QED
    BY <2>3, <2>4, <2>5
<1>23. CASE UNCHANGED vars
  BY <1>23 DEF vars
<1> QED
  BY <1>1, <1>2, <1>3, <1>4, <1>5, <1>6, <1>7, <1>8, <1>9, <1>10, <1>11,
     <1>12, <1>13, <1>14, <1>15, <1>16, <1>17, <1>18, <1>19, <1>20, <1>21,
     <1>22, <1>23
     DEF Next, ClientStep, Isr, Engine

\* Without SIGKILL every exit from a call leaves the engine, its interrupt
\* and the handler quiet, so the next holder finds them so.
LEMMA NoKillStep ==
    TypeOK /\ LockInv /\ CleanInv /\ NoKillInv /\ [Next]_vars => NoKillInv'
<1> SUFFICES ASSUME TypeOK, LockInv, CleanInv, NoKillInv, [Next]_vars
             PROVE  NoKillInv'
  OBVIOUS
<1> USE DmaAssumption DEF TypeOK, LockInv, NoKillInv, Quiet, Locked, Goto,
        Fail, callVars, lockVars, bufVars, engineVars, isrVars, countVars
<1>1. ASSUME NEW d \in Clients, NEW r \in Requests, amc_pci_dma_call(d, r)
      PROVE  NoKillInv'
  BY <1>1 DEF amc_pci_dma_call
<1>2. ASSUME NEW d \in Clients, dma_memory_lock(d)
      PROVE  NoKillInv'
  BY <1>2 DEF dma_memory_lock
<1>3. ASSUME NEW d \in Clients, copy_from_user(d)
      PROVE  NoKillInv'
  BY <1>3 DEF copy_from_user, CpuWrites
<1>4. ASSUME NEW d \in Clients, dma_operation_unlocked(d)
      PROVE  NoKillInv'
  BY <1>4 DEF dma_operation_unlocked
<1>5. ASSUME NEW d \in Clients, configure_dma_engine(d)
      PROVE  NoKillInv'
  BY <1>5 DEF configure_dma_engine
<1>6. ASSUME NEW d \in Clients, reset_dma_controller(d)
      PROVE  NoKillInv'
  BY <1>6 DEF reset_dma_controller
<1>7. ASSUME NEW d \in Clients, reset_finished(d)
      PROVE  NoKillInv'
  BY <1>7 DEF reset_finished
<1>8. ASSUME NEW d \in Clients, program_engine(d)
      PROVE  NoKillInv'
  BY <1>8 DEF program_engine
<1>9. ASSUME NEW d \in Clients, wait_for_completion(d)
      PROVE  NoKillInv'
  BY <1>9 DEF wait_for_completion
<1>10. ASSUME NEW d \in Clients, check_dma_status(d)
       PROVE  NoKillInv'
  BY <1>10 DEF check_dma_status, StatusError
<1>11. ASSUME NEW d \in Clients, copy_to_user(d)
       PROVE  NoKillInv'
  BY <1>11 DEF copy_to_user
<1>12. ASSUME NEW d \in Clients, dma_memory_unlock(d)
       PROVE  NoKillInv'
  BY <1>12 DEF dma_memory_unlock, CleanInv, CleanCall
<1>13. ASSUME NEW d \in Clients, reset_deadline(d)
       PROVE  NoKillInv'
  BY <1>13 DEF reset_deadline
<1>14. ASSUME NEW d \in Clients, killed(d)
       PROVE  NoKillInv'
  BY <1>14 DEF killed
<1>15. CASE amc_pci_isr
  BY <1>15 DEF amc_pci_isr
<1>16. CASE dma_interrupt_read
  BY <1>16 DEF dma_interrupt_read
<1>17. CASE dma_interrupt_clear
  BY <1>17 DEF dma_interrupt_clear
<1>18. CASE dma_interrupt_complete
  BY <1>18 DEF dma_interrupt_complete
<1>19. CASE amc_pci_isr_ack
  BY <1>19 DEF amc_pci_isr_ack
<1>20. CASE cdma_complete
  BY <1>20 DEF cdma_complete, EndTransfer, MoveBlock
<1>21. CASE cdma_error
  BY <1>21 DEF cdma_error, EndTransfer, MoveBlock
<1>22. CASE cdma_reset_done
  BY <1>22 DEF cdma_reset_done, MoveBlock
<1>23. CASE UNCHANGED vars
  BY <1>23 DEF vars
<1> QED
  BY <1>1, <1>2, <1>3, <1>4, <1>5, <1>6, <1>7, <1>8, <1>9, <1>10, <1>11,
     <1>12, <1>13, <1>14, <1>15, <1>16, <1>17, <1>18, <1>19, <1>20, <1>21,
     <1>22, <1>23
     DEF Next, ClientStep, Isr, Engine

-----------------------------------------------------------------------------
(* The theorems. *)

\* IInv holds in every reachable state of the driver and its engine.
THEOREM Inductive == Spec => []IInv
<1>1. Init => IInv
  BY InitIInv
<1>2. IInv /\ [Next]_vars => IInv'
  BY TypeStep, LockStep, WaitStep, CleanStep, NoKillStep DEF IInv
<1> QED
  BY <1>1, <1>2, PTL DEF Spec

\* Every variable keeps its type; in particular wait_for_completion never
\* takes the completion's count below zero.
THEOREM TypeCorrect == Spec => []TypeOK
<1>1. IInv => TypeOK
  BY DEF IInv
<1> QED
  BY Inductive, <1>1, PTL

\* However calls, kills, errors, resets and interrupts interleave, a client in
\* wait_for_completion_killable is still owed a complete() as long as the
\* engine's interrupt is enabled.
THEOREM CompletionNotLost == Spec => []NoLostCompletion
<1>1. IInv => NoLostCompletion
  BY DEF IInv, WaitInv, NoLostCompletion
<1> QED
  BY Inductive, <1>1, PTL

\* As long as no wait is killed, dma_memory_lock hands over an engine with
\* nothing of an earlier call's transfer left in it.
THEOREM OnlyKillsDisturb == Spec => []QuietUnlessKilled
<1>1. IInv => QuietUnlessKilled
  BY DEF IInv, NoKillInv, QuietUnlessKilled
<1> QED
  BY Inductive, <1>1, PTL

\* A read() that found all quiet gives the user the block it asked for.
THEOREM ReadCorrect == Spec => []ReadIntegrity
<1>1. IInv => ReadIntegrity
  BY DEF IInv, CleanInv, CleanCall, ReadIntegrity
<1> QED
  BY Inductive, <1>1, PTL

\* A write() that found all quiet, copied its block in full and reports
\* success has put that block into FPGA memory.
THEOREM WriteCorrect == Spec => []WriteIntegrity
<1>1. IInv => WriteIntegrity
  BY DEF IInv, CleanInv, CleanCall, Block, WriteIntegrity
<1> QED
  BY Inductive, <1>1, PTL
=============================================================================

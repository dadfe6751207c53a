-------------------------- MODULE RegisterNodeProofs --------------------------
(***************************************************************************)
(* Proofs about RegisterNode, for any number of handles, threads, events   *)
(* and reader slots.                                                       *)
(***************************************************************************)
EXTENDS RegisterNode, FiniteSetTheorems, TLAPS

\* A thread inside a call holds its file open.
FileInv ==
    \A t \in Threads :
        tpc[t] # "idle" => file[t] \in Handles /\ state[file[t]] = "open"

\* SlotsAccounted, in the form the provers use.
SlotInv ==
    /\ \A h \in Handles : state[h] \in Owning => slot[h] \in active_readers
    /\ \A s \in active_readers :
        \E h \in Handles : state[h] \in Owning /\ slot[h] = s
    /\ \A g, h \in Handles :
        state[g] \in Owning /\ state[h] \in Owning /\ slot[g] = slot[h]
            => g = h

\* The handler's copy of isr is empty between two runs of it, and no event of
\* it, or of isr itself, is older than the open() of a handle in use.
LiveInv ==
    /\ isrPc = "idle" => isrSaw = {}
    /\ \A h \in Handles :
        state[h] # "closed" =>
            intc \subseteq live[h] /\ isrSaw \subseteq live[h]

IInv ==
    /\ TypeOK
    /\ FileInv
    /\ SlotInv
    /\ ExclusiveLock
    /\ LiveInv
    /\ NoStaleEvents
    /\ NoLostWakeup
    /\ NoEventLost

-----------------------------------------------------------------------------
(* The initial state and every step preserve the parts of IInv. *)

\* The state after initialise_interrupt_control satisfies the invariant.
LEMMA InitIInv == Init => IInv
<1> SUFFICES ASSUME Init PROVE IInv
  OBVIOUS
<1>1. TypeOK
  BY NodeAssumption DEF Init, TypeOK, States, Owning, Places, Slots
<1>2. FileInv /\ SlotInv /\ LiveInv /\ NoLostWakeup
  BY DEF Init, FileInv, SlotInv, LiveInv, NoLostWakeup, Owning
<1>3. OpenHandles = {}
  BY DEF Init, OpenHandles
<1>4. ExclusiveLock
  BY <1>3, FS_EmptySet DEF Init, ExclusiveLock
<1>5. NoStaleEvents /\ NoEventLost
  BY <1>3 DEF Init, NoStaleEvents, NoEventLost
<1> QED
  BY <1>1, <1>2, <1>4, <1>5 DEF IInv

\* Only finitely many handles are open.
LEMMA OpenFinite == IsFiniteSet(OpenHandles)
  BY NodeAssumption, FS_Subset DEF OpenHandles

\* The facts about the size of a finite set that the proofs need.
LEMMA CountFacts ==
    ASSUME NEW S, IsFiniteSet(S), NEW g
    PROVE  /\ Cardinality(S) \in Nat
           /\ g \notin S => Cardinality(S \cup {g}) = Cardinality(S) + 1
           /\ g \in S => Cardinality(S \ {g}) = Cardinality(S) - 1
           /\ g \in S => Cardinality(S) # 0
           /\ g \in S /\ ~ Cardinality(S) > 1 => S = {g}
<1>1. Cardinality(S) \in Nat
  BY FS_CardinalityType
<1>2. g \notin S => Cardinality(S \cup {g}) = Cardinality(S) + 1
  BY FS_AddElement
<1>3. g \in S => Cardinality(S \ {g}) = Cardinality(S) - 1
  BY FS_RemoveElement
<1>4. g \in S => Cardinality(S) # 0
  BY FS_EmptySet
<1>5. ASSUME g \in S, ~ Cardinality(S) > 1
      PROVE  S = {g}
  <2>1. Cardinality(S) = 1
    BY <1>1, <1>4, <1>5
  <2>2. PICK x : S = {x}
    BY <2>1, FS_Singleton
  <2> QED
    BY <1>5, <2>2
<1> QED
  BY <1>1, <1>2, <1>3, <1>4, <1>5

\* A step keeps the types; amc_pci_reg_release never takes reference_count
\* below zero because it counts the open handles.
LEMMA TypeStep ==
    TypeOK /\ FileInv /\ ExclusiveLock /\ [Next]_vars => TypeOK'
<1> SUFFICES ASSUME TypeOK, FileInv, ExclusiveLock, [Next]_vars
             PROVE  TypeOK'
  OBVIOUS
<1> USE NodeAssumption DEF TypeOK, States, Owning, Places, Goto, Becomes,
        openVars, lockVars, isrVars, threadVars, histVars
<1>1. ASSUME NEW g \in Handles, amc_pci_reg_open(g)
      PROVE  TypeOK'
  BY <1>1 DEF amc_pci_reg_open, Slots
<1>2. ASSUME NEW g \in Handles, assign_reader_number(g)
      PROVE  TypeOK'
  <2>1. CASE slot[g] \notin active_readers
    BY <1>2, <2>1 DEF assign_reader_number
  <2>2. CASE slot[g] \in active_readers /\ slot[g] + 1 \in Slots
    BY <1>2, <2>2 DEF assign_reader_number
  <2>3. CASE slot[g] \in active_readers /\ slot[g] + 1 \notin Slots
    BY <1>2, <2>3 DEF assign_reader_number
  <2> QED
    BY <1>2, <2>1, <2>2, <2>3 DEF assign_reader_number
<1>3. ASSUME NEW g \in Handles, reset_events(g)
      PROVE  TypeOK'
  BY <1>3 DEF reset_events
<1>4. ASSUME NEW g \in Handles, new_context(g)
      PROVE  TypeOK'
  BY <1>4 DEF new_context
<1>5. ASSUME NEW g \in Handles, count_in(g)
      PROVE  TypeOK'
  <2>1. CASE locked_by = None
    BY <1>5, <2>1 DEF count_in
  <2>2. CASE locked_by # None
    BY <1>5, <2>2 DEF count_in
  <2> QED
    BY <1>5, <2>1, <2>2 DEF count_in
<1>6. ASSUME NEW g \in Handles, unassign_reader_number(g)
      PROVE  TypeOK'
  BY <1>6 DEF unassign_reader_number
<1>7. ASSUME NEW g \in Handles, amc_pci_reg_release(g)
      PROVE  TypeOK'
  <2>1. g \in OpenHandles
    BY <1>7 DEF amc_pci_reg_release, OpenHandles
  <2>2. reference_count \in Nat \ {0}
    BY <2>1, OpenFinite, CountFacts DEF ExclusiveLock
  <2> QED
    BY <1>7, <2>2 DEF amc_pci_reg_release
<1>8. ASSUME NEW g \in Handles, lock_register(g)
      PROVE  TypeOK'
  BY <1>8 DEF lock_register
<1>9. ASSUME NEW g \in Handles, unlock_register(g)
      PROVE  TypeOK'
  BY <1>9 DEF unlock_register
<1>10. ASSUME NEW u \in Threads, NEW g \in Handles, amc_pci_reg_read(u, g)
       PROVE  TypeOK'
  <2>1. PICK p \in {"take", "try"} : Starts(u, g, p)
    BY <1>10 DEF amc_pci_reg_read
  <2> QED
    BY <2>1 DEF Starts
<1>11. ASSUME NEW u \in Threads, NEW g \in Handles, amc_pci_reg_poll(u, g)
       PROVE  TypeOK'
  BY <1>11 DEF amc_pci_reg_poll, Starts
<1>12. ASSUME NEW u \in Threads, read_no_wait(u)
       PROVE  TypeOK'
  BY <1>12 DEF read_no_wait, Xchg, Mask, FileInv
<1>13. ASSUME NEW u \in Threads, read_interrupt_events(u)
       PROVE  TypeOK'
  <2>1. CASE Mask(u) # {}
    <3>1. file[u] \in Handles /\ Mask(u) \in SUBSET Bits
      BY <1>13 DEF FileInv, Mask, read_interrupt_events, Condition
    <3>2. /\ UNCHANGED <<openVars, active_readers, lockVars, intc, isrVars>>
          /\ UNCHANGED <<file, live>>
          /\ wait_queue' = wait_queue \ {u}
          /\ Xchg(u) /\ Goto(u, "copy")
      BY <1>13, <2>1 DEF read_interrupt_events, Condition
    <3> QED
      BY <3>1, <3>2 DEF Xchg
  <2>2. CASE Mask(u) = {}
    BY <1>13, <2>2 DEF read_interrupt_events, Condition, Returns
  <2> QED
    BY <2>1, <2>2
<1>14. ASSUME NEW u \in Threads, prepare_to_wait(u)
       PROVE  TypeOK'
  BY <1>14 DEF prepare_to_wait, Moves
<1>15. ASSUME NEW u \in Threads, woken(u)
       PROVE  TypeOK'
  BY <1>15 DEF woken, Moves
<1>16. ASSUME NEW u \in Threads, amc_pci_reg_read_returns(u)
       PROVE  TypeOK'
  BY <1>16 DEF amc_pci_reg_read_returns, Returns
<1>17. ASSUME NEW u \in Threads, poll_wait(u)
       PROVE  TypeOK'
  BY <1>17 DEF poll_wait, Moves
<1>18. ASSUME NEW u \in Threads, interrupt_events_ready(u)
       PROVE  TypeOK'
  BY <1>18 DEF interrupt_events_ready, Mask, Returns
<1>19. ASSUME NEW u \in Threads, interrupted(u)
       PROVE  TypeOK'
  BY <1>19 DEF interrupted, Moves
<1>20. ASSUME NEW u \in Threads, poll_timeout(u)
       PROVE  TypeOK'
  BY <1>20 DEF poll_timeout, Returns
<1>21. CASE amc_pci_isr
  BY <1>21 DEF amc_pci_isr, Slots
<1>22. CASE event_interrupt
  BY <1>22 DEF event_interrupt
<1>23. CASE wake_up_all
  BY <1>23 DEF wake_up_all
<1>24. CASE amc_pci_isr_ack
  BY <1>24 DEF amc_pci_isr_ack
<1>25. ASSUME NEW b \in Bits, raise(b)
       PROVE  TypeOK'
  BY <1>25 DEF raise
<1>26. CASE UNCHANGED vars
  BY <1>26 DEF vars
<1> QED
  BY <1>1, <1>2, <1>3, <1>4, <1>5, <1>6, <1>7, <1>8, <1>9, <1>10, <1>11,
     <1>12, <1>13, <1>14, <1>15, <1>16, <1>17, <1>18, <1>19, <1>20, <1>21,
     <1>22, <1>23, <1>24, <1>25, <1>26
     DEF Next, OpenStep, ReadStep, Isr

\* A handle is not closed while a thread is inside read() or poll() on it.
LEMMA FileStep ==
    TypeOK /\ FileInv /\ [Next]_vars => FileInv'
<1> SUFFICES ASSUME TypeOK, FileInv, [Next]_vars
             PROVE  FileInv'
  OBVIOUS
<1> USE NodeAssumption DEF TypeOK, FileInv, Goto, Becomes, openVars, lockVars,
        isrVars, threadVars, histVars
<1>1. ASSUME NEW g \in Handles, amc_pci_reg_open(g)
      PROVE  FileInv'
  BY <1>1 DEF amc_pci_reg_open
<1>2. ASSUME NEW g \in Handles, assign_reader_number(g)
      PROVE  FileInv'
  BY <1>2 DEF assign_reader_number
<1>3. ASSUME NEW g \in Handles, reset_events(g)
      PROVE  FileInv'
  BY <1>3 DEF reset_events
<1>4. ASSUME NEW g \in Handles, new_context(g)
      PROVE  FileInv'
  BY <1>4 DEF new_context
<1>5. ASSUME NEW g \in Handles, count_in(g)
      PROVE  FileInv'
  BY <1>5 DEF count_in
<1>6. ASSUME NEW g \in Handles, unassign_reader_number(g)
      PROVE  FileInv'
  BY <1>6 DEF unassign_reader_number
<1>7. ASSUME NEW g \in Handles, amc_pci_reg_release(g)
      PROVE  FileInv'
  BY <1>7 DEF amc_pci_reg_release
<1>8. ASSUME NEW g \in Handles, lock_register(g)
      PROVE  FileInv'
  BY <1>8 DEF lock_register
<1>9. ASSUME NEW g \in Handles, unlock_register(g)
      PROVE  FileInv'
  BY <1>9 DEF unlock_register
<1>10. ASSUME NEW u \in Threads, NEW g \in Handles, amc_pci_reg_read(u, g)
       PROVE  FileInv'
  BY <1>10 DEF amc_pci_reg_read, Starts
<1>11. ASSUME NEW u \in Threads, NEW g \in Handles, amc_pci_reg_poll(u, g)
       PROVE  FileInv'
  BY <1>11 DEF amc_pci_reg_poll, Starts
<1>12. ASSUME NEW u \in Threads, read_no_wait(u)
       PROVE  FileInv'
  BY <1>12 DEF read_no_wait, Xchg, Mask
<1>13. ASSUME NEW u \in Threads, read_interrupt_events(u)
       PROVE  FileInv'
  BY <1>13 DEF read_interrupt_events, Condition, Xchg, Mask, Returns
<1>14. ASSUME NEW u \in Threads, prepare_to_wait(u)
       PROVE  FileInv'
  BY <1>14 DEF prepare_to_wait, Moves
<1>15. ASSUME NEW u \in Threads, woken(u)
       PROVE  FileInv'
  BY <1>15 DEF woken, Moves
<1>16. ASSUME NEW u \in Threads, amc_pci_reg_read_returns(u)
       PROVE  FileInv'
  BY <1>16 DEF amc_pci_reg_read_returns, Returns
<1>17. ASSUME NEW u \in Threads, poll_wait(u)
       PROVE  FileInv'
  BY <1>17 DEF poll_wait, Moves
<1>18. ASSUME NEW u \in Threads, interrupt_events_ready(u)
       PROVE  FileInv'
  BY <1>18 DEF interrupt_events_ready, Mask, Returns
<1>19. ASSUME NEW u \in Threads, interrupted(u)
       PROVE  FileInv'
  BY <1>19 DEF interrupted, Moves
<1>20. ASSUME NEW u \in Threads, poll_timeout(u)
       PROVE  FileInv'
  BY <1>20 DEF poll_timeout, Returns
<1>21. CASE amc_pci_isr
  BY <1>21 DEF amc_pci_isr
<1>22. CASE event_interrupt
  BY <1>22 DEF event_interrupt
<1>23. CASE wake_up_all
  BY <1>23 DEF wake_up_all
<1>24. CASE amc_pci_isr_ack
  BY <1>24 DEF amc_pci_isr_ack
<1>25. ASSUME NEW b \in Bits, raise(b)
       PROVE  FileInv'
  BY <1>25 DEF raise
<1>26. CASE UNCHANGED vars
  BY <1>26 DEF vars
<1> QED
  BY <1>1, <1>2, <1>3, <1>4, <1>5, <1>6, <1>7, <1>8, <1>9, <1>10, <1>11,
     <1>12, <1>13, <1>14, <1>15, <1>16, <1>17, <1>18, <1>19, <1>20, <1>21,
     <1>22, <1>23, <1>24, <1>25, <1>26
     DEF Next, OpenStep, ReadStep, Isr

\* test_and_set_bit gives a slot to one handle only, and every path out of
\* open() and close() clears the bit of the slot it had.
LEMMA SlotStep ==
    TypeOK /\ SlotInv /\ [Next]_vars => SlotInv'
<1> SUFFICES ASSUME TypeOK, SlotInv, [Next]_vars
             PROVE  SlotInv'
  OBVIOUS
<1> USE NodeAssumption DEF TypeOK, SlotInv, Owning, Goto, Becomes, openVars,
        lockVars, isrVars, threadVars, histVars
<1>1. ASSUME NEW g \in Handles, amc_pci_reg_open(g)
      PROVE  SlotInv'
  BY <1>1 DEF amc_pci_reg_open
<1>2. ASSUME NEW g \in Handles, assign_reader_number(g)
      PROVE  SlotInv'
  BY <1>2 DEF assign_reader_number
<1>3. ASSUME NEW g \in Handles, reset_events(g)
      PROVE  SlotInv'
  BY <1>3 DEF reset_events
<1>4. ASSUME NEW g \in Handles, new_context(g)
      PROVE  SlotInv'
  BY <1>4 DEF new_context
<1>5. ASSUME NEW g \in Handles, count_in(g)
      PROVE  SlotInv'
  BY <1>5 DEF count_in
<1>6. ASSUME NEW g \in Handles, unassign_reader_number(g)
      PROVE  SlotInv'
  BY <1>6 DEF unassign_reader_number
<1>7. ASSUME NEW g \in Handles, amc_pci_reg_release(g)
      PROVE  SlotInv'
  BY <1>7 DEF amc_pci_reg_release
<1>8. ASSUME NEW g \in Handles, lock_register(g)
      PROVE  SlotInv'
  BY <1>8 DEF lock_register
<1>9. ASSUME NEW g \in Handles, unlock_register(g)
      PROVE  SlotInv'
  BY <1>9 DEF unlock_register
<1>10. ASSUME NEW u \in Threads, NEW g \in Handles, amc_pci_reg_read(u, g)
       PROVE  SlotInv'
  BY <1>10 DEF amc_pci_reg_read, Starts
<1>11. ASSUME NEW u \in Threads, NEW g \in Handles, amc_pci_reg_poll(u, g)
       PROVE  SlotInv'
  BY <1>11 DEF amc_pci_reg_poll, Starts
<1>12. ASSUME NEW u \in Threads, read_no_wait(u)
       PROVE  SlotInv'
  BY <1>12 DEF read_no_wait, Xchg, Mask
<1>13. ASSUME NEW u \in Threads, read_interrupt_events(u)
       PROVE  SlotInv'
  BY <1>13 DEF read_interrupt_events, Condition, Xchg, Mask, Returns
<1>14. ASSUME NEW u \in Threads, prepare_to_wait(u)
       PROVE  SlotInv'
  BY <1>14 DEF prepare_to_wait, Moves
<1>15. ASSUME NEW u \in Threads, woken(u)
       PROVE  SlotInv'
  BY <1>15 DEF woken, Moves
<1>16. ASSUME NEW u \in Threads, amc_pci_reg_read_returns(u)
       PROVE  SlotInv'
  BY <1>16 DEF amc_pci_reg_read_returns, Returns
<1>17. ASSUME NEW u \in Threads, poll_wait(u)
       PROVE  SlotInv'
  BY <1>17 DEF poll_wait, Moves
<1>18. ASSUME NEW u \in Threads, interrupt_events_ready(u)
       PROVE  SlotInv'
  BY <1>18 DEF interrupt_events_ready, Mask, Returns
<1>19. ASSUME NEW u \in Threads, interrupted(u)
       PROVE  SlotInv'
  BY <1>19 DEF interrupted, Moves
<1>20. ASSUME NEW u \in Threads, poll_timeout(u)
       PROVE  SlotInv'
  BY <1>20 DEF poll_timeout, Returns
<1>21. CASE amc_pci_isr
  BY <1>21 DEF amc_pci_isr
<1>22. CASE event_interrupt
  BY <1>22 DEF event_interrupt
<1>23. CASE wake_up_all
  BY <1>23 DEF wake_up_all
<1>24. CASE amc_pci_isr_ack
  BY <1>24 DEF amc_pci_isr_ack
<1>25. ASSUME NEW b \in Bits, raise(b)
       PROVE  SlotInv'
  BY <1>25 DEF raise
<1>26. CASE UNCHANGED vars
  BY <1>26 DEF vars
<1> QED
  BY <1>1, <1>2, <1>3, <1>4, <1>5, <1>6, <1>7, <1>8, <1>9, <1>10, <1>11,
     <1>12, <1>13, <1>14, <1>15, <1>16, <1>17, <1>18, <1>19, <1>20, <1>21,
     <1>22, <1>23, <1>24, <1>25, <1>26
     DEF Next, OpenStep, ReadStep, Isr

\* open() and lock_register exclude each other: open() fails on a locked
\* node, and the lock is refused to all but the only open handle.
LEMMA LockStep ==
    TypeOK /\ ExclusiveLock /\ [Next]_vars => ExclusiveLock'
<1> SUFFICES ASSUME TypeOK, ExclusiveLock, [Next]_vars
             PROVE  ExclusiveLock'
  OBVIOUS
<1> USE NodeAssumption DEF TypeOK, ExclusiveLock, Goto, Becomes, openVars,
        lockVars, isrVars, threadVars, histVars
<1>1. ASSUME NEW g \in Handles, amc_pci_reg_open(g)
      PROVE  ExclusiveLock'
  BY <1>1 DEF amc_pci_reg_open, OpenHandles
<1>2. ASSUME NEW g \in Handles, assign_reader_number(g)
      PROVE  ExclusiveLock'
  BY <1>2 DEF assign_reader_number, OpenHandles
<1>3. ASSUME NEW g \in Handles, reset_events(g)
      PROVE  ExclusiveLock'
  BY <1>3 DEF reset_events, OpenHandles
<1>4. ASSUME NEW g \in Handles, new_context(g)
      PROVE  ExclusiveLock'
  BY <1>4 DEF new_context, OpenHandles
<1>5. ASSUME NEW g \in Handles, count_in(g)
      PROVE  ExclusiveLock'
  <2>1. CASE locked_by # None
    <3>1. OpenHandles' = OpenHandles /\ UNCHANGED lockVars
      BY <1>5, <2>1 DEF count_in, OpenHandles
    <3> QED
      BY <3>1
  <2>2. CASE locked_by = None
    <3>1. OpenHandles' = OpenHandles \cup {g} /\ g \notin OpenHandles
      BY <1>5, <2>2 DEF count_in, OpenHandles
    <3>2. Cardinality(OpenHandles') = Cardinality(OpenHandles) + 1
      BY <3>1, OpenFinite, CountFacts
    <3> QED
      BY <1>5, <2>2, <3>2 DEF count_in
  <2> QED
    BY <2>1, <2>2
<1>6. ASSUME NEW g \in Handles, unassign_reader_number(g)
      PROVE  ExclusiveLock'
  BY <1>6 DEF unassign_reader_number, OpenHandles
<1>7. ASSUME NEW g \in Handles, amc_pci_reg_release(g)
      PROVE  ExclusiveLock'
  <2>1. OpenHandles' = OpenHandles \ {g} /\ g \in OpenHandles
    BY <1>7 DEF amc_pci_reg_release, OpenHandles
  <2>2. Cardinality(OpenHandles') = Cardinality(OpenHandles) - 1
    BY <2>1, OpenFinite, CountFacts
  <2>3. locked_by' = None
    BY <1>7, <2>1 DEF amc_pci_reg_release
  <2> QED
    BY <1>7, <2>2, <2>3 DEF amc_pci_reg_release
<1>8. ASSUME NEW g \in Handles, lock_register(g)
      PROVE  ExclusiveLock'
  <2>1. g \in OpenHandles /\ OpenHandles' = OpenHandles
    BY <1>8 DEF lock_register, OpenHandles
  <2>2. OpenHandles = {g}
    BY <1>8, <2>1, OpenFinite, CountFacts DEF lock_register
  <2> QED
    BY <1>8, <2>1, <2>2 DEF lock_register
<1>9. ASSUME NEW g \in Handles, unlock_register(g)
      PROVE  ExclusiveLock'
  BY <1>9 DEF unlock_register, OpenHandles
<1>10. ASSUME NEW u \in Threads, NEW g \in Handles, amc_pci_reg_read(u, g)
       PROVE  ExclusiveLock'
  <2>1. UNCHANGED <<state, lockVars>>
    BY <1>10 DEF amc_pci_reg_read, Starts
  <2> QED
    BY <2>1 DEF OpenHandles
<1>11. ASSUME NEW u \in Threads, NEW g \in Handles, amc_pci_reg_poll(u, g)
       PROVE  ExclusiveLock'
  BY <1>11 DEF amc_pci_reg_poll, Starts, OpenHandles
<1>12. ASSUME NEW u \in Threads, read_no_wait(u)
       PROVE  ExclusiveLock'
  BY <1>12 DEF read_no_wait, Xchg, Mask, OpenHandles
<1>13. ASSUME NEW u \in Threads, read_interrupt_events(u)
       PROVE  ExclusiveLock'
  <2>1. UNCHANGED <<state, lockVars>>
    BY <1>13 DEF read_interrupt_events, Condition
  <2> QED
    BY <2>1 DEF OpenHandles
<1>14. ASSUME NEW u \in Threads, prepare_to_wait(u)
       PROVE  ExclusiveLock'
  BY <1>14 DEF prepare_to_wait, Moves, OpenHandles
<1>15. ASSUME NEW u \in Threads, woken(u)
       PROVE  ExclusiveLock'
  BY <1>15 DEF woken, Moves, OpenHandles
<1>16. ASSUME NEW u \in Threads, amc_pci_reg_read_returns(u)
       PROVE  ExclusiveLock'
  BY <1>16 DEF amc_pci_reg_read_returns, Returns, OpenHandles
<1>17. ASSUME NEW u \in Threads, poll_wait(u)
       PROVE  ExclusiveLock'
  BY <1>17 DEF poll_wait, Moves, OpenHandles
<1>18. ASSUME NEW u \in Threads, interrupt_events_ready(u)
       PROVE  ExclusiveLock'
  BY <1>18 DEF interrupt_events_ready, Mask, Returns, OpenHandles
<1>19. ASSUME NEW u \in Threads, interrupted(u)
       PROVE  ExclusiveLock'
  BY <1>19 DEF interrupted, Moves, OpenHandles
<1>20. ASSUME NEW u \in Threads, poll_timeout(u)
       PROVE  ExclusiveLock'
  BY <1>20 DEF poll_timeout, Returns, OpenHandles
<1>21. CASE amc_pci_isr
  BY <1>21 DEF amc_pci_isr, OpenHandles
<1>22. CASE event_interrupt
  BY <1>22 DEF event_interrupt, OpenHandles
<1>23. CASE wake_up_all
  BY <1>23 DEF wake_up_all, OpenHandles
<1>24. CASE amc_pci_isr_ack
  BY <1>24 DEF amc_pci_isr_ack, OpenHandles
<1>25. ASSUME NEW b \in Bits, raise(b)
       PROVE  ExclusiveLock'
  BY <1>25 DEF raise, OpenHandles
<1>26. CASE UNCHANGED vars
  BY <1>26 DEF vars, OpenHandles
<1> QED
  BY <1>1, <1>2, <1>3, <1>4, <1>5, <1>6, <1>7, <1>8, <1>9, <1>10, <1>11,
     <1>12, <1>13, <1>14, <1>15, <1>16, <1>17, <1>18, <1>19, <1>20, <1>21,
     <1>22, <1>23, <1>24, <1>25, <1>26
     DEF Next, OpenStep, ReadStep, Isr

\* What the handler holds and what is latched is never older than a handle in
\* use.
LEMMA LiveStep ==
    TypeOK /\ LiveInv /\ [Next]_vars => LiveInv'
<1> SUFFICES ASSUME TypeOK, LiveInv, [Next]_vars
             PROVE  LiveInv'
  OBVIOUS
<1> USE NodeAssumption DEF TypeOK, LiveInv, Goto, Becomes, openVars, lockVars,
        isrVars, threadVars, histVars
<1>1. ASSUME NEW g \in Handles, amc_pci_reg_open(g)
      PROVE  LiveInv'
  BY <1>1 DEF amc_pci_reg_open
<1>2. ASSUME NEW g \in Handles, assign_reader_number(g)
      PROVE  LiveInv'
  BY <1>2 DEF assign_reader_number
<1>3. ASSUME NEW g \in Handles, reset_events(g)
      PROVE  LiveInv'
  BY <1>3 DEF reset_events
<1>4. ASSUME NEW g \in Handles, new_context(g)
      PROVE  LiveInv'
  BY <1>4 DEF new_context
<1>5. ASSUME NEW g \in Handles, count_in(g)
      PROVE  LiveInv'
  BY <1>5 DEF count_in
<1>6. ASSUME NEW g \in Handles, unassign_reader_number(g)
      PROVE  LiveInv'
  BY <1>6 DEF unassign_reader_number
<1>7. ASSUME NEW g \in Handles, amc_pci_reg_release(g)
      PROVE  LiveInv'
  BY <1>7 DEF amc_pci_reg_release
<1>8. ASSUME NEW g \in Handles, lock_register(g)
      PROVE  LiveInv'
  BY <1>8 DEF lock_register
<1>9. ASSUME NEW g \in Handles, unlock_register(g)
      PROVE  LiveInv'
  BY <1>9 DEF unlock_register
<1>10. ASSUME NEW u \in Threads, NEW g \in Handles, amc_pci_reg_read(u, g)
       PROVE  LiveInv'
  BY <1>10 DEF amc_pci_reg_read, Starts
<1>11. ASSUME NEW u \in Threads, NEW g \in Handles, amc_pci_reg_poll(u, g)
       PROVE  LiveInv'
  BY <1>11 DEF amc_pci_reg_poll, Starts
<1>12. ASSUME NEW u \in Threads, read_no_wait(u)
       PROVE  LiveInv'
  BY <1>12 DEF read_no_wait, Xchg, Mask
<1>13. ASSUME NEW u \in Threads, read_interrupt_events(u)
       PROVE  LiveInv'
  BY <1>13 DEF read_interrupt_events, Condition, Xchg, Mask, Returns
<1>14. ASSUME NEW u \in Threads, prepare_to_wait(u)
       PROVE  LiveInv'
  BY <1>14 DEF prepare_to_wait, Moves
<1>15. ASSUME NEW u \in Threads, woken(u)
       PROVE  LiveInv'
  BY <1>15 DEF woken, Moves
<1>16. ASSUME NEW u \in Threads, amc_pci_reg_read_returns(u)
       PROVE  LiveInv'
  BY <1>16 DEF amc_pci_reg_read_returns, Returns
<1>17. ASSUME NEW u \in Threads, poll_wait(u)
       PROVE  LiveInv'
  BY <1>17 DEF poll_wait, Moves
<1>18. ASSUME NEW u \in Threads, interrupt_events_ready(u)
       PROVE  LiveInv'
  BY <1>18 DEF interrupt_events_ready, Mask, Returns
<1>19. ASSUME NEW u \in Threads, interrupted(u)
       PROVE  LiveInv'
  BY <1>19 DEF interrupted, Moves
<1>20. ASSUME NEW u \in Threads, poll_timeout(u)
       PROVE  LiveInv'
  BY <1>20 DEF poll_timeout, Returns
<1>21. CASE amc_pci_isr
  BY <1>21 DEF amc_pci_isr
<1>22. CASE event_interrupt
  BY <1>22 DEF event_interrupt
<1>23. CASE wake_up_all
  BY <1>23 DEF wake_up_all
<1>24. CASE amc_pci_isr_ack
  BY <1>24 DEF amc_pci_isr_ack
<1>25. ASSUME NEW b \in Bits, raise(b)
       PROVE  LiveInv'
  BY <1>25 DEF raise
<1>26. CASE UNCHANGED vars
  BY <1>26 DEF vars
<1> QED
  BY <1>1, <1>2, <1>3, <1>4, <1>5, <1>6, <1>7, <1>8, <1>9, <1>10, <1>11,
     <1>12, <1>13, <1>14, <1>15, <1>16, <1>17, <1>18, <1>19, <1>20, <1>21,
     <1>22, <1>23, <1>24, <1>25, <1>26
     DEF Next, OpenStep, ReadStep, Isr

\* Nothing but the handler adds to a slot, and its owner emptied the slot
\* after it won it.
LEMMA StaleStep ==
    TypeOK /\ FileInv /\ SlotInv /\ LiveInv /\ NoStaleEvents /\ [Next]_vars
        => NoStaleEvents'
<1> SUFFICES ASSUME TypeOK, FileInv, SlotInv, LiveInv, NoStaleEvents,
                    [Next]_vars
             PROVE  NoStaleEvents'
  OBVIOUS
<1> USE NodeAssumption DEF TypeOK, FileInv, LiveInv, SlotInv, Owning,
        NoStaleEvents, Goto, Becomes, openVars, lockVars, isrVars, threadVars,
        histVars
<1>1. ASSUME NEW g \in Handles, amc_pci_reg_open(g)
      PROVE  NoStaleEvents'
  BY <1>1 DEF amc_pci_reg_open
<1>2. ASSUME NEW g \in Handles, assign_reader_number(g)
      PROVE  NoStaleEvents'
  BY <1>2 DEF assign_reader_number
<1>3. ASSUME NEW g \in Handles, reset_events(g)
      PROVE  NoStaleEvents'
  BY <1>3 DEF reset_events
<1>4. ASSUME NEW g \in Handles, new_context(g)
      PROVE  NoStaleEvents'
  BY <1>4 DEF new_context
<1>5. ASSUME NEW g \in Handles, count_in(g)
      PROVE  NoStaleEvents'
  BY <1>5 DEF count_in
<1>6. ASSUME NEW g \in Handles, unassign_reader_number(g)
      PROVE  NoStaleEvents'
  BY <1>6 DEF unassign_reader_number
<1>7. ASSUME NEW g \in Handles, amc_pci_reg_release(g)
      PROVE  NoStaleEvents'
  BY <1>7 DEF amc_pci_reg_release
<1>8. ASSUME NEW g \in Handles, lock_register(g)
      PROVE  NoStaleEvents'
  BY <1>8 DEF lock_register
<1>9. ASSUME NEW g \in Handles, unlock_register(g)
      PROVE  NoStaleEvents'
  BY <1>9 DEF unlock_register
<1>10. ASSUME NEW u \in Threads, NEW g \in Handles, amc_pci_reg_read(u, g)
       PROVE  NoStaleEvents'
  BY <1>10 DEF amc_pci_reg_read, Starts
<1>11. ASSUME NEW u \in Threads, NEW g \in Handles, amc_pci_reg_poll(u, g)
       PROVE  NoStaleEvents'
  BY <1>11 DEF amc_pci_reg_poll, Starts
<1>12. ASSUME NEW u \in Threads, read_no_wait(u)
       PROVE  NoStaleEvents'
  BY <1>12 DEF read_no_wait, Xchg, Mask
<1>13. ASSUME NEW u \in Threads, read_interrupt_events(u)
       PROVE  NoStaleEvents'
  BY <1>13 DEF read_interrupt_events, Condition, Xchg, Mask, Returns
<1>14. ASSUME NEW u \in Threads, prepare_to_wait(u)
       PROVE  NoStaleEvents'
  BY <1>14 DEF prepare_to_wait, Moves
<1>15. ASSUME NEW u \in Threads, woken(u)
       PROVE  NoStaleEvents'
  BY <1>15 DEF woken, Moves
<1>16. ASSUME NEW u \in Threads, amc_pci_reg_read_returns(u)
       PROVE  NoStaleEvents'
  BY <1>16 DEF amc_pci_reg_read_returns, Returns
<1>17. ASSUME NEW u \in Threads, poll_wait(u)
       PROVE  NoStaleEvents'
  BY <1>17 DEF poll_wait, Moves
<1>18. ASSUME NEW u \in Threads, interrupt_events_ready(u)
       PROVE  NoStaleEvents'
  BY <1>18 DEF interrupt_events_ready, Mask, Returns
<1>19. ASSUME NEW u \in Threads, interrupted(u)
       PROVE  NoStaleEvents'
  BY <1>19 DEF interrupted, Moves
<1>20. ASSUME NEW u \in Threads, poll_timeout(u)
       PROVE  NoStaleEvents'
  BY <1>20 DEF poll_timeout, Returns
<1>21. CASE amc_pci_isr
  BY <1>21 DEF amc_pci_isr
<1>22. CASE event_interrupt
  BY <1>22 DEF event_interrupt
<1>23. CASE wake_up_all
  BY <1>23 DEF wake_up_all
<1>24. CASE amc_pci_isr_ack
  BY <1>24 DEF amc_pci_isr_ack
<1>25. ASSUME NEW b \in Bits, raise(b)
       PROVE  NoStaleEvents'
  BY <1>25 DEF raise
<1>26. CASE UNCHANGED vars
  BY <1>26 DEF vars
<1> QED
  BY <1>1, <1>2, <1>3, <1>4, <1>5, <1>6, <1>7, <1>8, <1>9, <1>10, <1>11,
     <1>12, <1>13, <1>14, <1>15, <1>16, <1>17, <1>18, <1>19, <1>20, <1>21,
     <1>22, <1>23, <1>24, <1>25, <1>26
     DEF Next, OpenStep, ReadStep, Isr

\* A thread looks at its slot after it queued, and event_interrupt wakes all
\* who are queued after it stored the events.
LEMMA WakeStep ==
    TypeOK /\ FileInv /\ NoLostWakeup /\ [Next]_vars => NoLostWakeup'
<1> SUFFICES ASSUME TypeOK, FileInv, NoLostWakeup, [Next]_vars
             PROVE  NoLostWakeup'
  OBVIOUS
<1> USE NodeAssumption DEF TypeOK, FileInv, NoLostWakeup, Mask, Goto, Becomes,
        openVars, lockVars, isrVars, threadVars, histVars
<1>1. ASSUME NEW g \in Handles, amc_pci_reg_open(g)
      PROVE  NoLostWakeup'
  BY <1>1 DEF amc_pci_reg_open
<1>2. ASSUME NEW g \in Handles, assign_reader_number(g)
      PROVE  NoLostWakeup'
  BY <1>2 DEF assign_reader_number
<1>3. ASSUME NEW g \in Handles, reset_events(g)
      PROVE  NoLostWakeup'
  BY <1>3 DEF reset_events
<1>4. ASSUME NEW g \in Handles, new_context(g)
      PROVE  NoLostWakeup'
  BY <1>4 DEF new_context
<1>5. ASSUME NEW g \in Handles, count_in(g)
      PROVE  NoLostWakeup'
  BY <1>5 DEF count_in
<1>6. ASSUME NEW g \in Handles, unassign_reader_number(g)
      PROVE  NoLostWakeup'
  BY <1>6 DEF unassign_reader_number
<1>7. ASSUME NEW g \in Handles, amc_pci_reg_release(g)
      PROVE  NoLostWakeup'
  BY <1>7 DEF amc_pci_reg_release
<1>8. ASSUME NEW g \in Handles, lock_register(g)
      PROVE  NoLostWakeup'
  BY <1>8 DEF lock_register
<1>9. ASSUME NEW g \in Handles, unlock_register(g)
      PROVE  NoLostWakeup'
  BY <1>9 DEF unlock_register
<1>10. ASSUME NEW u \in Threads, NEW g \in Handles, amc_pci_reg_read(u, g)
       PROVE  NoLostWakeup'
  BY <1>10 DEF amc_pci_reg_read, Starts
<1>11. ASSUME NEW u \in Threads, NEW g \in Handles, amc_pci_reg_poll(u, g)
       PROVE  NoLostWakeup'
  BY <1>11 DEF amc_pci_reg_poll, Starts
<1>12. ASSUME NEW u \in Threads, read_no_wait(u)
       PROVE  NoLostWakeup'
  BY <1>12 DEF read_no_wait, Xchg
<1>13. ASSUME NEW u \in Threads, read_interrupt_events(u)
       PROVE  NoLostWakeup'
  BY <1>13 DEF read_interrupt_events, Condition, Xchg, Returns
<1>14. ASSUME NEW u \in Threads, prepare_to_wait(u)
       PROVE  NoLostWakeup'
  BY <1>14 DEF prepare_to_wait, Moves
<1>15. ASSUME NEW u \in Threads, woken(u)
       PROVE  NoLostWakeup'
  BY <1>15 DEF woken, Moves
<1>16. ASSUME NEW u \in Threads, amc_pci_reg_read_returns(u)
       PROVE  NoLostWakeup'
  BY <1>16 DEF amc_pci_reg_read_returns, Returns
<1>17. ASSUME NEW u \in Threads, poll_wait(u)
       PROVE  NoLostWakeup'
  BY <1>17 DEF poll_wait, Moves
<1>18. ASSUME NEW u \in Threads, interrupt_events_ready(u)
       PROVE  NoLostWakeup'
  BY <1>18 DEF interrupt_events_ready, Returns
<1>19. ASSUME NEW u \in Threads, interrupted(u)
       PROVE  NoLostWakeup'
  BY <1>19 DEF interrupted, Moves
<1>20. ASSUME NEW u \in Threads, poll_timeout(u)
       PROVE  NoLostWakeup'
  BY <1>20 DEF poll_timeout, Returns
<1>21. CASE amc_pci_isr
  BY <1>21 DEF amc_pci_isr
<1>22. CASE event_interrupt
  BY <1>22 DEF event_interrupt
<1>23. CASE wake_up_all
  BY <1>23 DEF wake_up_all
<1>24. CASE amc_pci_isr_ack
  BY <1>24 DEF amc_pci_isr_ack
<1>25. ASSUME NEW b \in Bits, raise(b)
       PROVE  NoLostWakeup'
  BY <1>25 DEF raise
<1>26. CASE UNCHANGED vars
  BY <1>26 DEF vars
<1> QED
  BY <1>1, <1>2, <1>3, <1>4, <1>5, <1>6, <1>7, <1>8, <1>9, <1>10, <1>11,
     <1>12, <1>13, <1>14, <1>15, <1>16, <1>17, <1>18, <1>19, <1>20, <1>21,
     <1>22, <1>23, <1>24, <1>25, <1>26
     DEF Next, OpenStep, ReadStep, Isr

\* The handler stores what it read in every slot before it acknowledges it,
\* and a reader takes only its own slot's mask.
LEMMA EventStep ==
    TypeOK /\ FileInv /\ SlotInv /\ LiveInv /\ NoEventLost /\ [Next]_vars
        => NoEventLost'
<1> SUFFICES ASSUME TypeOK, FileInv, SlotInv, LiveInv, NoEventLost,
                    [Next]_vars
             PROVE  NoEventLost'
  OBVIOUS
<1> USE NodeAssumption DEF TypeOK, FileInv, SlotInv, Owning, LiveInv,
        NoEventLost, OpenHandles, Kept, Stored, Slots, Goto, Becomes,
        openVars, lockVars, isrVars, threadVars, histVars
<1>1. ASSUME NEW g \in Handles, amc_pci_reg_open(g)
      PROVE  NoEventLost'
  BY <1>1 DEF amc_pci_reg_open
<1>2. ASSUME NEW g \in Handles, assign_reader_number(g)
      PROVE  NoEventLost'
  BY <1>2 DEF assign_reader_number
<1>3. ASSUME NEW g \in Handles, reset_events(g)
      PROVE  NoEventLost'
  BY <1>3 DEF reset_events
<1>4. ASSUME NEW g \in Handles, new_context(g)
      PROVE  NoEventLost'
  BY <1>4 DEF new_context
<1>5. ASSUME NEW g \in Handles, count_in(g)
      PROVE  NoEventLost'
  BY <1>5 DEF count_in
<1>6. ASSUME NEW g \in Handles, unassign_reader_number(g)
      PROVE  NoEventLost'
  BY <1>6 DEF unassign_reader_number
<1>7. ASSUME NEW g \in Handles, amc_pci_reg_release(g)
      PROVE  NoEventLost'
  BY <1>7 DEF amc_pci_reg_release
<1>8. ASSUME NEW g \in Handles, lock_register(g)
      PROVE  NoEventLost'
  BY <1>8 DEF lock_register
<1>9. ASSUME NEW g \in Handles, unlock_register(g)
      PROVE  NoEventLost'
  BY <1>9 DEF unlock_register
<1>10. ASSUME NEW u \in Threads, NEW g \in Handles, amc_pci_reg_read(u, g)
       PROVE  NoEventLost'
  BY <1>10 DEF amc_pci_reg_read, Starts
<1>11. ASSUME NEW u \in Threads, NEW g \in Handles, amc_pci_reg_poll(u, g)
       PROVE  NoEventLost'
  BY <1>11 DEF amc_pci_reg_poll, Starts
<1>12. ASSUME NEW u \in Threads, read_no_wait(u)
       PROVE  NoEventLost'
  BY <1>12 DEF read_no_wait, Xchg, Mask
<1>13. ASSUME NEW u \in Threads, read_interrupt_events(u)
       PROVE  NoEventLost'
  <2>1. CASE Xchg(u)
    BY <1>13, <2>1 DEF read_interrupt_events, Condition, Xchg, Mask
  <2>2. CASE UNCHANGED <<events, owed, late>>
    BY <1>13, <2>2 DEF read_interrupt_events, Condition
  <2> QED
    BY <1>13, <2>1, <2>2 DEF read_interrupt_events, Condition
<1>14. ASSUME NEW u \in Threads, prepare_to_wait(u)
       PROVE  NoEventLost'
  BY <1>14 DEF prepare_to_wait, Moves
<1>15. ASSUME NEW u \in Threads, woken(u)
       PROVE  NoEventLost'
  BY <1>15 DEF woken, Moves
<1>16. ASSUME NEW u \in Threads, amc_pci_reg_read_returns(u)
       PROVE  NoEventLost'
  BY <1>16 DEF amc_pci_reg_read_returns, Returns
<1>17. ASSUME NEW u \in Threads, poll_wait(u)
       PROVE  NoEventLost'
  BY <1>17 DEF poll_wait, Moves
<1>18. ASSUME NEW u \in Threads, interrupt_events_ready(u)
       PROVE  NoEventLost'
  BY <1>18 DEF interrupt_events_ready, Mask, Returns
<1>19. ASSUME NEW u \in Threads, interrupted(u)
       PROVE  NoEventLost'
  BY <1>19 DEF interrupted, Moves
<1>20. ASSUME NEW u \in Threads, poll_timeout(u)
       PROVE  NoEventLost'
  BY <1>20 DEF poll_timeout, Returns
<1>21. CASE amc_pci_isr
  BY <1>21 DEF amc_pci_isr
<1>22. CASE event_interrupt
  BY <1>22 DEF event_interrupt
<1>23. CASE wake_up_all
  BY <1>23 DEF wake_up_all
<1>24. CASE amc_pci_isr_ack
  BY <1>24 DEF amc_pci_isr_ack
<1>25. ASSUME NEW b \in Bits, raise(b)
       PROVE  NoEventLost'
  BY <1>25 DEF raise
<1>26. CASE UNCHANGED vars
  BY <1>26 DEF vars
<1> QED
  BY <1>1, <1>2, <1>3, <1>4, <1>5, <1>6, <1>7, <1>8, <1>9, <1>10, <1>11,
     <1>12, <1>13, <1>14, <1>15, <1>16, <1>17, <1>18, <1>19, <1>20, <1>21,
     <1>22, <1>23, <1>24, <1>25, <1>26
     DEF Next, OpenStep, ReadStep, Isr

-----------------------------------------------------------------------------
(* The theorems. *)

\* IInv holds in every reachable state of the register node.
THEOREM Inductive == Spec => []IInv
<1>1. Init => IInv
  BY InitIInv
<1>2. IInv /\ [Next]_vars => IInv'
  BY TypeStep, FileStep, SlotStep, LockStep, LiveStep, StaleStep, WakeStep,
     EventStep DEF IInv
<1> QED
  BY <1>1, <1>2, PTL DEF Spec

\* Every variable keeps its type; amc_pci_reg_release never takes
\* reference_count below zero.
THEOREM TypeCorrect == Spec => []TypeOK
<1>1. IInv => TypeOK
  BY DEF IInv
<1> QED
  BY Inductive, <1>1, PTL

\* The slots in active_readers are those of the handles in use, one each,
\* whatever opens fail and however they interleave.
THEOREM SlotsCorrect == Spec => []SlotsAccounted
<1>1. IInv => SlotsAccounted
  BY DEF IInv, SlotInv, SlotsAccounted, Owning
<1> QED
  BY Inductive, <1>1, PTL

\* Holding AMC_REG_LOCK means being the only open handle.
THEOREM LockExcludes == Spec => []ExclusiveLock
<1>1. IInv => ExclusiveLock
  BY DEF IInv
<1> QED
  BY Inductive, <1>1, PTL

\* No reader or poller sleeps on events that are already in its slot.
THEOREM WakeupNotLost == Spec => []NoLostWakeup
<1>1. IInv => NoLostWakeup
  BY DEF IInv
<1> QED
  BY Inductive, <1>1, PTL

\* A new owner of a slot sees no event from before its open().
THEOREM EventsFresh == Spec => []NoStaleEvents
<1>1. IInv => NoStaleEvents
  BY DEF IInv
<1> QED
  BY Inductive, <1>1, PTL

\* An event raised while a handle is open is not lost on its way to that
\* handle, unless it is raised again in the window before the handler's write
\* of iar.
THEOREM EventsKept == Spec => []NoEventLost
<1>1. IInv => NoEventLost
  BY DEF IInv
<1> QED
  BY Inductive, <1>1, PTL
===============================================================================

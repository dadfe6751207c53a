---------------------------- MODULE RegisterNode ----------------------------
(***************************************************************************)
(* The register node: open(), close() and the locking ioctls (registers.c) *)
(* and the event stream behind read() and poll() (interrupts.c).  Every    *)
(* open handle owns one of N_EVENT_READERS slots; the user half of the     *)
(* interrupt handler adds the active interrupts to every slot and wakes    *)
(* everybody; a read takes its slot's mask with atomic_xchg.               *)
(*                                                                         *)
(* Bit 0 of the interrupt controller, the DMA engine's, is not among Bits: *)
(* module DmaTransfer models it.  A section under locking.mutex is one     *)
(* step, as is each atomic operation on active_readers or events.          *)
(*                                                                         *)
(* An operator whose name ends in _Mut is a deliberately wrong variant of  *)
(* the definition it precedes; no specification uses it.                   *)
(***************************************************************************)
EXTENDS Naturals, FiniteSets

CONSTANTS
    Handles,           \* struct register_context: the files that may be open
    Threads,           \* threads that call read() or poll()
    Bits,              \* user interrupts
    N_EVENT_READERS,   \* number of reader slots
    None               \* no handle

VARIABLES
    state,            \* where each handle's open() or close() is
    slot,             \* the handle's reader_number; while scanning, the next
                      \* slot to try
    active_readers,   \* set of slots taken
    locked_by,        \* struct register_locking
    reference_count,
    events,           \* slot -> the event mask kept for its reader
    intc,             \* the interrupt controller's isr register
    isrPc,            \* where the interrupt handler is
    isrSaw,           \* its copy of isr
    isrReader,        \* loop index of event_interrupt
    wait_queue,       \* threads queued for a wake-up
    tpc,              \* where each thread is inside read() or poll()
    file,             \* the handle it uses
    got,              \* the mask it took
    live,             \* history: events pending or raised since open() began
    owed,             \* history: events raised and not yet taken
    late              \* history: those raised after the handler had stored
                      \* the same event and before it acknowledged it

openVars   == <<state, slot>>
lockVars   == <<locked_by, reference_count>>
isrVars    == <<isrPc, isrSaw, isrReader>>
threadVars == <<tpc, file, got>>
histVars   == <<live, owed, late>>
vars == <<state, slot, active_readers, locked_by, reference_count, events,
          intc, isrPc, isrSaw, isrReader, wait_queue, tpc, file, got, live,
          owed, late>>

ASSUME NodeAssumption ==
    /\ IsFiniteSet(Handles)
    /\ None \notin Handles
    /\ N_EVENT_READERS \in Nat \ {0}

Slots  == 0 .. N_EVENT_READERS - 1
\* A handle owns its slot in these states, and is counted when "open".
Owning == {"reset", "context", "count", "open", "unassign"}
States == {"closed", "scan"} \cup Owning
\* A thread is in the wait loop, or holds a mask it took.
Places == {"idle", "take", "try", "prepare", "retry", "sleep", "last", "copy",
           "poll_wait", "poll_check", "poll_sleep"}

Init ==
    /\ state = [h \in Handles |-> "closed"]
    /\ slot = [h \in Handles |-> 0]
    /\ active_readers = {}
    /\ locked_by = None /\ reference_count = 0
    /\ events = [s \in Slots |-> {}]
    /\ intc = {}
    /\ isrPc = "idle" /\ isrSaw = {} /\ isrReader = 0
    /\ wait_queue = {}
    /\ tpc = [t \in Threads |-> "idle"]
    /\ file = [t \in Threads |-> None]
    /\ got = [t \in Threads |-> {}]
    /\ live = [h \in Handles |-> {}]
    /\ owed = [h \in Handles |-> {}]
    /\ late = [h \in Handles |-> {}]

-----------------------------------------------------------------------------
(* open() and close(). *)

Becomes(h, s) == state' = [state EXCEPT ![h] = s]

amc_pci_reg_open(h) ==
    /\ state[h] = "closed"
    /\ Becomes(h, "scan")
    /\ slot' = [slot EXCEPT ![h] = 0]
    /\ live' = [live EXCEPT ![h] =
                    intc \cup (IF isrPc = "idle" THEN {} ELSE isrSaw)]
    /\ UNCHANGED <<active_readers, lockVars, events, intc, isrVars,
                   wait_queue, threadVars, owed, late>>

\* Wrong: set_bit instead of test_and_set_bit, so a taken slot is shared.
assign_reader_number_Mut(h) ==
    /\ state[h] = "scan"
    /\ active_readers' = active_readers \cup {slot[h]}
    /\ Becomes(h, "reset")
    /\ UNCHANGED <<slot, lockVars, events, intc, isrVars, wait_queue,
                   threadVars, histVars>>

\* One round of the loop: take the slot, or try the next one, or give up.
assign_reader_number(h) ==
    /\ state[h] = "scan"
    /\ \/ /\ slot[h] \notin active_readers
          /\ active_readers' = active_readers \cup {slot[h]}
          /\ Becomes(h, "reset")
          /\ UNCHANGED slot
       \/ /\ slot[h] \in active_readers
          /\ slot[h] + 1 \in Slots
          /\ slot' = [slot EXCEPT ![h] = slot[h] + 1]
          /\ UNCHANGED <<state, active_readers>>
       \/ /\ slot[h] \in active_readers
          /\ slot[h] + 1 \notin Slots
          /\ Becomes(h, "closed")
          /\ UNCHANGED <<slot, active_readers>>
    /\ UNCHANGED <<lockVars, events, intc, isrVars, wait_queue, threadVars,
                   histVars>>

\* Wrong: the events of the slot's last owner are kept.
reset_events_Mut(h) ==
    /\ state[h] = "reset"
    /\ Becomes(h, "context")
    /\ UNCHANGED <<slot, active_readers, lockVars, events, intc, isrVars,
                   wait_queue, threadVars, histVars>>

\* The atomic_set after the bit was won.
reset_events(h) ==
    /\ state[h] = "reset"
    /\ events' = [events EXCEPT ![slot[h]] = {}]
    /\ Becomes(h, "context")
    /\ UNCHANGED <<slot, active_readers, lockVars, intc, isrVars, wait_queue,
                   threadVars, histVars>>

\* kmalloc of the context may fail.
new_context(h) ==
    /\ state[h] = "context"
    /\ Becomes(h, "count") \/ Becomes(h, "unassign")
    /\ UNCHANGED <<slot, active_readers, lockVars, events, intc, isrVars,
                   wait_queue, threadVars, histVars>>

\* Wrong: the lock is not looked at.
count_in_Mut(h) ==
    /\ state[h] = "count"
    /\ reference_count' = reference_count + 1
    /\ Becomes(h, "open")
    /\ owed' = [owed EXCEPT ![h] = {}]
    /\ late' = [late EXCEPT ![h] = {}]
    /\ UNCHANGED <<slot, active_readers, locked_by, events, intc, isrVars,
                   wait_queue, threadVars, live>>

\* The section under the mutex that ends open(): EBUSY if somebody locked.
count_in(h) ==
    /\ state[h] = "count"
    /\ \/ /\ locked_by # None
          /\ Becomes(h, "unassign")
          /\ UNCHANGED <<reference_count, owed, late>>
       \/ /\ locked_by = None
          /\ reference_count' = reference_count + 1
          /\ Becomes(h, "open")
          /\ owed' = [owed EXCEPT ![h] = {}]
          /\ late' = [late EXCEPT ![h] = {}]
    /\ UNCHANGED <<slot, active_readers, locked_by, events, intc, isrVars,
                   wait_queue, threadVars, live>>

\* Wrong: giving up the lock drops a reference of its own.
amc_pci_reg_release_Mut(h) ==
    /\ state[h] = "open"
    /\ \A t \in Threads : file[t] # h
    /\ locked_by' = IF locked_by = h THEN None ELSE locked_by
    /\ reference_count' = reference_count - (IF locked_by = h THEN 2 ELSE 1)
    /\ Becomes(h, "unassign")
    /\ UNCHANGED <<slot, active_readers, events, intc, isrVars, wait_queue,
                   threadVars, histVars>>

\* The last close() of a handle: no thread is inside a call on it.
amc_pci_reg_release(h) ==
    /\ state[h] = "open"
    /\ \A t \in Threads : file[t] # h
    /\ locked_by' = IF locked_by = h THEN None ELSE locked_by
    /\ reference_count' = reference_count - 1
    /\ Becomes(h, "unassign")
    /\ UNCHANGED <<slot, active_readers, events, intc, isrVars, wait_queue,
                   threadVars, histVars>>

\* The end of close() and of every failed open().
unassign_reader_number(h) ==
    /\ state[h] = "unassign"
    /\ active_readers' = active_readers \ {slot[h]}
    /\ Becomes(h, "closed")
    /\ UNCHANGED <<slot, lockVars, events, intc, isrVars, wait_queue,
                   threadVars, histVars>>

\* AMC_REG_LOCK; its two refusals with EBUSY change nothing.
lock_register(h) ==
    /\ state[h] = "open"
    /\ ~ reference_count > 1
    /\ locked_by = None
    /\ locked_by' = h
    /\ UNCHANGED <<openVars, active_readers, reference_count, events, intc,
                   isrVars, wait_queue, threadVars, histVars>>

\* AMC_REG_UNLOCK; EINVAL changes nothing.
unlock_register(h) ==
    /\ state[h] = "open"
    /\ locked_by = h
    /\ locked_by' = None
    /\ UNCHANGED <<openVars, active_readers, reference_count, events, intc,
                   isrVars, wait_queue, threadVars, histVars>>

-----------------------------------------------------------------------------
(* read() and poll() on an open handle. *)

Goto(t, place) == tpc' = [tpc EXCEPT ![t] = place]
Mask(t) == events[slot[file[t]]]

Starts(t, h, place) ==
    /\ tpc[t] = "idle"
    /\ state[h] = "open"
    /\ Goto(t, place)
    /\ file' = [file EXCEPT ![t] = h]
    /\ UNCHANGED <<openVars, active_readers, lockVars, events, intc, isrVars,
                   wait_queue, got, histVars>>

Returns(t) ==
    /\ Goto(t, "idle")
    /\ file' = [file EXCEPT ![t] = None]
    /\ got' = [got EXCEPT ![t] = {}]

\* read(): a non-blocking one goes on only if it finds events; a count below
\* four and EAGAIN return at once.
amc_pci_reg_read(t, h) ==
    \/ events[slot[h]] # {} /\ Starts(t, h, "take")
    \/ Starts(t, h, "try")

\* The atomic_xchg of read_interrupt_events.
Xchg(t) ==
    /\ got' = [got EXCEPT ![t] = Mask(t)]
    /\ events' = [events EXCEPT ![slot[file[t]]] = {}]
    /\ owed' = [owed EXCEPT ![file[t]] = @ \ Mask(t)]
    /\ late' = [late EXCEPT ![file[t]] = @ \ Mask(t)]

\* Without blocking the mask is taken even if a rival has emptied it.
read_no_wait(t) ==
    /\ tpc[t] = "take"
    /\ Xchg(t)
    /\ Goto(t, "copy")
    /\ UNCHANGED <<openVars, active_readers, lockVars, intc, isrVars,
                   wait_queue, file, live>>

\* wait_event_interruptible evaluates its condition before it queues, after
\* it has queued, and once more after a signal.
Condition(t, here, otherwise) ==
    /\ tpc[t] = here
    /\ \/ /\ Mask(t) # {}
          /\ Xchg(t)
          /\ Goto(t, "copy")
          /\ wait_queue' = wait_queue \ {t}
          /\ UNCHANGED file
       \/ /\ Mask(t) = {}
          /\ otherwise
          /\ UNCHANGED <<wait_queue, events, owed, late>>
    /\ UNCHANGED <<openVars, active_readers, lockVars, intc, isrVars, live>>

read_interrupt_events(t) ==
    \/ Condition(t, "try", Goto(t, "prepare") /\ UNCHANGED <<file, got>>)
    \/ Condition(t, "retry", Goto(t, "sleep") /\ UNCHANGED <<file, got>>)
    \/ Condition(t, "last", Returns(t))

Moves(t, here, there) ==
    /\ tpc[t] = here
    /\ Goto(t, there)
    /\ UNCHANGED <<openVars, active_readers, lockVars, events, intc, isrVars,
                   file, got, histVars>>

\* Wrong: the thread goes to sleep without looking again.
prepare_to_wait_Mut(t) ==
    /\ Moves(t, "prepare", "sleep")
    /\ wait_queue' = wait_queue \cup {t}

prepare_to_wait(t) ==
    /\ Moves(t, "prepare", "retry")
    /\ wait_queue' = wait_queue \cup {t}

\* schedule() returns once the thread was woken, which takes it off the queue.
woken(t) ==
    /\ t \notin wait_queue
    /\ Moves(t, "sleep", "prepare") \/ Moves(t, "poll_sleep", "poll_wait")
    /\ UNCHANGED wait_queue

\* A signal ends the sleep; the condition is still evaluated once.
interrupted(t) ==
    /\ Moves(t, "sleep", "last")
    /\ wait_queue' = wait_queue \ {t}

\* copy_to_user: four bytes, EFAULT, or EAGAIN if the mask was empty.
amc_pci_reg_read_returns(t) ==
    /\ tpc[t] = "copy"
    /\ Returns(t)
    /\ UNCHANGED <<openVars, active_readers, lockVars, events, intc, isrVars,
                   wait_queue, histVars>>

\* poll(): queue, look, sleep; a wake-up looks again and a timeout gives up.
amc_pci_reg_poll(t, h) == Starts(t, h, "poll_wait")

poll_wait(t) ==
    /\ Moves(t, "poll_wait", "poll_check")
    /\ wait_queue' = wait_queue \cup {t}

interrupt_events_ready(t) ==
    /\ tpc[t] = "poll_check"
    /\ \/ /\ Mask(t) = {}
          /\ Goto(t, "poll_sleep")
          /\ UNCHANGED <<wait_queue, file, got>>
       \/ /\ Mask(t) # {}
          /\ Returns(t)
          /\ wait_queue' = wait_queue \ {t}
    /\ UNCHANGED <<openVars, active_readers, lockVars, events, intc, isrVars,
                   histVars>>

poll_timeout(t) ==
    /\ tpc[t] = "poll_sleep"
    /\ Returns(t)
    /\ wait_queue' = wait_queue \ {t}
    /\ UNCHANGED <<openVars, active_readers, lockVars, events, intc, isrVars,
                   histVars>>

-----------------------------------------------------------------------------
(* The user half of amc_pci_isr. *)

amc_pci_isr ==
    /\ isrPc = "idle"
    /\ intc # {}
    /\ isrSaw' = intc
    /\ isrReader' = 0
    /\ isrPc' = "store"
    /\ UNCHANGED <<openVars, active_readers, lockVars, events, intc,
                   wait_queue, threadVars, histVars>>

\* Wrong: the last slot is left out.
event_interrupt_Mut ==
    /\ isrPc = "store"
    /\ events' = [events EXCEPT ![isrReader] = @ \cup isrSaw]
    /\ \/ /\ isrReader + 2 \in Slots
          /\ isrReader' = isrReader + 1
          /\ UNCHANGED isrPc
       \/ /\ isrReader + 2 \notin Slots
          /\ isrPc' = "wake"
          /\ UNCHANGED isrReader
    /\ UNCHANGED <<openVars, active_readers, lockVars, intc, isrSaw,
                   wait_queue, threadVars, histVars>>

\* One atomic_or of the loop over all slots, in use or not.
event_interrupt ==
    /\ isrPc = "store"
    /\ events' = [events EXCEPT ![isrReader] = @ \cup isrSaw]
    /\ \/ /\ isrReader + 1 \in Slots
          /\ isrReader' = isrReader + 1
          /\ UNCHANGED isrPc
       \/ /\ isrReader + 1 \notin Slots
          /\ isrPc' = "wake"
          /\ UNCHANGED isrReader
    /\ UNCHANGED <<openVars, active_readers, lockVars, intc, isrSaw,
                   wait_queue, threadVars, histVars>>

\* Wrong: exclusive waits and wake_up instead of wake_up_all, which then wakes
\* one sleeper only.
wake_up_all_Mut ==
    /\ isrPc = "wake"
    /\ \/ wait_queue = {} /\ UNCHANGED wait_queue
       \/ \E t \in wait_queue : wait_queue' = wait_queue \ {t}
    /\ isrPc' = "ack"
    /\ UNCHANGED <<openVars, active_readers, lockVars, events, intc, isrSaw,
                   isrReader, threadVars, histVars>>

wake_up_all ==
    /\ isrPc = "wake"
    /\ wait_queue' = {}
    /\ isrPc' = "ack"
    /\ UNCHANGED <<openVars, active_readers, lockVars, events, intc, isrSaw,
                   isrReader, threadVars, histVars>>

\* Writing iar clears the bits that were read at the start.
amc_pci_isr_ack ==
    /\ isrPc = "ack"
    /\ intc' = intc \ isrSaw
    /\ isrSaw' = {}
    /\ isrPc' = "idle"
    /\ UNCHANGED <<openVars, active_readers, lockVars, events, isrReader,
                   wait_queue, threadVars, histVars>>

\* The handler is past the slot of handle h.
Stored(h) ==
    \/ isrPc \in {"wake", "ack"}
    \/ isrPc = "store" /\ slot[h] < isrReader

\* The FPGA signals event b (external: an edge the controller latches).
raise(b) ==
    /\ intc' = intc \cup {b}
    /\ live' = [h \in Handles |-> IF state[h] = "closed" THEN live[h]
                                  ELSE live[h] \cup {b}]
    /\ owed' = [h \in Handles |-> IF state[h] = "open" THEN owed[h] \cup {b}
                                  ELSE owed[h]]
    /\ late' = [h \in Handles |-> IF b \in isrSaw /\ Stored(h)
                                  THEN late[h] \cup {b} ELSE late[h] \ {b}]
    /\ UNCHANGED <<openVars, active_readers, lockVars, events, isrVars,
                   wait_queue, threadVars>>

-----------------------------------------------------------------------------
OpenStep(h) ==
    \/ assign_reader_number(h)
    \/ reset_events(h)
    \/ new_context(h)
    \/ count_in(h)
    \/ unassign_reader_number(h)

ReadStep(t) ==
    \/ read_no_wait(t)
    \/ read_interrupt_events(t)
    \/ prepare_to_wait(t)
    \/ woken(t)
    \/ amc_pci_reg_read_returns(t)
    \/ poll_wait(t)
    \/ interrupt_events_ready(t)

Isr == amc_pci_isr \/ event_interrupt \/ wake_up_all \/ amc_pci_isr_ack

Next ==
    \/ \E h \in Handles :
        \/ amc_pci_reg_open(h)
        \/ OpenStep(h)
        \/ amc_pci_reg_release(h)
        \/ lock_register(h)
        \/ unlock_register(h)
    \/ \E t \in Threads :
        \/ \E h \in Handles : amc_pci_reg_read(t, h) \/ amc_pci_reg_poll(t, h)
        \/ ReadStep(t)
        \/ interrupted(t)
        \/ poll_timeout(t)
    \/ Isr
    \/ \E b \in Bits : raise(b)

Spec == Init /\ [][Next]_vars

\* Runnable threads run and a pending interrupt is taken.  Nothing makes the
\* FPGA raise an event, a user call read() or close(), or a signal come.
Fairness ==
    /\ WF_vars(Isr)
    /\ \A h \in Handles : WF_vars(OpenStep(h))
    /\ \A t \in Threads : WF_vars(ReadStep(t))

FairSpec == Spec /\ Fairness

-----------------------------------------------------------------------------
(* Properties. *)

OpenHandles == {h \in Handles : state[h] = "open"}

\* Every variable keeps its type, and reference_count never goes negative.
TypeOK ==
    /\ state \in [Handles -> States]
    /\ slot \in [Handles -> Slots]
    /\ active_readers \subseteq Slots
    /\ locked_by \in Handles \cup {None}
    /\ reference_count \in Nat
    /\ events \in [Slots -> SUBSET Bits]
    /\ intc \subseteq Bits
    /\ isrPc \in {"idle", "store", "wake", "ack"}
    /\ isrSaw \subseteq Bits /\ isrReader \in Slots
    /\ wait_queue \subseteq Threads
    /\ tpc \in [Threads -> Places]
    /\ file \in [Threads -> Handles \cup {None}]
    /\ got \in [Threads -> SUBSET Bits]
    /\ live \in [Handles -> SUBSET Bits]
    /\ owed \in [Handles -> SUBSET Bits]
    /\ late \in [Handles -> SUBSET Bits]

\* No slot of active_readers is shared or leaked: the taken slots are those of
\* the handles that are open, opening or closing, one each, on the error paths
\* of amc_pci_reg_open too.
SlotsAccounted ==
    LET owners == {h \in Handles : state[h] \in Owning}
    IN  /\ active_readers = {slot[h] : h \in owners}
        /\ \A g, h \in owners : slot[g] = slot[h] => g = h

\* "Locks and unlocks access to register area for exclusive access by caller"
\* (amc_pci_device.h): while a handle holds the lock no other handle is open,
\* and lock_register's count is the number of open handles.
ExclusiveLock ==
    /\ reference_count = Cardinality(OpenHandles)
    /\ locked_by # None => OpenHandles = {locked_by}

\* A thread asleep in read() or poll() with events in its slot is about to be
\* woken: event_interrupt has not called wake_up_all yet.
NoLostWakeup ==
    \A t \in wait_queue :
        tpc[t] \in {"sleep", "poll_sleep"} /\ Mask(t) # {} =>
            isrPc \in {"store", "wake"}

\* "reset events for new readers" (interrupts.c): a slot's new owner never
\* sees an event that was over before its open() began.
NoStaleEvents ==
    \A h \in Handles :
        state[h] \in {"context", "count", "open"} =>
            events[slot[h]] \subseteq live[h]

\* Where an event that handle h has not taken yet can be: latched and not
\* about to be acknowledged, in the handler's hands, or in h's slot.
Kept(h) == (intc \ isrSaw) \cup (IF Stored(h) THEN {} ELSE isrSaw)
                          \cup events[slot[h]]

\* An event raised while a handle is open stays on its way to that handle
\* until a read takes it, except for one raised again between event_interrupt
\* and the write of iar.
NoEventLost ==
    \A h \in OpenHandles : owed[h] \ late[h] \subseteq Kept(h)

\* A read() that blocks while an event is owed to its handle returns, unless
\* a rival on the same handle takes the event.
EventReachesReader ==
    \A t \in Threads, h \in Handles, b \in Bits :
        /\ file[t] = h /\ tpc[t] \in {"try", "prepare", "retry", "sleep"}
        /\ b \in owed[h] \ late[h]
        ~> tpc[t] = "idle" \/ b \notin owed[h] \ late[h]
=============================================================================

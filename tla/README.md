# TLA+ models of the AmcPciDev driver

AmcPciDev is a Linux kernel driver for an FPGA card (AMC525).  It gives user
space one *register node* per card (memory-mapped registers and a stream of
interrupt events) and any number of *memory nodes*, which are read and written
through one DMA engine.  This directory holds TLA+ models of the driver, the TLC
configurations that check small instances, and proofs checked by TLAPS.

## The system

| Part | Source | State | Operations | Talks to |
|---|---|---|---|---|
| DMA engine control | `dma_control.c` | buffer, mutex, completion, engine registers | lock, unlock, one transfer, reset, interrupt | engine (registers), handler (completion) |
| Memory nodes | `memory.c` | base, length and position per file | open, close, read, write, seek, two ioctls | DMA control |
| Interrupts and events | `interrupts.c` | slot mask, one event mask per slot, wait queue | assign and unassign a slot, read events, handler | interrupt controller, DMA control, readers |
| Register node | `registers.c` | context per file, `locked_by`, `reference_count` | open, close, mmap, lock, unlock, read, poll | events |
| Board lifecycle | `amc_pci_core.c` | `struct amc_pci`, reference count, completion, board mask | module init and exit, probe, remove, open, release, sysfs reads | all of the above, PCI core |
| PROM contents | `prom_processing.c`, `utils.c` | copy of the PROM, entry counts | load, check, walk | lifecycle |
| PROM creator | `tools/prom_data_creator.py` | none | write a PROM image | PROM contents |

What is hard about it: system calls on one board run concurrently with each
other, with the interrupt handler and with the hardware; a wait can be ended by
SIGKILL while the engine runs on; a reset can miss its deadline; the board can
vanish at any time (FPGA reload) while files are open, being opened, or sysfs
files are being read; and each of probe's fourteen steps may fail.  What each
part must guarantee:

* DMA: a transfer's data is its caller's, memory behaves as an atomic memory; no
  wait without a `complete()` to come; every call returns.
* Events: no event and no wake-up is lost, none is delivered twice to a slot or
  to a later owner of the slot.
* Register node: the lock excludes, slots are neither shared nor leaked.
* Lifecycle: whoever uses a resource finds it there; what a probe acquired is
  given back; remove ends.
* PROM: every image the loader accepts is well formed, and minors map to the
  entries their nodes were made for.

## Modules

| Module | Models | Checked by | Proved in |
|---|---|---|---|
| `DmaTransfer` | `dma_control.c`, `memory.c` from the lock on, DMA half of the handler, the engine | `DmaSafety`, `DmaLiveness`, `DmaResetDeadline`, `DmaKilledRead` | `DmaTransferProofs` |
| `AtomicMemory` | the abstract specification of the memory nodes | | |
| `DmaRefinement` | the mapping by which `DmaTransfer` implements `AtomicMemory` | `DmaSafety` | `DmaRefinementProofs` |
| `MemoryNode` | `memory.c`: ranges, alignment, file position | `MemoryWindow` | `MemoryNodeProofs` |
| `RegisterNode` | `registers.c`, `interrupts.c`, user half of the handler | `NodeSafety`, `NodeLiveness` | `RegisterNodeProofs` |
| `BoardLifecycle` | `amc_pci_core.c`, set-up and release of the other parts | `BoardLife`, `BoardNumbers`, `BoardLateOpen`, `BoardKilledDma` | `BoardLifecycleProofs` |
| `PromLoad` | `prom_processing.c`, `utils.c`, `prom_data_creator.py`, and what `amc_pci_core.c` does with PROM entries | `PromImages` | `PromLoadProofs`, `PromImageProofs`, `PromConfigProofs` |

`MC…` modules only add symmetry sets and constants for TLC.  Operators
with `_Mut` in their name are deliberately wrong variants of the definition they
precede.  They are used to see that each property notices a plausible mistake.

### DmaTransfer

A client is a thread inside `read()` or `write()` of a memory node whose range
checks have passed.  `pc` says where it is; each label is a point between two
effects on shared state.  `dma_memory_lock` and `dma_memory_unlock` are the mutex;
`dma_operation_unlocked` hands the buffer over and re-arms the completion;
`configure_dma_engine` refuses misaligned requests and decides on a reset
(`maybe_reset_dma`, from the error bits and the idle bit);
`reset_dma_controller`, `reset_finished` and `reset_deadline` are the write, the
good end and the deadline of the polling loop; `program_engine` writes the
address and length registers; `wait_for_completion` and `killed` are the two
ends of the killable wait; `check_dma_status` hands the buffer back and reads the
error bits.  The handler is `amc_pci_isr`, the three steps of `dma_interrupt` and
the write of `iar`.  Registers are sets of the bits that are set.  A block and
the buffer hold one datum each; `Torn` is content that is no caller's block.
`cpuBuf` and `devBuf` are the two views of the buffer; with `Coherent` they move
together, without it only the `dma_sync` calls move data between them.

The engine is external (Xilinx PG034), modelled from the way `dma_control.c`
uses it: it ends a transfer with an interrupt or with an error and an interrupt,
its status bits are cleared by writing them back, its line into the interrupt
controller is level-triggered (comment at `interrupts.c:134`), and a soft reset
clears the enables and may let a transfer that is under way complete.  Its idle bit
says whether a transfer is under way; what it reads as during a reset is left open
(`IdleReads`), so a call after a missed deadline may or may not ask for another reset,
or start its transfer while the reset goes on.

`clean` is a history variable: the clients that found nothing of an earlier
transfer left when they got the mutex.  `short` holds those whose data was
copied from user space in part; the kernel fills the rest of such a copy with zeros,
which makes the block `Torn`.

### AtomicMemory and DmaRefinement

`AtomicMemory` is what a user of memory nodes may rely on.  A call is accepted,
served (one at a time), answered, and returns.  While it is served, a write
stores its block, and only its block; a read is answered with the block as it
then is; nothing else changes memory.  A call that fails may have stored its
block.  A call that SIGKILL ends may leave a transfer behind; from then on a
served call is `sure` only if nothing was left when it was served, stray stores
happen only while no sure call is served, and a read that is not sure is answered
with `Unspecified`.

`DmaRefinement` maps `DmaTransfer` to it: served is the holder of the mutex, sure
is `clean`, a call whose data was copied in part asks for a `Torn` block, and the
answer is there when the call is about to unlock.  `Memory!Spec` is then a
property of `DmaTransfer` (`ImplementsMemory`).  It says more than the integrity
invariants: a read never changes memory, and no write changes another block.

### MemoryNode

One open file with the area (base, length) its PROM entry gives it, threads that
share it, and its position.  `amc_pci_dma_call` is everything before the lock: it
takes the position (or the caller's own, for `pread` and `pwrite`), checks it
against the area and computes the request; `ReadRequest` widens a read to aligned
addresses and clips it at the end of the area, `WriteRequest` refuses what does
not fit.  `amc_pci_dma_read` and `amc_pci_dma_write` are the transfer and the copy
to the user, `mem_err` all errors from the lock on.  `vfs_return` stores the
position; the kernel (external) gives each call a copy of it and does not
serialise calls on a character device.  `got` and `moved` are history variables:
the FPGA addresses a call moved for its user, and the offsets any call or seek
has gone over.  Assumed (`AreaAssumption`): the alignment is not larger than the
buffer; areas fit into the address space; the VFS caps counts, so nothing wraps.

### PromLoad

The operators from `Pack` to `process_config_file` compute the bytes the creator
writes for a configuration file, a sequence of lines: names, areas, masks, alignments
and versions, in any order, a version line anywhere or nowhere.  A name is a sequence
of characters and a character the sequence of its bytes in UTF-8 (`Chars`): as in the
creator, the size of an entry counts characters (`len(name)`) and the bytes that are
written are those of `name.encode()`.  A permission is letters or, without any, a
number.  `WellFormed` are the files that are meant to be loaded: the version first and
once, and names of one-byte characters only, which is ASCII text.  Only of those can an
image be read back; in the image of another name the next entry does not start where
the loader's walk looks for it.  The PROM starts with such an image, or with
arbitrary bytes and a good checksum, with or without the magic number or the right
version, and any byte behind it; an image too long for the PROM is cut.  `Damage`
changes one byte of an image before it is read.  `load_prom`, `scan_entry` and
`scan_end` are the loader; where the walk has left the buffer, the size it reads
may be anything.  `initialise_board` applies the limit of entries and picks the
mask and the alignment, `create_device_nodes` and `device_create` make the nodes,
`amc_pci_open` finds the entry of a minor and checks the rights, and
`destroy_device_nodes` is the loop of remove.  A byte has `Radix` values, and base
and length have one byte each in the short form and two in the long one, which
leaves every comparison and every carry of the checksum in place.

### RegisterNode

A handle is an open (or opening, or closing) `register_context`; `state` says
where.  The scan of `assign_reader_number` is one step per bit, the reset of the
events a step of its own, the sections under `locking.mutex` one step each.
Threads call `read()` and `poll()` on open handles, several on one handle if they
like.  `wait_event_interruptible` is unfolded as the kernel does it: condition,
queue, condition, sleep, and once more the condition after a signal.  Waking
takes a thread off `wait_queue`.  The handler adds its copy of `isr` to one slot
per step, wakes all, and acknowledges.  Calls that return an error without
changing anything (EAGAIN, EINVAL, EBUSY of the ioctls, a count below four) are
not actions.

User interrupts are assumed to be edges that the controller latches in `isr`
(nothing in the driver could lower a level).  History variables: `live[h]` are
the events pending or raised since `open()` began, `owed[h]` those raised since
it returned and not yet taken, `late[h]` those raised again after the handler
had stored the same event for `h` and before it wrote `iar`.

### BoardLifecycle

Probe is a walk along `Steps`; a step adds its resource to `res[d]` or, if it
is in `Faults`, fails and enters `UnwindLadder` at the label its `goto` names
(`Label`).  Remove walks down `RemoveLadder`; its rungs `count` and `clients` are
the two halves of `wait_for_clients`.  A resource name stands for what the code
acquires there: `device`, `regions`, `msi` in `enable_board`; `bar2`, `prom`,
`dma`, `irq` in `initialise_board`; `cdev`, `nodes` in `create_device_nodes`;
`priv` is `struct amc_pci`.  `initialise_dma_control`,
`initialise_interrupt_control` and `load_prom` undo themselves on failure and are
one step each.  Files go through the kernel's `chrdev_open` (external: the lookup
of the cdev, before the driver is called), `amc_pci_open`, the node's own open,
transfers, and `amc_pci_release`.  `free_irq` waits for a running handler and
`sysfs_remove_bin_file` for running reads, as the kernel guarantees; `cdev_del`
waits for nobody.  `stale` holds files whose `struct amc_pci` was freed,
`orphans` what a failed probe left behind.  A sysfs file left behind can still be
read, and makes the next probe of the device fail with `EEXIST`.

## Runs

Passing runs:

* `DmaSafety`: 2 clients, 2 blocks, 2 data values, one kill, one missed
  deadline, separate CPU and device views of the buffer (the coherent case is in
  the other runs, and the theorems cover both); invariants and the refinement.
  Two clients are enough for one to inherit what the other left; a second block
  shows data that went to the wrong place.  Deadlock
  is not checked: after a missed deadline a client may wait for ever, which is
  what `DmaResetDeadline` shows.
* `DmaLiveness`: one kill, no missed deadline; every call returns.
* `NodeSafety`: 3 handles on 2 slots, so that opens fail, slots are reused and
  the scan passes taken slots; 1 thread, 1 event.  One event is enough to race
  with itself; more threads and events are covered by the theorems.
* `NodeLiveness`: 1 handle with 2 threads competing for it.
* `BoardLife`: 1 board, 2 files, every step may fail; safety, and that remove
  ends.
* `BoardNumbers`: 3 boards, 2 numbers.  States with a running handler or sysfs
  read are not explored further: these only delay a teardown.
* `MemoryWindow`: 2 threads; alignment 2, a buffer of 8 and an engine limit of 5,
  which is not aligned; bases 2 and 3, lengths 4 and 7 (aligned and not), counts
  0, 2 and 5, every position up to one past the end.
* `PromImages`: a PROM of 26 bytes, 8 values to a byte, 3 minors.  Behind a version
  line, all files of up to two lines over thirteen lines, and those of three and four
  that begin with a name; files without a version, with another version or with a
  second one; files with names of two-byte characters; and all bodies of five or six bytes out of a few values.  Images shorter than,
  as long as and longer than the PROM, odd and even, all occur.  Deadlock is not
  checked: probe and remove come to an end.

Runs that find a comment of the source contradicted by what the code does
(details and quotations in `PROJECT.json`, `findings`):

* `DmaResetDeadline`: a missed reset deadline leaves the engine's interrupts
  disabled; a later transfer is never reported and its caller waits for ever.
* `DmaKilledRead`: after a kill the next reader may return the wrong block.
* `BoardLateOpen`: an open that found the cdev before remove looks at a freed
  reference count.
* `BoardKilledDma`: the DMA buffer is freed while a killed transfer runs.

One finding needs no run of its own: the repository's `README.rst` (line 45) says "At
present only DMA read operations are supported", but `amc_pci_dma_write` supports
writes, and `WriteIntegrity` in `DmaSafety` is about those that succeed.

Where the code gives less than one might wish and no comment promises it, the
passing property says so by its exception:

* `WriteIntegrity` speaks of blocks copied from user space in full: after a
  partial `copy_from_user` the rest of the block, which the kernel has filled with
  zeros, is written too and the full count reported (`memory.c:83`).
* `NoEventLost` excepts an event raised again after the handler stored it and
  before it writes `iar` (`interrupts.c:137`).
* `SysfsSafe` promises the PROM buffer and the mapping only outside of remove,
  which takes them away before the sysfs files (`amc_pci_core.c:532`), and nothing
  to a reader of a file that a failing probe leaves behind (`amc_pci_core.c:495`).
* `RoundTrip`, `OpensAsConfigured` and `DamageDetected` speak of `WellFormed` files:
  for a name that is not ASCII the creator writes a size that is too small
  (`prom_data_creator.py:58,64,73`).  Images of such names, and of files without the
  version in front, are in the run all the same, and the other properties hold of
  whatever the loader makes of them.
* `HardwareReturned` excepts the PROM buffer (a failing `initialise_dma_control`
  jumps past its release), and the cdev, nodes and first sysfs file (a failure
  after `cdev_add` jumps past `destroy_device_nodes`).

The bounds `MaxKills` and `MaxTimeouts` only limit TLC; all other state is finite
once the constants are.

### Fairness

* `DmaTransfer`: weak fairness for each client past its entry, for the handler
  and for the engine (runnable threads run, raised interrupts are taken, the
  engine ends transfers and resets); strong fairness for getting the mutex,
  because kernel mutexes are handed over in queue order.  None for calls,
  kills and deadlines.
* `RegisterNode`: weak fairness for steps inside open, close, read and poll and
  for the handler.  None for users, signals, timeouts and events.
* `BoardLifecycle`: weak fairness for teardown, engine, handler, sysfs reads and
  open; strong fairness for `amc_pci_release`, an assumption on users: each file
  is closed in the end.  Remove cannot end otherwise.

## Proofs

`DmaTransferProofs` proves, for any constants that satisfy `DmaAssumption`
(`None` is none of the other values, the bounds are naturals): `TypeCorrect`,
`CompletionNotLost`, `OnlyKillsDisturb`, `ReadCorrect`, `WriteCorrect`.  They
follow from one inductive invariant `IInv`:

* `LockInv`: who is between lock and unlock is who holds the mutex, with the
  facts each label relies on; and during a reset the interrupt is disabled.  Even `TypeOK` needs this: only a client inside a call has
  arguments to program the engine with.
* `WaitInv` strengthens `NoLostCompletion`: a latched bit 0 counts only if the
  engine's line is still high, since the acknowledgement may be about to clear
  it.
* `CleanInv`: a client that found all quiet and waits is in one of five phases
  (running, interrupt raised, interrupt cleared, completed, or ended by an earlier
  call's late reset and never to be completed), with the data in place in the second to
  the fourth.  The transfer is then its own, for the block it asked
  for or, if that was copied in part, for a torn one.
* `NoKillInv`: until a wait is killed, all is quiet whenever the mutex is free.

`DmaRefinementProofs` proves `Refinement`: `DmaTransfer` implements
`AtomicMemory`.  One lemma per step says which step of the abstract memory it is,
or that it leaves that memory alone.  The step that matters is the engine's: by
`CleanInv`, when it stores a block while a sure call is served, the block is that
call's, and if no sure call is served, some wait was killed before.
`ReplyAssumption` keeps the replies apart from `None`.

`MemoryNodeProofs` proves `TypeCorrect`, `StaysInArea`, `PositionRespected`,
`ReadsInFull` and `PositionBehindData` for any alignment, buffer, engine limit,
area and counts (`AreaAssumption`).  First come lemmas about rounding
(`AlignDownBounds`, `AlignBounds`, `AlignDownShift`: an area that does not start
aligned still has its aligned addresses where the position says), then
`ReadRequestFacts`, what the request of a read covers.  The invariant adds
`CallInv` to the properties: while a call is under way its request is the one that
its position and count lead to.

`RegisterNodeProofs` proves, for finitely many handles and any number of threads,
events and slots (`NodeAssumption`): `TypeCorrect`, `SlotsCorrect`,
`LockExcludes`, `WakeupNotLost`, `EventsFresh`, `EventsKept`.  The invariant adds
to the properties themselves `FileInv` (a thread inside a call keeps its file
open, hence its slot), `SlotInv` and `LiveInv` (what the handler holds is never
older than a handle in use).  `ExclusiveLock` speaks of a cardinality;
`CountFacts` collects the facts needed about it.

`BoardLifecycleProofs` proves, for any number of boards, files and board numbers
and any set of steps that may fail (`LifecycleAssumption`): `TypeCorrect`,
`ClientsKeepBoard`, `HandlerKeepsBoard`, `ReadersKeepBoard`, `NumbersDistinct`,
`LadderReturns`, `ModuleLast`.  The invariant consists of

* `HoldsInv`: what a board holds is given by how far probe, unwinding or remove
  has come, up to the leftovers that `HardwareReturned` excepts.  `LabelFits` says
  that each failing step jumps to a label below which everything acquired so far
  is released, except those leftovers.  It follows from the order of the three
  lists (`StepOrder`, `RemoveOrder`, `UnwindOrder`).
* `CountInv`: the reference count is the number of files that use the board
  (`Users`), plus one until remove has dropped the driver's own; the completion is
  done once, when the count first is zero.  `ClientsSafe` alone is not inductive:
  it does not say that remove's wait is over only when no user is left.
* `FileInv`: a file that is not stale has a board that still exists and has added
  its cdev; `ModuleInv`: no file without the driver, no board without the class;
  `IsrInv`: no handler without its interrupt.

`PromLoadProofs` proves, for a PROM of any length, bytes and fields of any width,
all configuration files and all bytes that may stand in the PROM
(`PromAssumption`: no character's UTF-8 form is empty or has a zero byte;
`ConfigAssumption`: every line is one that the creator can pack):
`TypeCorrect`, `WalksAgreeAlways`, `NodesOpenRight`, `DestroysRight`.

* The operators recurse over bytes and lines.  `LeastElement` (from the
  well-foundedness of strict inclusion of finite sets) gives `Induction` along an
  interval, stated with a set instead of a predicate, and `Recursion`: a function
  computed by one step function per index exists.  With them a recursive
  definition can be unfolded and its result typed: `ImageBytes` (an image is a
  sequence of bytes) needs this for powers, for the checksum's sum and for the
  lines of a file.
* `WalkExists` and `Walk`: because each entry lies behind the one before, the walk
  exists, visits entries within the PROM only, each the next of the one before,
  and ends at an end marker or outside (`WalkFrom`).  `Places` and `WalkCounts` say
  this index by index.
* The invariant relates the loops to that walk: `ScanInv`, the loader is at the
  place behind the entries it has counted; `AcceptInv`, it accepts only at the
  end of the walk; `NodeList` and `NodesInv`, node k belongs to the k-th
  entry that needs a minor, and the loop that makes the nodes is at the place
  behind the entries it has served.  `MinorOnce`: a minor has one entry at
  most, since the number of minors before an entry grows with each entry that
  needs one.

`PromImageProofs` adds what the bytes of an image are, and proves `ImageInductive`
and `DamageFound`, for all `WellFormed` files:

* The bytes: `Written(c)[k]` is what has been written after the k-th line behind the
  version; `At(c, k)`, its
  length, is where the next entry starts.  `Prefix`: later lines change nothing
  before it; `EndShape`: the end entry makes the length even.
* The walk: `Laid(p, c)` says that PROM p has the tags and the sizes of the entries
  of file c at those places, and nothing of their contents, so `Damage` keeps it.
  `ImageWalk`: the loader's walk over such a PROM meets entry k at
  `At(c, k - 1)` and ends at the end entry, by `Induction` along the lines.
* The checksum: a fold takes away a multiple of `Word - 1` (`FoldOnce`), and two
  folds make a word of any sum below `Word * Word` (`FoldTwice`), so the checksum is
  zero only for multiples of `Word - 1`, and for all of them but 0 (`ZeroChecksum`).
  The sum of an image is one (`ImageSum`); another value of one byte, low or high
  in its word, changes it by less than `Word - 1` (`SumsDiffer`), so never to another
  one.  This needs `LengthAssumption`: with more words than a word has
  values, two folds might not be enough (4096 bytes against 65536 in the code).
* The invariant: `ImageInv`, the PROM holds the image, or the image with
  one byte changed, its entries laid out as before; `OutcomeInv`, it is accepted
  only if intact and shorter than the PROM, and rejected only if not.

`PromConfigProofs` proves `ImagesRoundTrip` and `OpensRight`, again for all
`WellFormed` files.  With characters of one byte the size of an entry is the length of
what follows it (`Dumped` in `PromImageProofs`); without, both theorems
would be false.

* Each field is read as it was written: `NumberRead` (by induction, the first i
  digits of `Pack(x, n)` are x modulo the i-th power), `NameRead` (a name has no
  zero byte, and its end is within the PROM), `PermRead`; together `FieldsRead`, in
  the short and in the long form.  `LineMet` says so of entry k of an
  accepted image and line k of its file.
* `ConfigInv` adds `SettingsInv`: from `initialise_board` on the engine has the first
  mask and alignment of the file, and there is an engine if there is an area; no
  file is open before.  `LineOfMinor`: entry and line of a minor have the same
  index, since entries need a minor just when their lines describe a node, and
  no two entries have the same minor (`MinorOnce`).  `NoneAssumption` keeps
  `None` apart from an index and from the settings of an engine.

Each preservation lemma has one step per action.  Only model-checked are the
liveness properties (`EveryCallReturns`, `EventReachesReader`, `RemoveFinishes`),
since TLAPS does not handle fairness here; every invariant and action property of a
passing run is proved.

## Not modelled

* `debug.c` prints registers; `error.h` holds goto macros, which every failing
  action models a use of; the hot-plug script and service cause a probe or a
  remove at any time; build files, packaging and udev rules do nothing at run
  time.
* `mmap` of the registers and the size ioctls change no state of the driver.
* Sysfs reads of the PROM are uses of its buffer and mapping in `BoardLifecycle`;
  the bytes they return are not modelled (`read_prom` asks for offsets and counts
  that are multiples of four).
* The creator's parsing of its text file and its output formats.
* Of the hardware and the kernel, only what the driver's code relies on.

## Plan

The plan is done: every component that keeps state is modelled, and every safety
property of a passing run is proved.  What would come next:

1. The liveness properties, once the prover handles fairness; their arguments rest
   on the invariants above (`WaitInv`, `CountInv`).
2. The nine hazards without a property (`PROJECT.json`, `hazards`): they are
   behaviours the code has and no comment denies, or inputs its models leave out by a
   named assumption, to be stated as properties when the code decides for or
   against them.

--------------------------- MODULE BoardLifecycle ---------------------------
(***************************************************************************)
(* The life of a board (amc_pci_core.c): probe acquires its resources one  *)
(* by one and unwinds them through a ladder of gotos when a step fails,    *)
(* remove takes them down again after waiting for the open files, and all  *)
(* the while files are opened, used and closed, the interrupt handler runs *)
(* and the two sysfs files are read.  The module's own init and exit frame *)
(* all this.                                                               *)
(*                                                                         *)
(* A resource is a name in the set res[d]; a step that acquires or frees   *)
(* it adds or removes the name.  What the PROM contains is a free choice.  *)
(*                                                                         *)
(* An operator with _Mut in its name is a deliberately wrong variant of    *)
(* the definition it precedes; no specification uses it.                   *)
(***************************************************************************)
EXTENDS Naturals, Sequences

CONSTANTS
    Devs,         \* struct pci_dev: boards the PCI core may bind and unbind
    Files,        \* open file descriptions
    MAX_BOARDS,   \* number of board numbers
    Faults,       \* the steps of probe and init that may fail
    None          \* no device

VARIABLES
    module,          \* resources of the loaded module, and "exiting"
    device_boards,   \* board numbers taken
    board,           \* the device's board number, or the next one to try
    stage,           \* "unbound", "probe", "bound", "remove" or "unwind"
    at,              \* next step of probe, or next rung of a ladder
    res,             \* resources held for the device
    withDma,         \* devices whose PROM lists DMA areas
    refcount,        \* struct amc_pci.refcount
    completion,      \* struct amc_pci.completion
    fpc,             \* where each file is
    fdev,            \* its device
    running,         \* devices whose DMA engine is moving data
    inIsr,           \* devices whose interrupt handler is running
    reading,         \* sysfs files being read, as <<device, file>>
    stale,           \* history: files whose struct amc_pci was freed
    orphans          \* history: resources a failed probe never released

devVars  == <<device_boards, board, stage, at, res, withDma, orphans>>
refVars  == <<refcount, completion>>
fileVars == <<fpc, fdev, stale>>
actVars  == <<running, inIsr, reading>>
vars == <<module, device_boards, board, stage, at, res, withDma, refcount,
          completion, fpc, fdev, running, inIsr, reading, stale, orphans>>

\* The steps of amc_pci_probe; "minors" is a check and acquires nothing.
Steps == <<"board", "priv", "device", "regions", "msi", "bar2", "prom",
           "minors", "dma", "irq", "cdev", "nodes", "sysfs1", "sysfs2">>
Resources == {Steps[i] : i \in DOMAIN Steps} \ {"minors"}

ASSUME LifecycleAssumption ==
    /\ None \notin Devs
    /\ MAX_BOARDS \in Nat \ {0}
    /\ Faults \subseteq {Steps[i] : i \in DOMAIN Steps}
                     \cup {"chrdev", "class", "driver"}

\* The labels at the end of amc_pci_probe and of the functions it calls, as
\* one ladder: irq to bar2 is terminate_board, msi to device disable_board.
UnwindLadder == <<"irq", "dma", "prom", "bar2", "msi", "regions", "device",
                  "priv", "board">>

\* Wrong: terminate_board stops the DMA engine before the interrupt.
RemoveLadder_Mut ==
    <<"nodes", "cdev", "count", "clients", "dma", "irq", "prom", "bar2",
      "msi", "regions", "device", "board", "sysfs1", "sysfs2", "priv">>

\* Wrong: struct amc_pci is freed before the second sysfs file is removed.
RemoveLadder_MutSysfs ==
    <<"nodes", "cdev", "count", "clients", "irq", "dma", "prom", "bar2",
      "msi", "regions", "device", "board", "sysfs1", "priv", "sysfs2">>

\* amc_pci_remove: "count" and "clients" are the two steps of
\* wait_for_clients.
RemoveLadder ==
    <<"nodes", "cdev", "count", "clients", "irq", "dma", "prom", "bar2",
      "msi", "regions", "device", "board", "sysfs1", "sysfs2", "priv">>

\* Wrong: a failure to register the interrupt skips terminate_dma_control.
Label_Mut(step) ==
    CASE step = "priv"    -> 9
      [] step = "device"  -> 8
      [] step = "regions" -> 7
      [] step = "msi"     -> 6
      [] step = "bar2"    -> 5
      [] step \in {"prom", "dma"} -> 4
      [] step \in {"minors", "irq"} -> 3
      [] OTHER -> 1

\* Where the goto of a failed step enters the ladder.  The label no_dma
\* follows release_prom_context; a failure to create the nodes or the sysfs
\* files enters above terminate_board.
Label(step) ==
    CASE step = "priv"    -> 9
      [] step = "device"  -> 8
      [] step = "regions" -> 7
      [] step = "msi"     -> 6
      [] step = "bar2"    -> 5
      [] step \in {"prom", "dma"} -> 4
      [] step = "minors"  -> 3
      [] step = "irq"     -> 2
      [] OTHER -> 1

Init ==
    /\ module = {}
    /\ device_boards = {}
    /\ board = [d \in Devs |-> 0]
    /\ stage = [d \in Devs |-> "unbound"]
    /\ at = [d \in Devs |-> 1]
    /\ res = [d \in Devs |-> {}]
    /\ withDma = {}
    /\ refcount = [d \in Devs |-> 0]
    /\ completion = [d \in Devs |-> 0]
    /\ fpc = [f \in Files |-> "closed"]
    /\ fdev = [f \in Files |-> None]
    /\ running = {} /\ inIsr = {} /\ reading = {} /\ stale = {}
    /\ orphans = [d \in Devs |-> {}]

-----------------------------------------------------------------------------
(* The module: amc_pci_init and amc_pci_exit. *)

\* amc_pci_init acquires three things or, on failure, none: its ladder undoes
\* what was done.
amc_pci_init ==
    /\ module = {}
    /\ \/ module' = {"chrdev", "class", "driver"}
       \/ Faults \cap {"chrdev", "class", "driver"} # {} /\ UNCHANGED module
    /\ UNCHANGED <<devVars, refVars, fileVars, actVars>>

\* rmmod is refused while a file pins the module.  pci_unregister_driver
\* then removes every bound device ...
amc_pci_exit ==
    /\ "driver" \in module
    /\ \A f \in Files : fpc[f] = "closed"
    /\ module' = (module \ {"driver"}) \cup {"exiting"}
    /\ UNCHANGED <<devVars, refVars, fileVars, actVars>>

\* Wrong: the class is destroyed without waiting for the devices.
amc_pci_exit_done_Mut ==
    /\ "exiting" \in module
    /\ module' = {}
    /\ UNCHANGED <<devVars, refVars, fileVars, actVars>>

\* ... before the class and the device numbers go.
amc_pci_exit_done ==
    /\ "exiting" \in module
    /\ \A d \in Devs : stage[d] = "unbound"
    /\ module' = {}
    /\ UNCHANGED <<devVars, refVars, fileVars, actVars>>

-----------------------------------------------------------------------------
(* amc_pci_probe. *)

AtStep(d, steps) == stage[d] = "probe" /\ Steps[at[d]] \in steps

\* The step succeeded and res[d] gained what it acquired.
Acquire(d) ==
    /\ res' = [res EXCEPT ![d] = @ \cup ({Steps[at[d]]} \cap Resources)]
    /\ \/ at[d] < Len(Steps) /\ at' = [at EXCEPT ![d] = @ + 1]
                             /\ UNCHANGED stage
       \/ at[d] = Len(Steps) /\ at' = [at EXCEPT ![d] = 1]
                             /\ stage' = [stage EXCEPT ![d] = "bound"]
    /\ UNCHANGED <<orphans, stale>>

\* A failed step's goto; released is what its own error exit gives back.
Unwind(d, released) ==
    /\ stage' = [stage EXCEPT ![d] = "unwind"]
    /\ at' = [at EXCEPT ![d] = Label(Steps[at[d]])]
    /\ res' = [res EXCEPT ![d] = @ \ released]
    /\ UNCHANGED <<orphans, stale>>

Fail(d, released) == Steps[at[d]] \in Faults /\ Unwind(d, released)

amc_pci_probe(d) ==
    /\ stage[d] = "unbound"
    /\ "driver" \in module
    /\ stage' = [stage EXCEPT ![d] = "probe"]
    /\ at' = [at EXCEPT ![d] = 1]
    /\ board' = [board EXCEPT ![d] = 0]
    /\ UNCHANGED <<module, device_boards, res, withDma, orphans, refVars,
                   fileVars, actVars>>

\* Wrong: set_bit instead of test_and_set_bit.
get_free_board_Mut(d) ==
    /\ AtStep(d, {"board"})
    /\ device_boards' = device_boards \cup {board[d]}
    /\ Acquire(d)
    /\ UNCHANGED <<module, board, withDma, refVars, fpc, fdev, actVars>>

\* One round of the loop over the board numbers; when they are all taken
\* probe returns.
get_free_board(d) ==
    /\ AtStep(d, {"board"})
    /\ \/ /\ board[d] \notin device_boards
          /\ device_boards' = device_boards \cup {board[d]}
          /\ Acquire(d)
          /\ UNCHANGED board
       \/ /\ board[d] \in device_boards
          /\ board[d] + 1 < MAX_BOARDS
          /\ board' = [board EXCEPT ![d] = @ + 1]
          /\ UNCHANGED <<device_boards, stage, at, res, orphans, stale>>
       \/ /\ board[d] \in device_boards
          /\ board[d] + 1 = MAX_BOARDS
          /\ stage' = [stage EXCEPT ![d] = "unbound"]
          /\ UNCHANGED <<device_boards, board, at, res, orphans, stale>>
    /\ UNCHANGED <<module, withDma, refVars, fpc, fdev, actVars>>

\* kmalloc of struct amc_pci, and its reference count and completion.
new_amc_pci(d) ==
    /\ AtStep(d, {"priv"})
    /\ \/ /\ Acquire(d)
          /\ refcount' = [refcount EXCEPT ![d] = 1]
          /\ completion' = [completion EXCEPT ![d] = 0]
       \/ Fail(d, {}) /\ UNCHANGED refVars
    /\ UNCHANGED <<module, device_boards, board, withDma, fpc, fdev, actVars>>

enable_board(d) ==
    /\ AtStep(d, {"device", "regions", "msi"})
    /\ Acquire(d) \/ Fail(d, {})
    /\ UNCHANGED <<module, device_boards, board, withDma, refVars, fpc, fdev,
                   actVars>>

\* BAR2 is mapped, the PROM loaded and its number of entries checked, the DMA
\* and the interrupt control set up.  Whether the PROM lists DMA areas is
\* known once it is loaded; if it does not, the dma step is passed over.
initialise_board(d) ==
    /\ AtStep(d, {"bar2", "prom", "minors", "dma", "irq"})
    /\ \/ /\ AtStep(d, {"prom"})
          /\ Acquire(d)
          /\ withDma' \in {withDma \cup {d}, withDma \ {d}}
       \/ /\ AtStep(d, {"dma"}) /\ d \notin withDma
          /\ at' = [at EXCEPT ![d] = @ + 1]
          /\ UNCHANGED <<stage, res, withDma, orphans, stale>>
       \/ /\ ~ AtStep(d, {"prom"}) /\ (AtStep(d, {"dma"}) => d \in withDma)
          /\ Acquire(d)
          /\ UNCHANGED withDma
       \/ /\ AtStep(d, {"dma"}) => d \in withDma
          /\ Fail(d, {})
          /\ UNCHANGED withDma
    /\ UNCHANGED <<module, device_boards, board, refVars, fpc, fdev, actVars>>

\* cdev_add makes the board available at once; the nodes follow.  A PROM with
\* two device entries, or a DMA area before the device entry, ends the loop
\* after some nodes were created: then cdev_del, but no device_destroy.
create_device_nodes(d) ==
    /\ AtStep(d, {"cdev", "nodes"})
    /\ \/ Acquire(d)
       \/ AtStep(d, {"cdev"}) /\ Fail(d, {})
       \/ AtStep(d, {"nodes"}) /\ Fail(d, {"cdev"})
       \/ /\ AtStep(d, {"nodes"}) /\ "nodes" \in Faults
          /\ stage' = [stage EXCEPT ![d] = "unwind"]
          /\ at' = [at EXCEPT ![d] = Label("nodes")]
          /\ res' = [res EXCEPT ![d] = (@ \ {"cdev"}) \cup {"nodes"}]
          /\ UNCHANGED <<orphans, stale>>
    /\ UNCHANGED <<module, device_boards, board, withDma, refVars, fpc, fdev,
                   actVars>>

\* EEXIST if an earlier probe of the device left the file behind.
sysfs_create_bin_file(d) ==
    /\ AtStep(d, {"sysfs1", "sysfs2"})
    /\ \/ Steps[at[d]] \notin orphans[d] /\ Acquire(d)
       \/ Steps[at[d]] \in orphans[d] /\ Unwind(d, {})
       \/ Fail(d, {})
    /\ UNCHANGED <<module, device_boards, board, withDma, refVars, fpc, fdev,
                   actVars>>

-----------------------------------------------------------------------------
(* The two ladders. *)

AtRung(d) == IF stage[d] = "unwind" THEN UnwindLadder[at[d]]
             ELSE RemoveLadder[at[d]]

LastRung(d) == at[d] = Len(IF stage[d] = "unwind" THEN UnwindLadder
                           ELSE RemoveLadder)

\* Resource r is being taken away.
Leaving(d, r) == stage[d] \in {"unwind", "remove"} /\ AtRung(d) = r

\* One rung down; the last one leaves the device unbound.
Down(d) ==
    \/ /\ ~ LastRung(d)
       /\ at' = [at EXCEPT ![d] = @ + 1]
       /\ UNCHANGED stage
    \/ /\ LastRung(d)
       /\ at' = [at EXCEPT ![d] = 1]
       /\ stage' = [stage EXCEPT ![d] = "unbound"]

\* terminate_board, disable_board, destroy_device_nodes, release_board and
\* the frees: each gives back one resource.  free_irq waits for the handler,
\* removing a sysfs file for its readers, and neither lets in new ones.
release_resource(d) ==
    /\ stage[d] \in {"unwind", "remove"}
    /\ AtRung(d) \in Resources
    /\ AtRung(d) = "irq" => d \notin inIsr
    /\ <<d, AtRung(d)>> \notin reading
    /\ Down(d)
    /\ device_boards' = IF AtRung(d) = "board" THEN device_boards \ {board[d]}
                        ELSE device_boards
    /\ stale' = IF AtRung(d) = "priv"
                THEN stale \cup {f \in Files : fdev[f] = d} ELSE stale
    /\ LET left == res[d] \ {AtRung(d)}
       IN  IF LastRung(d)
           THEN /\ res' = [res EXCEPT ![d] = {}]
                /\ orphans' = [orphans EXCEPT ![d] = @ \cup left]
           ELSE /\ res' = [res EXCEPT ![d] = left]
                /\ UNCHANGED orphans
    /\ UNCHANGED <<module, board, withDma, refVars, fpc, fdev, actVars>>

\* Unbinding through sysfs, hot removal before an FPGA reload, or rmmod.
amc_pci_remove(d) ==
    /\ stage[d] = "bound"
    /\ stage' = [stage EXCEPT ![d] = "remove"]
    /\ at' = [at EXCEPT ![d] = 1]
    /\ UNCHANGED <<module, device_boards, board, res, withDma, orphans,
                   refVars, fileVars, actVars>>

\* atomic_dec_and_test, and complete() by whoever drops the last reference.
DropReference(d) ==
    /\ refcount' = [refcount EXCEPT ![d] = @ - 1]
    /\ completion' = [completion EXCEPT ![d] = IF refcount[d] = 1 THEN @ + 1
                                               ELSE @]

\* Wrong: remove does not wait for the completion.
wait_for_clients_Mut(d) ==
    /\ stage[d] = "remove"
    /\ \/ AtRung(d) = "count" /\ DropReference(d)
       \/ AtRung(d) = "clients" /\ UNCHANGED refVars
    /\ Down(d)
    /\ UNCHANGED <<module, device_boards, board, res, withDma, orphans,
                   fileVars, actVars>>

wait_for_clients(d) ==
    /\ stage[d] = "remove"
    /\ \/ /\ AtRung(d) = "count"
          /\ DropReference(d)
       \/ /\ AtRung(d) = "clients"
          /\ completion[d] > 0
          /\ completion' = [completion EXCEPT ![d] = @ - 1]
          /\ UNCHANGED refcount
    /\ Down(d)
    /\ UNCHANGED <<module, device_boards, board, res, withDma, orphans,
                   fileVars, actVars>>

-----------------------------------------------------------------------------
(* Files. *)

\* The kernel finds the cdev and is about to call amc_pci_open (external).  A
\* cdev that a failed probe left behind lies in freed memory.
chrdev_open(f, d) ==
    /\ fpc[f] = "closed"
    /\ "driver" \in module
    /\ fpc' = [fpc EXCEPT ![f] = "entering"]
    /\ fdev' = [fdev EXCEPT ![f] = d]
    /\ \/ {"cdev", "priv"} \subseteq res[d] /\ UNCHANGED stale
       \/ /\ "cdev" \in orphans[d] \cup res[d]
          /\ "cdev" \in res[d] => "priv" \notin res[d]
          /\ stale' = stale \cup {f}
    /\ UNCHANGED <<module, devVars, refVars, actVars>>

Close(f) ==
    /\ fpc' = [fpc EXCEPT ![f] = "closed"]
    /\ fdev' = [fdev EXCEPT ![f] = None]
    /\ stale' = stale \ {f}

\* Wrong: the ENXIO exit drops a reference it never took.
amc_pci_open_Mut(f) ==
    /\ fpc[f] = "entering"
    /\ \/ /\ f \notin stale /\ refcount[fdev[f]] > 0
          /\ refcount' = [refcount EXCEPT ![fdev[f]] = @ + 1]
          /\ fpc' = [fpc EXCEPT ![f] = "opening"]
          /\ UNCHANGED <<fdev, stale>>
       \/ /\ f \in stale \/ refcount[fdev[f]] = 0
          /\ Close(f)
          /\ refcount' = [refcount EXCEPT ![fdev[f]] = @ - 1]
    /\ UNCHANGED <<module, devVars, completion, actVars>>

\* atomic_inc_not_zero, or ENXIO; a stale file touches freed memory here and
\* is taken to fail.
amc_pci_open(f) ==
    /\ fpc[f] = "entering"
    /\ \/ /\ f \notin stale /\ refcount[fdev[f]] > 0
          /\ refcount' = [refcount EXCEPT ![fdev[f]] = @ + 1]
          /\ fpc' = [fpc EXCEPT ![f] = "opening"]
          /\ UNCHANGED <<fdev, stale>>
       \/ /\ f \in stale \/ refcount[fdev[f]] = 0
          /\ Close(f)
          /\ UNCHANGED refcount
    /\ UNCHANGED <<module, devVars, completion, actVars>>

\* amc_pci_reg_open or amc_pci_dma_open succeeds.
node_open(f) ==
    /\ fpc[f] = "opening"
    /\ \/ fpc' = [fpc EXCEPT ![f] = "reg"]
       \/ fdev[f] \in withDma /\ fpc' = [fpc EXCEPT ![f] = "dma"]
    /\ UNCHANGED <<module, devVars, refVars, fdev, stale, actVars>>

\* Wrong: a failed open keeps the reference it took.
amc_pci_release_Mut(f) ==
    /\ fpc[f] \in {"opening", "reg", "dma"}
    /\ Close(f)
    /\ IF f \in stale \/ fpc[f] = "opening" THEN UNCHANGED refVars
       ELSE DropReference(fdev[f])
    /\ UNCHANGED <<module, devVars, actVars>>

\* The end of a failed open (no such entry, wrong permission, no slot, no
\* memory, locked) and of close().
amc_pci_release(f) ==
    /\ fpc[f] \in {"opening", "reg", "dma"}
    /\ Close(f)
    /\ IF f \in stale THEN UNCHANGED refVars ELSE DropReference(fdev[f])
    /\ UNCHANGED <<module, devVars, actVars>>

\* A read or write of a memory node starts the engine; dma->mutex lets one
\* file in at a time.  An engine left running is reset first.
dma_start(f) ==
    /\ fpc[f] = "dma"
    /\ \A g \in Files : fdev[g] = fdev[f] => fpc[g] # "transfer"
    /\ fpc' = [fpc EXCEPT ![f] = "transfer"]
    /\ running' = IF f \in stale THEN running ELSE running \cup {fdev[f]}
    /\ UNCHANGED <<module, devVars, refVars, fdev, stale, inIsr, reading>>

\* The wait ends with the transfer ...
dma_finish(f) ==
    /\ fpc[f] = "transfer"
    /\ fdev[f] \notin running
    /\ fpc' = [fpc EXCEPT ![f] = "dma"]
    /\ UNCHANGED <<module, devVars, refVars, fdev, stale, actVars>>

\* ... or with SIGKILL, which leaves the engine running.
dma_killed(f) ==
    /\ fpc[f] = "transfer"
    /\ fpc' = [fpc EXCEPT ![f] = "dma"]
    /\ UNCHANGED <<module, devVars, refVars, fdev, stale, actVars>>

-----------------------------------------------------------------------------
(* Hardware, interrupt handler, sysfs. *)

engine_done(d) ==
    /\ d \in running
    /\ running' = running \ {d}
    /\ UNCHANGED <<module, devVars, refVars, fileVars, inIsr, reading>>

isr_enter(d) ==
    /\ "irq" \in res[d] /\ ~ Leaving(d, "irq")
    /\ inIsr' = inIsr \cup {d}
    /\ UNCHANGED <<module, devVars, refVars, fileVars, running, reading>>

isr_exit(d) ==
    /\ d \in inIsr
    /\ inIsr' = inIsr \ {d}
    /\ UNCHANGED <<module, devVars, refVars, fileVars, running, reading>>

\* prom_used_read and prom_read: from the kernel's entry to the return, also
\* of a file that a failed probe left behind.
prom_read(d, s) ==
    /\ \/ s \in res[d] /\ ~ Leaving(d, s)
       \/ s \in orphans[d]
    /\ reading' = reading \cup {<<d, s>>}
    /\ UNCHANGED <<module, devVars, refVars, fileVars, running, inIsr>>

prom_read_done(d, s) ==
    /\ <<d, s>> \in reading
    /\ reading' = reading \ {<<d, s>>}
    /\ UNCHANGED <<module, devVars, refVars, fileVars, running, inIsr>>

-----------------------------------------------------------------------------
ProbeStep(d) ==
    \/ get_free_board(d)
    \/ new_amc_pci(d)
    \/ enable_board(d)
    \/ initialise_board(d)
    \/ create_device_nodes(d)
    \/ sysfs_create_bin_file(d)

TeardownStep(d) == release_resource(d) \/ wait_for_clients(d)

FileStep(f) ==
    \/ amc_pci_open(f)
    \/ amc_pci_release(f)
    \/ dma_finish(f)

Activity(d) ==
    \/ engine_done(d)
    \/ isr_exit(d)
    \/ \E s \in {"sysfs1", "sysfs2"} : prom_read_done(d, s)

Next ==
    \/ amc_pci_init
    \/ amc_pci_exit
    \/ amc_pci_exit_done
    \/ \E d \in Devs :
        \/ amc_pci_probe(d)
        \/ ProbeStep(d)
        \/ amc_pci_remove(d)
        \/ TeardownStep(d)
        \/ Activity(d)
        \/ isr_enter(d)
        \/ \E s \in {"sysfs1", "sysfs2"} : prom_read(d, s)
    \/ \E f \in Files :
        \/ \E d \in Devs : chrdev_open(f, d)
        \/ FileStep(f)
        \/ node_open(f)
        \/ dma_start(f)
        \/ dma_killed(f)

Spec == Init /\ [][Next]_vars

\* The kernel runs what is runnable, handlers and sysfs reads return, the
\* engine ends its transfers; and, an assumption on the users of the board,
\* every file is closed sooner or later.
Fairness ==
    /\ \A d \in Devs :
        /\ WF_vars(TeardownStep(d))
        /\ WF_vars(engine_done(d))
        /\ WF_vars(isr_exit(d))
        /\ \A s \in {"sysfs1", "sysfs2"} : WF_vars(prom_read_done(d, s))
    /\ \A f \in Files :
        /\ WF_vars(amc_pci_open(f))
        /\ WF_vars(dma_finish(f))
        /\ SF_vars(amc_pci_release(f))

FairSpec == Spec /\ Fairness

-----------------------------------------------------------------------------
(* Properties. *)

\* Files that amc_pci_open counted and amc_pci_release has not.
Counted(f) == fpc[f] \in {"opening", "reg", "dma", "transfer"}

\* Every variable keeps its type; no reference is dropped twice, so refcount
\* never goes negative.
TypeOK ==
    /\ module \subseteq {"chrdev", "class", "driver", "exiting"}
    /\ device_boards \subseteq 0 .. MAX_BOARDS - 1
    /\ board \in [Devs -> 0 .. MAX_BOARDS - 1]
    /\ stage \in [Devs -> {"unbound", "probe", "bound", "remove", "unwind"}]
    /\ at \in [Devs -> 1 .. Len(RemoveLadder)]
    /\ res \in [Devs -> SUBSET Resources]
    /\ orphans \in [Devs -> SUBSET Resources]
    /\ withDma \subseteq Devs /\ running \subseteq Devs /\ inIsr \subseteq Devs
    /\ refcount \in [Devs -> Nat] /\ completion \in [Devs -> Nat]
    /\ fpc \in [Files -> {"closed", "entering", "opening", "reg", "dma",
                         "transfer"}]
    /\ fdev \in [Files -> Devs \cup {None}]
    /\ reading \subseteq Devs \X {"sysfs1", "sysfs2"}
    /\ stale \subseteq Files

\* "Waits for all open file handles to be released so that we can safely
\* release the hardware resources" (amc_pci_core.c): unless probe itself is
\* failing, everything an open file uses is there until it is closed.
ClientsSafe ==
    \A f \in Files :
        Counted(f) /\ f \notin stale /\ stage[fdev[f]] # "unwind" =>
            /\ {"priv", "bar2", "prom", "irq", "msi", "device"}
                   \subseteq res[fdev[f]]
            /\ fdev[f] \in withDma => "dma" \in res[fdev[f]]

\* While amc_pci_isr runs, the interrupt control, the mapped registers and the
\* DMA control it uses exist, on the error paths of probe too.
IsrSafe ==
    \A d \in inIsr :
        /\ {"irq", "bar2", "priv"} \subseteq res[d]
        /\ d \in withDma => "dma" \in res[d]

\* prom_used_read and prom_read take no reference; remove still waits for
\* those under way before it frees struct amc_pci, and outside of remove they
\* find the PROM buffer and the mapping they read.  A file that a failing
\* probe leaves behind is excepted.
SysfsSafe ==
    \A r \in reading : r[2] \in res[r[1]] /\ stage[r[1]] # "unwind" =>
        /\ "priv" \in res[r[1]]
        /\ stage[r[1]] # "remove" => {"prom", "bar2"} \subseteq res[r[1]]

\* Boards that are bound, or being bound or unbound, have different numbers,
\* and get_free_board's mask holds just these.
BoardsDistinct ==
    LET owners == {d \in Devs : "board" \in res[d]}
    IN  /\ device_boards = {board[d] : d \in owners}
        /\ \A d, e \in owners : board[d] = board[e] => d = e

\* Whichever step of probe fails, its ladder gives back the board number, the
\* memory, the PCI resources, the BAR mapping, the DMA buffer and the
\* interrupt; only the PROM buffer, the cdev, nodes and first sysfs file can
\* be left behind.
HardwareReturned ==
    \A d \in Devs : orphans[d] \subseteq {"prom", "cdev", "nodes", "sysfs1"}

\* The class and the device numbers outlive every board and every file.
ModuleOutlivesBoards ==
    \/ {"chrdev", "class"} \subseteq module
    \/ /\ \A d \in Devs : res[d] = {}
       /\ \A f \in Files : fpc[f] = "closed"

\* amc_pci_remove comes to an end once the users close their files.
RemoveFinishes ==
    \A d \in Devs : stage[d] = "remove" ~> stage[d] = "unbound"

\* "Check that the file handle is still live" (amc_pci_core.c): the reference
\* count amc_pci_open looks at belongs to a structure that still exists.
OpenChecksLive == \A f \in Files : fpc[f] = "entering" => f \notin stale

\* "... so that we can safely release the hardware resources"
\* (amc_pci_core.c): the DMA buffer is not freed while the engine moves data.
BufferIdle == \A d \in running : "dma" \in res[d]
=============================================================================

----------------------------- MODULE MemoryNode -----------------------------
(***************************************************************************)
(* One open file of a memory node (memory.c): which bytes of FPGA memory a *)
(* read() or write() moves, and what becomes of the file position when     *)
(* threads share the file.  DmaTransfer models the transfer itself; here   *)
(* it is one step, between the arithmetic before it and the update of the  *)
(* position after it.                                                      *)
(*                                                                         *)
(* The VFS (external) hands the driver a private copy of the position, and *)
(* stores it back if the call did not fail; pread() and pwrite() bring a   *)
(* position of their own.  It also caps count, so no sum below overflows.  *)
(*                                                                         *)
(* An operator with _Mut in its name is a deliberately wrong variant of    *)
(* the definition it precedes; no specification uses it.                   *)
(***************************************************************************)
EXTENDS Integers

CONSTANTS
    Threads,       \* threads that share the file
    Bases,         \* base addresses the PROM may give the area
    Lengths,       \* its lengths
    Align,         \* dma_control.alignment, a power of two
    BufferSize,    \* dma_control.buffer_size
    MAX_DMA_TRANSFER,  \* what the engine's byte counter can hold
    Counts         \* counts of bytes a call may ask for

VARIABLES
    base, length,  \* struct memory_context
    f_pos,         \* struct file.f_pos
    pc,            \* "idle", "transfer" or "return"
    call,          \* the arguments: direction, count, and whether pread/pwrite
    pos,           \* the call's *f_pos
    dma,           \* address and count passed to dma_operation_unlocked
    ret,           \* what the call returns, Error for any error code
    got,           \* history: FPGA addresses moved to or from the user
    moved          \* history: offsets moved by read and write, or sought over

area == <<base, length>>
vars == <<base, length, f_pos, pc, call, pos, dma, ret, got, moved>>

Least(a, b) == IF a <= b THEN a ELSE b
ALIGN_DOWN(x) == x - (x % Align)
ALIGN(x) == ALIGN_DOWN(x + Align - 1)

\* dma_control.max_transfer, as initialise_dma_control sets it.
max_transfer == ALIGN_DOWN(Least(MAX_DMA_TRANSFER, BufferSize))

ASSUME AreaAssumption ==
    /\ Align \in Nat \ {0} /\ BufferSize \in Nat /\ MAX_DMA_TRANSFER \in Nat
    /\ Align <= BufferSize /\ Align <= MAX_DMA_TRANSFER
    /\ Counts \subseteq Nat /\ 0 \in Counts
    /\ Bases \subseteq Nat /\ Lengths \subseteq Nat \ {0}

Error == -1
Calls == [dir : {"read", "write"}, count : Counts, own : BOOLEAN]
NoCall == [dir |-> "read", count |-> 0, own |-> FALSE]
NoDma == [addr |-> 0, count |-> 0]
Span(from, n) == from .. from + n - 1

Init ==
    /\ base \in Bases /\ length \in Lengths
    /\ f_pos = 0
    /\ pc = [t \in Threads |-> "idle"]
    /\ call = [t \in Threads |-> NoCall]
    /\ pos = [t \in Threads |-> 0]
    /\ dma = [t \in Threads |-> NoDma]
    /\ ret = [t \in Threads |-> 0]
    /\ got = [t \in Threads |-> {}]
    /\ moved = {}

-----------------------------------------------------------------------------
\* What a call asks of dma_operation_unlocked, count 0 if it returns before.
\* A read is widened to aligned addresses and cut at the end of the area.

in_offset(offset) == offset % Align

\* Wrong: the cut end is rounded up.
ReadRequest_Mut(offset, count) ==
    LET addr == base + offset - in_offset(offset)
        want == ALIGN(count + in_offset(offset))
    IN  [addr |-> addr,
         count |-> IF addr + want > base + length
                   THEN ALIGN(base + length - addr) ELSE want]

\* Wrong: the bytes in front of the position are not added to the count.
ReadRequest_MutCount(offset, count) ==
    LET addr == base + offset - in_offset(offset)
        want == ALIGN(count)
    IN  [addr |-> addr,
         count |-> IF addr + want > base + length
                   THEN ALIGN_DOWN(base + length - addr) ELSE want]

ReadRequest(offset, count) ==
    LET addr == base + offset - in_offset(offset)
        want == ALIGN(count + in_offset(offset))
    IN  [addr |-> addr,
         count |-> IF addr + want > base + length
                   THEN ALIGN_DOWN(base + length - addr) ELSE want]

WriteRequest(offset, count) ==
    [addr |-> base + offset,
     count |-> IF count > length - offset \/ count > BufferSize
               THEN 0 ELSE count]

Request(c, offset) ==
    IF c.dir = "read" THEN ReadRequest(offset, c.count)
    ELSE WriteRequest(offset, c.count)

\* A call starts: at the end of the area it returns 0, beyond it or with
\* nothing it may transfer an error.
amc_pci_dma_call(t, c, offset) ==
    /\ pc[t] = "idle"
    /\ c.own \/ offset = f_pos
    /\ call' = [call EXCEPT ![t] = c]
    /\ pos' = [pos EXCEPT ![t] = offset]
    /\ \/ /\ offset < length /\ Request(c, offset).count > 0
          /\ dma' = [dma EXCEPT ![t] = Request(c, offset)]
          /\ pc' = [pc EXCEPT ![t] = "transfer"]
          /\ UNCHANGED ret
       \/ /\ offset < length => Request(c, offset).count = 0
          /\ ret' = [ret EXCEPT ![t] = IF offset = length THEN 0 ELSE Error]
          /\ pc' = [pc EXCEPT ![t] = "return"]
          /\ UNCHANGED dma
    /\ UNCHANGED <<area, f_pos, got, moved>>

\* dma_operation_unlocked moves no more than max_transfer; the engine is not
\* started on misaligned requests.
Moves(t) == Least(dma[t].count, max_transfer)
Aligned(t) == dma[t].addr % Align = 0 /\ Moves(t) % Align = 0

\* The call moved n bytes between the user and FPGA address from on.
Done(t, from, n) ==
    /\ ret' = [ret EXCEPT ![t] = n]
    /\ got' = [got EXCEPT ![t] = Span(from, n)]
    /\ moved' = IF call[t].own THEN moved
                ELSE moved \cup Span(from - base, n)

\* Wrong: data_buffer instead of data_buffer + in_offset.
amc_pci_dma_read_Mut(t) ==
    /\ pc[t] = "transfer" /\ call[t].dir = "read" /\ Aligned(t)
    /\ \E n \in 1 .. Least(call[t].count, Moves(t) - in_offset(pos[t])) :
        Done(t, dma[t].addr, n)
    /\ pc' = [pc EXCEPT ![t] = "return"]
    /\ UNCHANGED <<area, f_pos, call, pos, dma>>

\* Wrong: everything transferred is copied, without the limit of count.
amc_pci_dma_read_MutCount(t) ==
    /\ pc[t] = "transfer" /\ call[t].dir = "read" /\ Aligned(t)
    /\ Done(t, dma[t].addr + in_offset(pos[t]), Moves(t))
    /\ pc' = [pc EXCEPT ![t] = "return"]
    /\ UNCHANGED <<area, f_pos, call, pos, dma>>

\* The transfer of a read; copy_to_user may stop early.
amc_pci_dma_read(t) ==
    /\ pc[t] = "transfer" /\ call[t].dir = "read" /\ Aligned(t)
    /\ \E n \in 1 .. Least(call[t].count, Moves(t) - in_offset(pos[t])) :
        Done(t, dma[t].addr + in_offset(pos[t]), n)
    /\ pc' = [pc EXCEPT ![t] = "return"]
    /\ UNCHANGED <<area, f_pos, call, pos, dma>>

amc_pci_dma_write(t) ==
    /\ pc[t] = "transfer" /\ call[t].dir = "write" /\ Aligned(t)
    /\ Done(t, dma[t].addr, Moves(t))
    /\ pc' = [pc EXCEPT ![t] = "return"]
    /\ UNCHANGED <<area, f_pos, call, pos, dma>>

\* mem_err: misaligned, engine error, killed, or nothing could be copied.
mem_err(t) ==
    /\ pc[t] = "transfer"
    /\ ret' = [ret EXCEPT ![t] = Error]
    /\ pc' = [pc EXCEPT ![t] = "return"]
    /\ UNCHANGED <<area, f_pos, call, pos, dma, got, moved>>

\* Wrong: the position moves on by the size of the transfer.
Advance_Mut(t) ==
    LET next == pos[t] + Moves(t) IN IF next >= length THEN 0 ELSE next

\* *f_pos after a transfer: back to the start at the end of the area.
Advance(t) ==
    LET next == pos[t] + ret[t] IN IF next >= length THEN 0 ELSE next

\* The call returns; the VFS stores the position of a call that did not fail.
vfs_return(t) ==
    /\ pc[t] = "return"
    /\ f_pos' = IF call[t].own \/ ret[t] = Error THEN f_pos
                ELSE IF ret[t] = 0 THEN pos[t] ELSE Advance(t)
    /\ pc' = [pc EXCEPT ![t] = "idle"]
    /\ ret' = [ret EXCEPT ![t] = 0] /\ got' = [got EXCEPT ![t] = {}]
    /\ call' = [call EXCEPT ![t] = NoCall] /\ pos' = [pos EXCEPT ![t] = 0]
    /\ dma' = [dma EXCEPT ![t] = NoDma]
    /\ UNCHANGED <<area, moved>>

\* generic_file_llseek_size accepts positions up to the end of the area.
amc_pci_dma_llseek(to) ==
    /\ to <= length
    /\ f_pos' = to
    /\ moved' = moved \cup Span(0, to)
    /\ UNCHANGED <<area, pc, call, pos, dma, ret, got>>

-----------------------------------------------------------------------------
\* Offsets a call or a seek may name: all of the area, its end, and one more.
Offsets == 0 .. length + 1

Next ==
    \/ \E t \in Threads :
        \/ \E c \in Calls, offset \in Offsets : amc_pci_dma_call(t, c, offset)
        \/ amc_pci_dma_read(t)
        \/ amc_pci_dma_write(t)
        \/ mem_err(t)
        \/ vfs_return(t)
    \/ \E to \in Offsets : amc_pci_dma_llseek(to)

Spec == Init /\ [][Next]_vars

-----------------------------------------------------------------------------
(* Properties. *)

\* Every variable keeps its type: in particular the position stays within the
\* area and a call never returns more than was asked for.
TypeOK ==
    /\ base \in Bases /\ length \in Lengths
    /\ f_pos \in 0 .. length
    /\ pc \in [Threads -> {"idle", "transfer", "return"}]
    /\ call \in [Threads -> Calls]
    /\ pos \in [Threads -> Nat]
    /\ dma \in [Threads -> [addr : Nat, count : Nat]]
    /\ \A t \in Threads : ret[t] \in Error .. call[t].count
    /\ got \in [Threads -> SUBSET Span(base, length)]
    /\ moved \subseteq Span(0, length)

\* "Constrain read to valid region" (memory.c): whatever is asked for, and
\* however the request is rounded, the transfer stays within the area of this
\* node, and a write within the buffer.
TransferInArea ==
    \A t \in Threads :
        pc[t] = "transfer" =>
            /\ base <= dma[t].addr
            /\ dma[t].addr + dma[t].count <= base + length
            /\ Moves(t) <= BufferSize

\* The bytes a call moves for its user are those at the position it started
\* from, however the transfer was rounded to aligned addresses.
DataAtPosition ==
    \A t \in Threads :
        pc[t] = "return" /\ ret[t] > 0 =>
            got[t] = Span(base + pos[t], ret[t])

\* A read transfers all it is asked for, as far as the buffer and the last
\* whole aligned block of the area allow.
ReadFillsBuffer ==
    \A t \in Threads :
        pc[t] = "transfer" /\ call[t].dir = "read" =>
            Moves(t) - in_offset(pos[t]) >=
                Least(call[t].count,
                      Least(max_transfer - in_offset(pos[t]),
                            ALIGN_DOWN(length) - pos[t]))

\* Threads that share a file may get the same bytes twice, but the position
\* never passes bytes that no read, write or seek has gone over.
NothingSkipped == Span(0, f_pos) \subseteq moved
=============================================================================

-------------------------- MODULE MemoryNodeProofs --------------------------
(***************************************************************************)
(* Proofs about MemoryNode, for any number of threads, any area of FPGA    *)
(* memory, any alignment and size of the DMA buffer.                       *)
(***************************************************************************)
EXTENDS MemoryNode, TLAPS

-----------------------------------------------------------------------------
(* The arithmetic of amc_pci_dma_read. *)

\* Division with remainder by the alignment.
LEMMA Division ==
    ASSUME NEW x \in Nat
    PROVE  /\ x \div Align \in Nat
           /\ x % Align \in 0 .. Align - 1
           /\ x = (Align * (x \div Align)) + (x % Align)
BY AreaAssumption

\* The remainder of a number that is put together from whole units and a rest.
LEMMA Remainder ==
    ASSUME NEW q \in Int, NEW r \in 0 .. Align - 1
    PROVE  ((Align * q) + r) % Align = r
BY AreaAssumption

\* Rounding down stays within one alignment unit.
LEMMA AlignDownBounds ==
    ASSUME NEW x \in Nat
    PROVE  /\ ALIGN_DOWN(x) \in Nat
           /\ ALIGN_DOWN(x) <= x
           /\ x < ALIGN_DOWN(x) + Align
BY AreaAssumption DEF ALIGN_DOWN

\* Rounding up never makes a request smaller.
LEMMA AlignBounds ==
    ASSUME NEW x \in Nat
    PROVE  ALIGN(x) \in Nat /\ ALIGN(x) >= x
<1> DEFINE y == x + Align - 1
<1>1. y \in Nat
  BY AreaAssumption
<1>2. ALIGN_DOWN(y) \in Nat /\ y < ALIGN_DOWN(y) + Align
  BY <1>1, AlignDownBounds
<1> QED
  BY <1>2, AreaAssumption DEF ALIGN

\* Taking whole units off a number changes nothing of its last, partial one.
LEMMA AlignDownShift ==
    ASSUME NEW x \in Nat, NEW y \in Nat, y <= x
    PROVE  ALIGN_DOWN(x - (y - in_offset(y))) =
               ALIGN_DOWN(x) - (y - in_offset(y))
<1> DEFINE q == y \div Align
           p == x \div Align
           s == x % Align
           k == y - in_offset(y)
<1>1. q \in Nat /\ k = Align * q
  BY AreaAssumption, Division DEF in_offset
<1>2. p \in Nat /\ s \in 0 .. Align - 1 /\ x = (Align * p) + s
  BY Division
<1>3. ALIGN_DOWN(x) = x - s /\ ALIGN_DOWN(x - k) = (x - k) - ((x - k) % Align)
  BY DEF ALIGN_DOWN
<1> HIDE DEF q, p, s, k
<1>4. x - k = (Align * (p - q)) + s
  BY <1>1, <1>2, AreaAssumption
<1>5. p - q \in Int
  BY <1>1, <1>2
<1>6. ((Align * (p - q)) + s) % Align = s
  BY <1>2, <1>5, Remainder
<1>7. ALIGN_DOWN(x - k) = ALIGN_DOWN(x) - k
  <2>1. k \in Int /\ s \in Int
    BY <1>1, <1>2, AreaAssumption
  <2> QED
    BY <1>3, <1>4, <1>6, <2>1
<1> QED
  BY <1>7 DEF k

\* The engine is never asked for nothing, nor for more than the buffer holds.
LEMMA MaxTransferBounds ==
    max_transfer \in Nat /\ max_transfer > 0 /\ max_transfer <= BufferSize
<1> DEFINE m == Least(MAX_DMA_TRANSFER, BufferSize)
<1>1. m \in Nat /\ m >= Align /\ m <= BufferSize
  BY AreaAssumption DEF Least
<1>2. ALIGN_DOWN(m) \in Nat /\ ALIGN_DOWN(m) <= m /\ m < ALIGN_DOWN(m) + Align
  BY <1>1, AlignDownBounds
<1>3. ALIGN_DOWN(m) > 0 /\ ALIGN_DOWN(m) <= BufferSize
  <2> HIDE DEF m
  <2> QED
    BY <1>1, <1>2, AreaAssumption
<1> QED
  BY <1>2, <1>3 DEF max_transfer

\* The request of a read starts at the aligned address below its position,
\* stays within the area and brings all that was asked for, as far as the
\* last whole unit of the area allows.
LEMMA ReadRequestFacts ==
    ASSUME base \in Nat, length \in Nat, NEW offset \in Nat, NEW count \in Nat,
           offset < length
    PROVE  LET r == ReadRequest(offset, count)
           IN  /\ r \in [addr : Nat, count : Nat]
               /\ r.addr = base + offset - in_offset(offset)
               /\ base <= r.addr
               /\ r.addr + r.count <= base + length
               /\ r.count - in_offset(offset) >=
                      Least(count, ALIGN_DOWN(length) - offset)
<1> DEFINE o == in_offset(offset)
           addr == base + offset - o
           want == ALIGN(count + o)
           cut == ALIGN_DOWN(base + length - addr)
           r == ReadRequest(offset, count)
<1>1. o \in Nat /\ o <= offset
  BY AreaAssumption, AlignDownBounds DEF in_offset, ALIGN_DOWN
<1>2. r = [addr |-> addr,
           count |-> IF addr + want > base + length THEN cut ELSE want]
  BY DEF ReadRequest
<1>3. want \in Nat /\ want >= count + o
  BY <1>1, AlignBounds
<1>4. base + length - addr = length - (offset - o)
  BY <1>1
<1>5. cut = ALIGN_DOWN(length) - (offset - o)
  BY <1>4, AlignDownShift
<1>6. ALIGN_DOWN(length) \in Nat
  BY AlignDownBounds
<1>7. cut \in Nat /\ cut <= base + length - addr
  <2>1. base + length - addr \in Nat
    BY <1>1, <1>4
  <2> QED
    BY <2>1, AlignDownBounds
<1>8. addr \in Nat /\ base <= addr
  BY <1>1
<1> HIDE DEF o, want, cut, r
<1>9. /\ r \in [addr : Nat, count : Nat]
      /\ r.addr = addr
      /\ base <= r.addr
      /\ r.addr + r.count <= base + length
  BY <1>1, <1>2, <1>3, <1>7, <1>8
<1>10. r.count - o >= Least(count, ALIGN_DOWN(length) - offset)
  BY <1>1, <1>2, <1>3, <1>5, <1>6 DEF Least
<1> QED
  BY <1>9, <1>10 DEF r, o

-----------------------------------------------------------------------------
(* The inductive invariant. *)

\* A request under way: where it starts, and that it fits the area.
Requested(t) ==
    /\ pos[t] < length
    /\ dma[t].count > 0
    /\ base <= dma[t].addr
    /\ dma[t].addr + dma[t].count <= base + length
    /\ call[t].dir = "read" =>
        /\ dma[t].addr = base + pos[t] - in_offset(pos[t])
        /\ dma[t].count - in_offset(pos[t]) >=
               Least(call[t].count, ALIGN_DOWN(length) - pos[t])
    /\ call[t].dir = "write" =>
        dma[t].addr = base + pos[t] /\ dma[t].count = call[t].count

\* A call about to return: what it moved is part of the area, and on record.
Finished(t) ==
    /\ ret[t] = 0 => pos[t] = length
    /\ ret[t] > 0 =>
        /\ pos[t] + ret[t] <= length
        /\ got[t] = Span(base + pos[t], ret[t])
        /\ call[t].own \/ Span(pos[t], ret[t]) \subseteq moved

\* A call that uses the file's position starts behind bytes gone over before.
CallInv ==
    /\ ret \in [Threads -> Int]
    /\ \A t \in Threads :
        /\ pc[t] # "return" => ret[t] = 0
        /\ pc[t] = "idle" \/ call[t].own \/ Span(0, pos[t]) \subseteq moved
        /\ pc[t] = "transfer" => Requested(t)
        /\ pc[t] = "return" => Finished(t)

IInv == TypeOK /\ CallInv /\ NothingSkipped

\* Everything the arithmetic is about is a number.
LEMMA Numbers ==
    ASSUME TypeOK
    PROVE  /\ base \in Nat /\ length \in Nat \ {0}
           /\ \A t \in Threads :
                /\ pos[t] \in Nat /\ in_offset(pos[t]) \in Nat
                /\ dma[t].addr \in Nat /\ dma[t].count \in Nat
                /\ call[t].count \in Nat
<1>1. base \in Nat /\ length \in Nat \ {0}
  BY AreaAssumption DEF TypeOK
<1>2. \A t \in Threads : pos[t] \in Nat /\ dma[t].addr \in Nat
                         /\ dma[t].count \in Nat
  BY DEF TypeOK
<1>3. \A t \in Threads : call[t].count \in Nat
  BY AreaAssumption DEF TypeOK, Calls
<1>4. ASSUME NEW t \in Threads PROVE in_offset(pos[t]) \in Nat
  <2>1. pos[t] % Align \in 0 .. Align - 1
    BY <1>2, Division
  <2> QED
    BY <2>1, AreaAssumption DEF in_offset
<1> QED
  BY <1>1, <1>2, <1>3, <1>4

\* A freshly opened file.
LEMMA InitIInv == Init => IInv
BY AreaAssumption DEF Init, IInv, TypeOK, CallInv, NothingSkipped, Calls, NoCall,
   NoDma, Error, Span

\* What the entry of read() and write() computes fits the area.
LEMMA CallStep ==
    ASSUME IInv, NEW u \in Threads, NEW c \in Calls, NEW offset \in Offsets,
           amc_pci_dma_call(u, c, offset)
    PROVE  IInv'
<1> USE AreaAssumption DEF IInv, amc_pci_dma_call, area, Calls
<1>1. base \in Nat /\ length \in Nat /\ offset \in Nat /\ c.count \in Nat
  <2>1. base \in Nat /\ length \in Nat
    BY Numbers
  <2>2. offset \in Nat
    BY <2>1 DEF Offsets
  <2>3. c.count \in Nat
    OBVIOUS
  <2> QED
    BY <2>1, <2>2, <2>3
<1>2. offset < length => Request(c, offset) \in [addr : Nat, count : Nat]
  BY <1>1, ReadRequestFacts DEF Request, WriteRequest
<1>3. TypeOK'
  <2>1. \A t \in Threads : ret'[t] \in Error .. call'[t].count
    BY <1>1 DEF TypeOK, CallInv, Error
  <2>2. pos' \in [Threads -> Nat] /\ call' \in [Threads -> Calls]
    BY <1>1 DEF TypeOK
  <2>3. dma' \in [Threads -> [addr : Nat, count : Nat]]
    BY <1>2 DEF TypeOK
  <2> QED
    BY <2>1, <2>2, <2>3 DEF TypeOK
<1>4. ret' \in [Threads -> Int]
  BY DEF CallInv, Error
<1>5. ASSUME NEW t \in Threads, t # u
      PROVE  /\ pc'[t] # "return" => ret'[t] = 0
             /\ pc'[t] = "idle" \/ call'[t].own \/ Span(0, pos'[t]) \subseteq moved'
             /\ pc'[t] = "transfer" => Requested(t)'
             /\ pc'[t] = "return" => Finished(t)'
  BY <1>5 DEF TypeOK, CallInv, Requested, Finished
<1>6. /\ pc'[u] # "return" => ret'[u] = 0
      /\ pc'[u] = "idle" \/ call'[u].own \/ Span(0, pos'[u]) \subseteq moved'
  BY DEF TypeOK, CallInv, NothingSkipped
<1>7. pc'[u] = "transfer" => Requested(u)'
  <2> SUFFICES ASSUME pc'[u] = "transfer" PROVE Requested(u)'
    OBVIOUS
  <2>1. /\ offset < length /\ dma'[u] = Request(c, offset)
        /\ Request(c, offset).count > 0 /\ pos'[u] = offset /\ call'[u] = c
    BY DEF TypeOK
  <2>2. CASE c.dir = "read"
    BY <1>1, <2>1, <2>2, ReadRequestFacts DEF Requested, Request
  <2>3. CASE c.dir = "write"
    BY <1>1, <2>1, <2>3 DEF Requested, Request, WriteRequest
  <2> QED
    BY <2>2, <2>3
<1>8. pc'[u] = "return" => Finished(u)'
  BY <1>1 DEF TypeOK, CallInv, Finished, Error
<1>9. NothingSkipped'
  BY DEF NothingSkipped
<1> QED
  BY <1>3, <1>4, <1>5, <1>6, <1>7, <1>8, <1>9 DEF CallInv

\* A range within a range.
LEMMA SpanWithin ==
    ASSUME NEW x \in Nat, NEW n \in Nat, NEW y \in Nat, NEW m \in Nat,
           y <= x, x + n <= y + m
    PROVE  Span(x, n) \subseteq Span(y, m)
BY DEF Span

\* A transfer for the user at the call's position, of n bytes that fit both
\* what was asked for and the area, keeps the invariant.
LEMMA DoneStep ==
    ASSUME IInv, NEW u \in Threads, pc[u] = "transfer",
           NEW n \in Nat \ {0}, n <= call[u].count, pos[u] + n <= length,
           Done(u, base + pos[u], n), pc' = [pc EXCEPT ![u] = "return"],
           UNCHANGED <<area, f_pos, call, pos, dma>>
    PROVE  IInv'
<1> USE AreaAssumption DEF IInv, Done, area, Calls
<1>1. /\ base \in Nat /\ length \in Nat /\ pos[u] \in Nat
      /\ base + pos[u] - base = pos[u]
  BY DEF TypeOK
<1>2. Span(base + pos[u], n) \subseteq Span(base, length)
      /\ Span(pos[u], n) \subseteq Span(0, length)
  BY <1>1, SpanWithin
<1>3. moved \subseteq moved' /\ moved' \subseteq Span(0, length)
      /\ (call[u].own \/ Span(pos[u], n) \subseteq moved')
  BY <1>1, <1>2 DEF TypeOK
<1>4. TypeOK'
  BY <1>2, <1>3 DEF TypeOK, Error
<1>5. ASSUME NEW t \in Threads
      PROVE  /\ pc'[t] # "return" => ret'[t] = 0
             /\ pc'[t] = "idle" \/ call'[t].own \/ Span(0, pos'[t]) \subseteq moved'
             /\ pc'[t] = "transfer" => Requested(t)'
             /\ pc'[t] = "return" => Finished(t)'
  <2>1. CASE t = u
    BY <1>1, <1>3, <2>1 DEF TypeOK, CallInv, Finished
  <2>2. CASE t # u
    BY <1>3, <2>2 DEF TypeOK, CallInv, Requested, Finished
  <2> QED
    BY <2>1, <2>2
<1>6. NothingSkipped'
  BY <1>3 DEF NothingSkipped
<1> QED
  BY <1>4, <1>5, <1>6 DEF CallInv

\* However a read was rounded, copy_to_user starts at the call's position.
LEMMA ReadStep ==
    ASSUME IInv, NEW u \in Threads, amc_pci_dma_read(u)
    PROVE  IInv'
<1> USE AreaAssumption DEF IInv, Calls
<1>1. /\ pc[u] = "transfer" /\ Requested(u) /\ base \in Nat /\ length \in Nat
      /\ pos[u] \in Nat /\ call[u].count \in Nat /\ call[u].dir = "read"
      /\ dma[u].count \in Nat /\ in_offset(pos[u]) \in Nat
  BY Numbers DEF amc_pci_dma_read, CallInv
<1>2. Moves(u) \in Nat /\ Moves(u) <= dma[u].count
  BY <1>1, MaxTransferBounds DEF Moves, Least
<1>3. PICK n \in 1 .. Least(call[u].count, Moves(u) - in_offset(pos[u])) :
        Done(u, dma[u].addr + in_offset(pos[u]), n)
  BY DEF amc_pci_dma_read
<1>4. dma[u].addr + in_offset(pos[u]) = base + pos[u]
  BY <1>1 DEF Requested
<1>5. n \in Nat \ {0} /\ n <= call[u].count /\ pos[u] + n <= length
  <2>1. n <= call[u].count /\ n <= Moves(u) - in_offset(pos[u]) /\ n \in Nat \ {0}
    BY <1>1, <1>2 DEF Least
  <2> QED
    BY <1>1, <1>2, <1>4, <2>1 DEF Requested
<1> QED
  BY <1>1, <1>3, <1>4, <1>5, DoneStep DEF amc_pci_dma_read

\* A write moves its own bytes only, as many as one transfer can.
LEMMA WriteStep ==
    ASSUME IInv, NEW u \in Threads, amc_pci_dma_write(u)
    PROVE  IInv'
<1> USE AreaAssumption DEF IInv, Calls
<1>1. /\ pc[u] = "transfer" /\ Requested(u) /\ base \in Nat /\ length \in Nat
      /\ pos[u] \in Nat /\ call[u].count \in Nat /\ call[u].dir = "write"
      /\ dma[u].count \in Nat
  BY Numbers DEF amc_pci_dma_write, CallInv
<1>2. Moves(u) \in Nat \ {0} /\ Moves(u) <= dma[u].count
  BY <1>1, MaxTransferBounds DEF Moves, Least, Requested
<1>3. dma[u].addr = base + pos[u] /\ dma[u].count = call[u].count
      /\ pos[u] + Moves(u) <= length
  BY <1>1, <1>2 DEF Requested
<1> QED
  BY <1>1, <1>2, <1>3, DoneStep DEF amc_pci_dma_write

\* The error exits move nothing.
LEMMA ErrorStep ==
    ASSUME IInv, NEW u \in Threads, mem_err(u)
    PROVE  IInv'
<1> USE AreaAssumption DEF IInv, mem_err, area, Calls
<1>1. TypeOK'
  <2>1. \A t \in Threads : ret'[t] \in Error .. call'[t].count
    BY Numbers DEF TypeOK, CallInv, Error
  <2> QED
    BY <2>1 DEF TypeOK
<1>2. CallInv'
  BY DEF TypeOK, CallInv, Requested, Finished, Error
<1>3. NothingSkipped'
  BY DEF NothingSkipped
<1> QED
  BY <1>1, <1>2, <1>3

\* The position the VFS stores lies behind bytes that were gone over, also if
\* other threads moved it in between.
LEMMA ReturnStep ==
    ASSUME IInv, NEW u \in Threads, vfs_return(u)
    PROVE  IInv'
<1> USE AreaAssumption DEF IInv, vfs_return, area, Calls
<1>1. /\ length \in Nat \ {0} /\ pos[u] \in Nat /\ ret[u] \in Int /\ ret[u] >= Error
      /\ Finished(u) /\ (call[u].own \/ Span(0, pos[u]) \subseteq moved)
  BY DEF TypeOK, CallInv, Error
<1>2. f_pos' \in 0 .. length /\ Span(0, f_pos') \subseteq moved
  <2>1. CASE call[u].own \/ ret[u] = Error
    BY <2>1 DEF TypeOK, NothingSkipped
  <2>2. CASE ~ call[u].own /\ ret[u] = 0
    BY <1>1, <2>2 DEF Finished, Error
  <2>3. CASE ~ call[u].own /\ ret[u] > 0
    <3>1. f_pos' \in {0, pos[u] + ret[u]} /\ pos[u] + ret[u] <= length
      BY <1>1, <2>3 DEF Finished, Error, Advance
    <3>2. Span(0, pos[u] + ret[u]) \subseteq Span(0, pos[u]) \cup Span(pos[u], ret[u])
      BY <1>1, <2>3 DEF Span
    <3>3. Span(0, 0) = {}
      BY DEF Span
    <3> QED
      BY <1>1, <2>3, <3>1, <3>2, <3>3 DEF Finished
  <2> QED
    BY <1>1, <2>1, <2>2, <2>3 DEF Error
<1>3. TypeOK'
  <2>1. \A t \in Threads : ret'[t] \in Error .. call'[t].count
    BY DEF TypeOK, CallInv, NoCall, Error
  <2> QED
    BY <1>2, <2>1 DEF TypeOK, NoCall, NoDma
<1>4. CallInv'
  BY DEF TypeOK, CallInv, Requested, Finished
<1>5. NothingSkipped'
  BY <1>2 DEF NothingSkipped
<1> QED
  BY <1>3, <1>4, <1>5

\* Seeking goes over everything in front of the new position.
LEMMA SeekStep ==
    ASSUME IInv, NEW to \in Offsets, amc_pci_dma_llseek(to)
    PROVE  IInv'
<1> USE AreaAssumption DEF IInv, amc_pci_dma_llseek, area, Calls
<1>1. to \in 0 .. length /\ length \in Nat
  BY DEF TypeOK, Offsets
<1>2. moved \subseteq moved' /\ moved' \subseteq Span(0, length)
  BY <1>1 DEF TypeOK, Span
<1>3. TypeOK'
  BY <1>1, <1>2 DEF TypeOK
<1>4. CallInv'
  BY <1>2 DEF CallInv, Requested, Finished
<1>5. NothingSkipped'
  BY DEF NothingSkipped
<1> QED
  BY <1>3, <1>4, <1>5

-----------------------------------------------------------------------------
(* The theorems. *)

\* IInv holds whatever the threads that share the file do.
THEOREM Inductive == Spec => []IInv
<1>1. Init => IInv
  BY InitIInv
<1>2. IInv /\ [Next]_vars => IInv'
  <2> SUFFICES ASSUME IInv, [Next]_vars PROVE IInv'
    OBVIOUS
  <2>1. CASE Next
    BY <2>1, CallStep, ReadStep, WriteStep, ErrorStep, ReturnStep, SeekStep
       DEF Next
  <2>2. CASE UNCHANGED vars
    BY <2>2 DEF vars, IInv, TypeOK, CallInv, Requested, Finished,
       NothingSkipped, Offsets
  <2> QED
    BY <2>1, <2>2
<1> QED
  BY <1>1, <1>2, PTL DEF Spec

\* The position stays within the area, and no call returns more than it was
\* asked for.
THEOREM TypeCorrect == Spec => []TypeOK
<1>1. IInv => TypeOK
  BY DEF IInv
<1> QED
  BY Inductive, <1>1, PTL

\* For every area, alignment and buffer, whatever position and count a call
\* names, the engine is only started on addresses of the node's own area.
THEOREM StaysInArea == Spec => []TransferInArea
<1>1. IInv => TransferInArea
  <2> SUFFICES ASSUME IInv, NEW t \in Threads, pc[t] = "transfer"
               PROVE  /\ base <= dma[t].addr
                      /\ dma[t].addr + dma[t].count <= base + length
                      /\ Moves(t) <= BufferSize
    BY DEF TransferInArea
  <2>1. Requested(t) /\ dma[t].count \in Nat
    BY DEF IInv, TypeOK, CallInv
  <2>2. Moves(t) <= BufferSize
    BY <2>1, MaxTransferBounds, AreaAssumption DEF Moves, Least
  <2> QED
    BY <2>1, <2>2 DEF Requested
<1> QED
  BY Inductive, <1>1, PTL

\* A user gets the bytes at its position, not those the transfer was widened
\* by.
THEOREM PositionRespected == Spec => []DataAtPosition
<1>1. IInv => DataAtPosition
  BY DEF IInv, CallInv, Finished, DataAtPosition
<1> QED
  BY Inductive, <1>1, PTL

\* A read is cut only by the buffer and by the area's last partial unit.
THEOREM ReadsInFull == Spec => []ReadFillsBuffer
<1>1. IInv => ReadFillsBuffer
  <2> SUFFICES ASSUME IInv, NEW t \in Threads, pc[t] = "transfer",
                      call[t].dir = "read"
               PROVE  Moves(t) - in_offset(pos[t]) >=
                          Least(call[t].count,
                                Least(max_transfer - in_offset(pos[t]),
                                      ALIGN_DOWN(length) - pos[t]))
    BY DEF ReadFillsBuffer
  <2>1. /\ dma[t].count \in Nat /\ call[t].count \in Nat /\ pos[t] \in Nat
        /\ length \in Nat /\ in_offset(pos[t]) \in Nat
    BY Numbers DEF IInv
  <2>2. dma[t].count - in_offset(pos[t]) >=
            Least(call[t].count, ALIGN_DOWN(length) - pos[t])
    BY DEF IInv, CallInv, Requested
  <2>3. ALIGN_DOWN(length) \in Nat
    BY <2>1, AlignDownBounds
  <2> QED
    BY <2>1, <2>2, <2>3, MaxTransferBounds DEF Moves, Least
<1> QED
  BY Inductive, <1>1, PTL

\* Threads that share a file may see bytes twice but never skip any.
THEOREM PositionBehindData == Spec => []NothingSkipped
<1>1. IInv => NothingSkipped
  BY DEF IInv
<1> QED
  BY Inductive, <1>1, PTL
=============================================================================

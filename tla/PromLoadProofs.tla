--------------------------- MODULE PromLoadProofs ---------------------------
(***************************************************************************)
(* Proofs about PromLoad, for any length of the PROM, any widths of bytes  *)
(* and fields, and all configuration files and contents of the PROM.       *)
(***************************************************************************)
EXTENDS PromLoad, FiniteSetTheorems, SequenceTheorems, TLAPS

-----------------------------------------------------------------------------
(* Induction and recursion, for sets and functions. *)

\* Every set of naturals that is not empty has a least element.
LEMMA LeastElement ==
    ASSUME NEW T \in SUBSET Nat, NEW x \in T
    PROVE  \E m \in T : \A k \in T : m <= k
<1> DEFINE F == {1 .. n : n \in T}
<1>1. F \subseteq FiniteSubsetsOf(Nat) /\ F # {}
  <2>1. \A n \in T : 1 .. n \in SUBSET Nat /\ IsFiniteSet(1 .. n)
    BY FS_Interval
  <2> QED
    BY <2>1 DEF FiniteSubsetsOf
<1>2. PICK M \in F : \A K \in F : <<K, M>> \notin StrictSubsetOrdering(Nat)
  BY <1>1, FS_StrictSubsetOrderingWellFounded, WFMin
<1>3. PICK m \in T : M = 1 .. m
  OBVIOUS
<1>4. ASSUME NEW k \in T, k < m
      PROVE  FALSE
  <2>1. 1 .. k \in SUBSET Nat /\ M \in SUBSET Nat /\ 1 .. k \in F
    BY <1>3
  <2>2. 1 .. k \subseteq M /\ 1 .. k # M
    <3>1. m \in 1 .. m /\ m \notin 1 .. k
      BY <1>4
    <3> QED
      BY <1>3, <1>4, <3>1
  <2>3. <<1 .. k, M>> \in StrictSubsetOrdering(Nat)
    BY <2>1, <2>2 DEF StrictSubsetOrdering
  <2> QED
    BY <1>2, <2>1, <2>3
<1> QED
  BY <1>4

\* Induction along an interval.
LEMMA Induction ==
    ASSUME NEW n \in Nat, NEW T, 0 \in T, \A i \in 1 .. n : i - 1 \in T => i \in T
    PROVE  \A i \in 0 .. n : i \in T
<1> DEFINE Bad == {i \in 0 .. n : i \notin T}
<1> SUFFICES ASSUME NEW j \in Bad PROVE FALSE
  OBVIOUS
<1>1. PICK m \in Bad : \A k \in Bad : m <= k
  <2>1. Bad \in SUBSET Nat
    OBVIOUS
  <2> HIDE DEF Bad
  <2> QED
    BY <2>1, LeastElement
<1>2. m \in 1 .. n /\ m - 1 \in 0 .. n /\ m - 1 \notin Bad
  BY <1>1
<1> QED
  BY <1>1, <1>2

\* f is computed from start by the steps up to the n-th.
Computes(f, n, S, start, step) ==
    /\ f \in [0 .. n -> S]
    /\ \A i \in 0 .. n : f[i] = IF i = 0 THEN start ELSE step[i][f[i - 1]]

\* Recursion along an interval, with a step function for each index.
LEMMA Recursion ==
    ASSUME NEW n \in Nat, NEW S, NEW start \in S, NEW step \in [1 .. n -> [S -> S]]
    PROVE  \E f : Computes(f, n, S, start, step)
<1> DEFINE Is(f, k) == Computes(f, k, S, start, step)
           T == {k \in 0 .. n : \E f : Is(f, k)}
<1> USE DEF Computes
<1>1. 0 \in T
  <2>1. Is([i \in 0 .. 0 |-> start], 0)
    OBVIOUS
  <2> HIDE DEF Is
  <2> QED
    BY <2>1
<1>2. ASSUME NEW k \in 1 .. n, k - 1 \in T
      PROVE  k \in T
  <2>1. PICK f : Is(f, k - 1)
    <3> HIDE DEF Is
    <3> QED
      BY <1>2
  <2> DEFINE g == [i \in 0 .. k |-> IF i = k THEN step[k][f[k - 1]] ELSE f[i]]
  <2>2. step[k][f[k - 1]] \in S
    BY <2>1
  <2>3. g \in [0 .. k -> S]
    BY <2>1, <2>2
  <2>4. ASSUME NEW i \in 0 .. k
        PROVE  g[i] = IF i = 0 THEN start ELSE step[i][g[i - 1]]
    <3>1. CASE i = k
      BY <3>1
    <3>2. CASE i # k
      BY <2>1, <3>2
    <3> QED
      BY <3>1, <3>2
  <2>5. Is(g, k)
    BY <2>3, <2>4
  <2> HIDE DEF Is
  <2> QED
    BY <2>5
<1>3. n \in T
  <2> HIDE DEF T
  <2>1. \A k \in 1 .. n : k - 1 \in T => k \in T
    BY <1>2
  <2>2. \A k \in 0 .. n : k \in T
    BY <1>1, <2>1, Induction
  <2> QED
    BY <2>2
<1> QED
  BY <1>3

-----------------------------------------------------------------------------
(* The bytes of an image. *)

\* Numbers of n bytes.
LEMMA PowerFacts ==
    /\ Power \in [0 .. ExtBytes -> Nat \ {0}]
    /\ \A n \in 0 .. ExtBytes : Power[n] = IF n = 0 THEN 1 ELSE Radix * Power[n - 1]
<1> DEFINE S == Nat \ {0}
           step == [i \in 1 .. ExtBytes |-> [v \in S |-> Radix * v]]
           Is(f) == f = [n \in 0 .. ExtBytes |-> IF n = 0 THEN 1 ELSE Radix * f[n - 1]]
<1>0. ExtBytes \in Nat /\ 1 \in S /\ \A v \in S : Radix * v \in S
  BY PromAssumption
<1> HIDE DEF S
<1>1. step \in [1 .. ExtBytes -> [S -> S]]
  BY <1>0
<1>2. PICK f : Computes(f, ExtBytes, S, 1, step)
  <2> HIDE DEF step
  <2> QED
    BY <1>0, <1>1, Recursion, Zenon
<1>3. Is(f)
  <2> USE DEF Computes
  <2>1. ASSUME NEW i \in 0 .. ExtBytes, i # 0
        PROVE  f[i] = Radix * f[i - 1]
    <3>1. i \in 1 .. ExtBytes /\ f[i - 1] \in S
      BY <1>0, <1>2, <2>1
    <3> QED
      BY <1>2, <2>1, <3>1
  <2>2. 0 \in 0 .. ExtBytes => f[0] = 1
    BY <1>2
  <2>3. \A i \in 0 .. ExtBytes : f[i] = IF i = 0 THEN 1 ELSE Radix * f[i - 1]
    BY <2>1, <2>2, Zenon
  <2> QED
    BY <1>2, <2>3, Zenon
<1>4. Is(Power)
  BY <1>3, Zenon DEF Power
<1> DEFINE T == {i \in 0 .. ExtBytes : Power[i] \in S}
<1>5. 0 \in T
  BY <1>0, <1>4
<1>6. ASSUME NEW i \in 1 .. ExtBytes, i - 1 \in T
      PROVE  i \in T
  <2>1. i \in 0 .. ExtBytes /\ i # 0
    BY <1>0
  <2>2. Power[i] = Radix * Power[i - 1]
    BY <1>4, <2>1, Zenon
  <2>3. Power[i - 1] \in S
    BY <1>6
  <2> QED
    BY <1>0, <2>1, <2>2, <2>3, Zenon
<1>7. \A i \in 0 .. ExtBytes : i \in T
  <2> HIDE DEF T
  <2> QED
    BY <1>0, <1>5, <1>6, Induction
<1>8. Power \in [0 .. ExtBytes -> S]
  BY <1>4, <1>7
<1> QED
  BY <1>4, <1>8, Zenon DEF S

\* What is true of the start and kept by every step is true all along.
LEMMA Kept ==
    ASSUME NEW n \in Nat, NEW g, NEW S, g[0] \in S,
           \A i \in 1 .. n : g[i - 1] \in S => g[i] \in S
    PROVE  \A i \in 0 .. n : g[i] \in S
<1> DEFINE T == {i \in 0 .. n : g[i] \in S}
<1>1. 0 \in T /\ \A i \in 1 .. n : i - 1 \in T => i \in T
  OBVIOUS
<1> HIDE DEF T
<1>2. \A i \in 0 .. n : i \in T
  BY <1>1, Induction
<1> QED
  BY <1>2 DEF T

\* Division by a positive number.
LEMMA Division ==
    ASSUME NEW x \in Int, NEW d \in Nat \ {0}
    PROVE  x \div d \in Int /\ x % d \in 0 .. d - 1
OBVIOUS

\* A packed number is a sequence of bytes.
LEMMA PackBytes ==
    ASSUME NEW x \in Int, NEW n \in 0 .. ExtBytes + 1
    PROVE  Pack(x, n) \in Seq(Bytes) /\ Len(Pack(x, n)) = n
<1>1. \A i \in 1 .. n : Power[i - 1] \in Nat \ {0}
  BY PowerFacts, PromAssumption
<1>2. \A i \in 1 .. n : x \div Power[i - 1] \in Int
  BY <1>1, Division
<1>3. \A i \in 1 .. n : (x \div Power[i - 1]) % Radix \in Bytes
  <2>1. Radix \in Nat \ {0}
    BY PromAssumption
  <2> QED
    BY <1>2, <2>1, Division, Zenon DEF Bytes
<1>4. n \in Nat
  BY PromAssumption
<1> QED
  BY <1>3, <1>4 DEF Pack

\* The checksum folds the sum of the words.
LEMMA ChecksumSum ==
    ASSUME NEW n \in Nat, NEW b, \A i \in 0 .. n - 1 : b[i] \in Bytes
    PROVE  \E g :
             /\ \A i \in 0 .. n \div 2 : g[i] \in Nat
             /\ g[0] = IF n % 2 = 1 THEN Radix * b[n - 1] ELSE 0
             /\ \A i \in 1 .. n \div 2 :
                  g[i] = b[2*i - 2] + Radix * b[2*i - 1] + g[i - 1]
             /\ calc_checksum16(b, n) = Word - 1 - Fold(Fold(g[n \div 2]))
<1> DEFINE half == n \div 2
           start == IF n % 2 = 1 THEN Radix * b[n - 1] ELSE 0
           step == [i \in 1 .. half |-> [v \in Nat |-> b[2*i - 2] + Radix * b[2*i - 1] + v]]
           Is(f) == f = [i \in 0 .. half |->
                          IF i > 0 THEN b[2*i - 2] + Radix * b[2*i - 1] + f[i - 1]
                          ELSE IF n % 2 = 1 THEN Radix * b[n - 1] ELSE 0]
<1>1. half \in Nat /\ \A i \in 1 .. half : 2*i - 2 \in 0 .. n - 1 /\ 2*i - 1 \in 0 .. n - 1
  OBVIOUS
<1>2. \A i \in 0 .. n - 1 : b[i] \in Nat /\ Radix * b[i] \in Nat
  <2>1. \A i \in 0 .. n - 1 : b[i] \in Nat
    BY PromAssumption DEF Bytes
  <2> QED
    BY <2>1, PromAssumption
<1>3. start \in Nat
  BY <1>2
<1>4. ASSUME NEW i \in 1 .. half, NEW v \in Nat
      PROVE  b[2*i - 2] + Radix * b[2*i - 1] + v \in Nat
  <2>1. b[2*i - 2] \in Nat /\ Radix * b[2*i - 1] \in Nat
    BY <1>1, <1>2
  <2> QED
    BY <2>1
<1>5. step \in [1 .. half -> [Nat -> Nat]]
  BY <1>4
<1>6. PICK f : Computes(f, half, Nat, start, step)
  <2> HIDE DEF half, start, step
  <2> QED
    BY <1>1, <1>3, <1>5, Recursion
<1> HIDE DEF half
<1>7. Is(f)
  <2> USE DEF Computes
  <2>1. ASSUME NEW i \in 0 .. half, i > 0
        PROVE  f[i] = b[2*i - 2] + Radix * b[2*i - 1] + f[i - 1]
    <3>1. i \in 1 .. half /\ f[i - 1] \in Nat /\ i # 0
      BY <1>1, <1>6, <2>1
    <3>2. f[i] = step[i][f[i - 1]]
      BY <1>6, <3>1
    <3> QED
      BY <3>1, <3>2, Zenon
  <2>2. ASSUME NEW i \in 0 .. half, ~ (i > 0)
        PROVE  f[i] = start
    <3>1. i = 0
      BY <1>1, <2>2
    <3> QED
      BY <1>6, <3>1
  <2>3. \A i \in 0 .. half : f[i] = IF i > 0 THEN b[2*i - 2] + Radix * b[2*i - 1] + f[i - 1]
                                    ELSE start
    BY <2>1, <2>2, Zenon
  <2>4. f = [i \in 0 .. half |-> f[i]]
    BY <1>6
  <2> QED
    BY <2>3, <2>4, Zenon
<1>8. PICK g : Is(g) /\ calc_checksum16(b, n) = Word - 1 - Fold(Fold(g[half]))
  BY <1>7, Zenon DEF calc_checksum16, half
<1>9. g[0] = start
  <2>1. 0 \in 0 .. half /\ ~ (0 > 0)
    BY <1>1
  <2> QED
    BY <1>8, <2>1, Zenon
<1>10. \A i \in 1 .. half : g[i] = b[2*i - 2] + Radix * b[2*i - 1] + g[i - 1]
  <2>1. \A i \in 1 .. half : i \in 0 .. half /\ i > 0
    BY <1>1
  <2> QED
    BY <1>8, <2>1, Zenon
<1>11. \A i \in 0 .. half : g[i] \in Nat
  <2>1. \A i \in 1 .. half : g[i - 1] \in Nat => g[i] \in Nat
    BY <1>4, <1>10, Zenon
  <2> HIDE DEF start
  <2> QED
    BY <1>1, <1>3, <1>9, <2>1, Kept
<1> QED
  BY <1>8, <1>9, <1>10, <1>11, Zenon DEF half

\* So it is a number.
LEMMA ChecksumNumber ==
    ASSUME NEW n \in Nat, NEW b, \A i \in 0 .. n - 1 : b[i] \in Bytes
    PROVE  calc_checksum16(b, n) \in Int
<1>1. PICK g : /\ \A i \in 0 .. n \div 2 : g[i] \in Nat
               /\ calc_checksum16(b, n) = Word - 1 - Fold(Fold(g[n \div 2]))
  BY ChecksumSum
<1>2. n \div 2 \in 0 .. n \div 2
  OBVIOUS
<1>3. g[n \div 2] \in Int
  BY <1>1, <1>2
<1>4. Word \in Nat \ {0}
  BY PromAssumption DEF Word
<1>5. \A x \in Int : Fold(x) \in Int
  <2>1. ASSUME NEW x \in Int PROVE x % Word \in Int /\ x \div Word \in Int
    <3>1. x \div Word \in Int /\ x % Word \in 0 .. Word - 1
      BY <1>4, Division, Zenon
    <3> QED
      BY <1>4, <3>1
  <2> QED
    BY <2>1 DEF Fold
<1>6. Fold(Fold(g[n \div 2])) \in Int
  BY <1>3, <1>5, Zenon
<1>7. Word - 1 - Fold(Fold(g[n \div 2])) \in Int
  BY <1>4, <1>6
<1> QED
  BY <1>1, <1>7, Zenon

\* Two sequences, one behind the other.
LEMMA TwoParts ==
    ASSUME NEW s \in Seq(Bytes), NEW t \in Seq(Bytes)
    PROVE  /\ s \o t \in Seq(Bytes) /\ Len(s) \in Nat /\ Len(t) \in Nat
           /\ Len(s \o t) = Len(s) + Len(t)
           /\ \A i \in 1 .. Len(s) : (s \o t)[i] = s[i]
           /\ \A i \in 1 .. Len(t) : (s \o t)[Len(s) + i] = t[i]
<1>1. Len(s) \in Nat /\ Len(t) \in Nat
  OBVIOUS
<1>2. s \o t \in Seq(Bytes) /\ Len(s \o t) = Len(s) + Len(t)
  OBVIOUS
<1>3. \A i \in 1 .. Len(s) : (s \o t)[i] = s[i]
  OBVIOUS
<1>4. ASSUME NEW i \in 1 .. Len(t)
      PROVE  (s \o t)[Len(s) + i] = t[i]
  <2>1. Len(s) + i \in 1 .. Len(s) + Len(t) /\ Len(s) + i > Len(s) /\ (Len(s) + i) - Len(s) = i
    BY <1>1
  <2> QED
    BY <1>1, <2>1
<1> QED
  BY <1>1, <1>2, <1>3, <1>4

\* Parts that are put together one after the other.
LEMMA JoinedFacts ==
    ASSUME NEW S, NEW parts \in Seq(Seq(S))
    PROVE  /\ Len(parts) \in Nat
           /\ Joined(parts)[0] = <<>>
           /\ \A i \in 1 .. Len(parts) : Joined(parts)[i] = Joined(parts)[i - 1] \o parts[i]
           /\ \A i \in 0 .. Len(parts) : Joined(parts)[i] \in Seq(S)
<1> DEFINE Q == Seq(S)
           n == Len(parts)
           step == [i \in 1 .. n |-> [s \in Q |-> s \o parts[i]]]
           Is(f) == f = [i \in 0 .. n |-> IF i = 0 THEN <<>> ELSE f[i - 1] \o parts[i]]
<1>1. n \in Nat /\ <<>> \in Q
  OBVIOUS
<1>2. ASSUME NEW i \in 1 .. n, NEW s \in Q
      PROVE  s \o parts[i] \in Q
  <2>1. parts[i] \in Seq(S)
    OBVIOUS
  <2> QED
    BY <2>1
<1> HIDE DEF n, Q
<1>3. step \in [1 .. n -> [Q -> Q]]
  BY <1>2
<1>4. PICK f : Computes(f, n, Q, <<>>, step)
  <2> HIDE DEF step
  <2> QED
    BY <1>1, <1>3, Recursion
<1>5. Is(f)
  <2> USE DEF Computes
  <2>1. ASSUME NEW i \in 0 .. n, i # 0
        PROVE  f[i] = f[i - 1] \o parts[i]
    <3>1. i \in 1 .. n /\ f[i - 1] \in Q
      BY <1>1, <1>4, <2>1
    <3>2. f[i] = step[i][f[i - 1]]
      BY <1>4, <2>1, Zenon
    <3> QED
      BY <3>1, <3>2, Zenon
  <2>2. \A i \in 0 .. n : f[i] = IF i = 0 THEN <<>> ELSE f[i - 1] \o parts[i]
    BY <1>4, <2>1, Zenon
  <2>3. f = [i \in 0 .. n |-> f[i]]
    BY <1>4
  <2> QED
    BY <2>2, <2>3, Zenon
<1>6. Is(Joined(parts))
  BY <1>5, Zenon DEF Joined, n
<1>7. Joined(parts)[0] = <<>>
  <2>1. 0 \in 0 .. n
    BY <1>1
  <2> QED
    BY <1>6, <2>1, Zenon
<1>8. \A i \in 1 .. n : Joined(parts)[i] = Joined(parts)[i - 1] \o parts[i]
  <2>1. \A i \in 1 .. n : i \in 0 .. n /\ i # 0
    BY <1>1
  <2> QED
    BY <1>6, <2>1, Zenon
<1>9. \A i \in 0 .. n : Joined(parts)[i] \in Q
  <2>1. \A i \in 1 .. n : Joined(parts)[i - 1] \in Q => Joined(parts)[i] \in Q
    BY <1>2, <1>8, Zenon
  <2> QED
    BY <1>1, <1>7, <2>1, Kept
<1> QED
  BY <1>1, <1>7, <1>8, <1>9, Zenon DEF n, Q

\* The bytes of a name: none is zero, and there is one for each character if
\* every character has one.
LEMMA EncodeBytes ==
    ASSUME NEW name \in Seq(Chars)
    PROVE  /\ encode(name) \in Seq(Bytes \ {0}) /\ encode(name) \in Seq(Bytes)
           /\ (\A i \in DOMAIN name : Len(name[i]) = 1) => Len(encode(name)) = Len(name)
<1> DEFINE S == Bytes \ {0}
           n == Len(name)
           J == Joined(name)
<1>1. name \in Seq(Seq(S))
  BY PromAssumption
<1>2. /\ n \in Nat /\ J[0] = <<>>
      /\ \A i \in 1 .. n : J[i] = J[i - 1] \o name[i]
      /\ \A i \in 0 .. n : J[i] \in Seq(S)
  <2> HIDE DEF S
  <2> QED
    BY <1>1, JoinedFacts
<1>3. encode(name) = J[n]
  BY DEF encode
<1>4. encode(name) \in Seq(S)
  BY <1>2, <1>3
<1>5. ASSUME \A i \in DOMAIN name : Len(name[i]) = 1
      PROVE  Len(encode(name)) = n
  <2> DEFINE T == {i \in 0 .. n : Len(J[i]) = i}
  <2> HIDE DEF J
  <2>1. 0 \in T
    BY <1>2
  <2>2. ASSUME NEW i \in 1 .. n, i - 1 \in T
        PROVE  i \in T
    <3>1. i - 1 \in 0 .. n /\ i \in 0 .. n /\ i \in DOMAIN name
      BY <1>2
    <3> HIDE DEF S
    <3>2. J[i - 1] \in Seq(S) /\ name[i] \in Seq(S) /\ Len(name[i]) = 1
      <4>1. name[i] \in Seq(S)
        BY <1>1, <3>1
      <4> QED
        BY <1>2, <1>5, <3>1, <4>1, Zenon
    <3>3. \A s, t \in Seq(S) : Len(s \o t) = Len(s) + Len(t)
      OBVIOUS
    <3>4. Len(J[i]) = i
      <4>1. J[i] = J[i - 1] \o name[i] /\ Len(J[i - 1]) = i - 1
        BY <1>2, <2>2
      <4>2. Len(J[i]) = (i - 1) + 1
        BY <3>2, <3>3, <4>1, Zenon
      <4> QED
        BY <3>1, <4>2
    <3> QED
      BY <3>1, <3>4
  <2>3. \A i \in 0 .. n : i \in T
    <3> HIDE DEF T, n
    <3> QED
      BY <1>2, <2>1, <2>2, Induction
  <2>4. n \in 0 .. n
    BY <1>2
  <2> QED
    BY <1>3, <2>3, <2>4
<1>6. encode(name) \in Seq(Bytes)
  BY <1>4
<1> QED
  BY <1>4, <1>5, <1>6

\* What is written for an area, with bases of m bytes and lengths of n.
AreaBytes(l, m, n) ==
    Pack(l.base, m) \o Pack(l.length, n) \o <<perm_flag(l.perm)>> \o encode(l.name) \o <<0>>

\* The tag and the payload of the entry of a line.
LineTag(l) ==
    CASE l.field = "name"  -> PROM_DEVICE_TAG
      [] l.field = "dma"   ->
            IF l.base >= Power[BaseBytes] \/ l.length >= Power[LengthBytes]
            THEN PROM_DMA_EXT_TAG ELSE PROM_DMA_TAG
      [] l.field = "mask"  -> PROM_DMA_MASK_TAG
      [] l.field = "align" -> PROM_DMA_ALIGN_TAG

Payload(l) ==
    CASE l.field = "name"  -> encode(l.name) \o <<0>>
      [] l.field = "dma"   ->
            IF l.base >= Power[BaseBytes] \/ l.length >= Power[LengthBytes]
            THEN AreaBytes(l, ExtBytes, ExtBytes)
            ELSE AreaBytes(l, BaseBytes, LengthBytes)
      [] l.field = "mask"  -> <<l.value>>
      [] l.field = "align" -> <<l.value>>

\* The fields of a line.
LEMMA LineFields ==
    ASSUME NEW l \in Lines
    PROVE  /\ l.field \in {"version", "name", "dma", "mask", "align"}
           /\ l.field \in {"name", "dma"} =>
                /\ l.name \in Seq(Chars)
                /\ encode(l.name) \in Seq(Bytes \ {0}) /\ encode(l.name) \in Seq(Bytes)
                /\ OneByte(l) => Len(encode(l.name)) = Len(l.name)
           /\ l.field = "dma" =>
                /\ l.perm \in [letters : SUBSET {"r", "w"}, number : Bytes]
                /\ l.base \in 0 .. Power[ExtBytes] - 1 /\ l.base \in Int
                /\ l.length \in 0 .. Power[ExtBytes] - 1 /\ l.length \in Int
           /\ l.field \in {"version", "mask", "align"} => l.value \in Bytes
<1>1. l.field \in {"version", "name", "dma", "mask", "align"}
  BY DEF Lines
<1>2. ASSUME l.field \in {"name", "dma"}
      PROVE  /\ l.name \in Seq(Chars)
             /\ encode(l.name) \in Seq(Bytes \ {0}) /\ encode(l.name) \in Seq(Bytes)
             /\ OneByte(l) => Len(encode(l.name)) = Len(l.name)
  <2>1. l.name \in Seq(Chars)
    BY <1>2 DEF Lines
  <2> QED
    BY <1>2, <2>1, EncodeBytes, Zenon DEF OneByte
<1>3. ASSUME l.field = "dma"
      PROVE  /\ l.perm \in [letters : SUBSET {"r", "w"}, number : Bytes]
             /\ l.base \in 0 .. Power[ExtBytes] - 1 /\ l.base \in Int
             /\ l.length \in 0 .. Power[ExtBytes] - 1 /\ l.length \in Int
  <2> DEFINE P == [letters : SUBSET {"r", "w"}, number : Bytes]
             V == 0 .. Power[ExtBytes] - 1
  <2> HIDE DEF P, V
  <2>2. l \in [field : {"dma"}, name : Seq(Chars), perm : P, base : V, length : V]
    BY <1>3 DEF Lines, P, V
  <2>3. l.perm \in P /\ l.base \in V /\ l.length \in V
    BY <2>2
  <2>4. V \subseteq Int
    <3>1. Power[ExtBytes] \in Nat
      BY PowerFacts, PromAssumption
    <3> QED
      BY <3>1 DEF V
  <2> QED
    BY <2>3, <2>4 DEF P, V
<1>4. l.field \in {"version", "mask", "align"} => l.value \in Bytes
  BY DEF Lines
<1> QED
  BY <1>1, <1>2, <1>3, <1>4

\* The bytes of an area, and how many there are.
LEMMA AreaIsBytes ==
    ASSUME NEW l \in Lines, l.field = "dma", NEW m \in 0 .. ExtBytes, NEW n \in 0 .. ExtBytes
    PROVE  /\ AreaBytes(l, m, n) \in Seq(Bytes)
           /\ OneByte(l) => Len(AreaBytes(l, m, n)) = Len(l.name) + m + n + 2
<1>1. {0, 1, 2, 3, 4, 5, 6} \subseteq Bytes
  BY PromAssumption DEF Bytes
<1>2. /\ l.name \in Seq(Chars) /\ encode(l.name) \in Seq(Bytes)
      /\ OneByte(l) => Len(encode(l.name)) = Len(l.name)
      /\ l.base \in Int /\ l.length \in Int
      /\ l.perm.letters \in SUBSET {"r", "w"} /\ l.perm.number \in Bytes
  BY LineFields
<1>3. <<perm_flag(l.perm)>> \in Seq(Bytes) /\ <<0>> \in Seq(Bytes)
  BY <1>1, <1>2 DEF perm_flag
<1>4. /\ Pack(l.base, m) \in Seq(Bytes) /\ Len(Pack(l.base, m)) = m
      /\ Pack(l.length, n) \in Seq(Bytes) /\ Len(Pack(l.length, n)) = n
  BY <1>2, PackBytes, PromAssumption
<1>5. Len(l.name) \in Nat /\ m \in Nat /\ n \in Nat
  BY <1>2, PromAssumption
<1> DEFINE numbers == Pack(l.base, m) \o Pack(l.length, n)
           front == numbers \o <<perm_flag(l.perm)>>
           named == front \o encode(l.name)
<1>6. AreaBytes(l, m, n) = named \o <<0>>
  BY DEF AreaBytes
<1>7. numbers \in Seq(Bytes) /\ Len(numbers) = m + n
  BY <1>4, TwoParts, Zenon
<1> HIDE DEF numbers
<1>8. front \in Seq(Bytes) /\ Len(front) = m + n + 1
  BY <1>3, <1>5, <1>7
<1> HIDE DEF front
<1>9. named \in Seq(Bytes) /\ Len(named) = Len(front) + Len(encode(l.name))
  BY <1>2, <1>8, TwoParts, Zenon
<1> HIDE DEF named
<1>10. named \o <<0>> \in Seq(Bytes) /\ Len(named \o <<0>>) = Len(named) + Len(<<0>>)
  BY <1>3, <1>9, TwoParts, Zenon
<1>11. OneByte(l) => Len(named \o <<0>>) = Len(l.name) + m + n + 2
  <2>1. Len(<<0>>) = 1
    OBVIOUS
  <2>2. OneByte(l) => Len(named \o <<0>>) = ((m + n + 1) + Len(l.name)) + 1
    BY <1>2, <1>8, <1>9, <1>10, <2>1
  <2>3. ((m + n + 1) + Len(l.name)) + 1 = Len(l.name) + m + n + 2
    <3>1. \A x, y, z \in Nat : ((x + y + 1) + z) + 1 = z + x + y + 2
      OBVIOUS
    <3> QED
      BY <1>5, <3>1, Zenon
  <2> QED
    BY <2>2, <2>3
<1> QED
  BY <1>6, <1>10, <1>11, Zenon

\* The entry of a line has its tag and its payload, and the right size if the
\* name has characters of one byte.
LEMMA LineParts ==
    ASSUME NEW l \in Lines, l.field # "version", OneByte(l)
    PROVE  /\ dump_line(l) = dump(LineTag(l), Len(Payload(l)), Payload(l))
           /\ LineTag(l) \in Bytes \ {PROM_END_TAG} /\ Payload(l) \in Seq(Bytes)
<1>1. {0, 1, 2, 3, 4, 5, 6} \subseteq Bytes
  BY PromAssumption DEF Bytes
<1>2. {PROM_DEVICE_TAG, PROM_DMA_TAG, PROM_DMA_EXT_TAG, PROM_DMA_MASK_TAG,
       PROM_DMA_ALIGN_TAG} \subseteq Bytes \ {PROM_END_TAG}
  BY <1>1 DEF PROM_DEVICE_TAG, PROM_DMA_TAG, PROM_DMA_EXT_TAG,
     PROM_DMA_MASK_TAG, PROM_DMA_ALIGN_TAG, PROM_END_TAG
<1>3. CASE l.field = "name"
  <2>1. LineTag(l) = PROM_DEVICE_TAG /\ Payload(l) = encode(l.name) \o <<0>>
        /\ dump_line(l) = dump(PROM_DEVICE_TAG, Len(l.name) + 1, encode(l.name) \o <<0>>)
    BY <1>3 DEF LineTag, Payload, dump_line, dump_device_description
  <2>2. encode(l.name) \o <<0>> \in Seq(Bytes) /\ Len(encode(l.name) \o <<0>>) = Len(l.name) + 1
    <3>1. encode(l.name) \in Seq(Bytes) /\ Len(encode(l.name)) = Len(l.name)
      BY <1>3, LineFields
    <3> QED
      BY <1>1, <3>1
  <2> QED
    BY <1>2, <2>1, <2>2, Zenon
<1>4. CASE l.field = "dma"
  <2>1. {BaseBytes, LengthBytes, ExtBytes} \subseteq 0 .. ExtBytes
    BY PromAssumption
  <2>2. CASE l.base >= Power[BaseBytes] \/ l.length >= Power[LengthBytes]
    <3>1. LineTag(l) = PROM_DMA_EXT_TAG
      BY <1>4, <2>2 DEF LineTag
    <3>2. Payload(l) = AreaBytes(l, ExtBytes, ExtBytes)
      BY <1>4, <2>2 DEF Payload
    <3>3. dump_line(l) = dump(PROM_DMA_EXT_TAG, Len(l.name) + ExtBytes + ExtBytes + 2,
                              AreaBytes(l, ExtBytes, ExtBytes))
      <4>1. dump_line(l) = dump_memory_description(l)
        BY <1>4 DEF dump_line
      <4> QED
        BY <2>2, <4>1, Zenon DEF dump_memory_description, dump_area, AreaBytes
    <3>4. /\ AreaBytes(l, ExtBytes, ExtBytes) \in Seq(Bytes)
          /\ Len(AreaBytes(l, ExtBytes, ExtBytes)) = Len(l.name) + ExtBytes + ExtBytes + 2
      BY <1>4, <2>1, AreaIsBytes
    <3> QED
      BY <1>2, <3>1, <3>2, <3>3, <3>4, Zenon
  <2>3. CASE ~ (l.base >= Power[BaseBytes] \/ l.length >= Power[LengthBytes])
    <3>1. LineTag(l) = PROM_DMA_TAG
      BY <1>4, <2>3 DEF LineTag
    <3>2. Payload(l) = AreaBytes(l, BaseBytes, LengthBytes)
      BY <1>4, <2>3 DEF Payload
    <3>3. dump_line(l) = dump(PROM_DMA_TAG, Len(l.name) + BaseBytes + LengthBytes + 2,
                              AreaBytes(l, BaseBytes, LengthBytes))
      <4>1. dump_line(l) = dump_memory_description(l)
        BY <1>4 DEF dump_line
      <4> QED
        BY <2>3, <4>1, Zenon DEF dump_memory_description, dump_area, AreaBytes
    <3>4. /\ AreaBytes(l, BaseBytes, LengthBytes) \in Seq(Bytes)
          /\ Len(AreaBytes(l, BaseBytes, LengthBytes)) = Len(l.name) + BaseBytes + LengthBytes + 2
      BY <1>4, <2>1, AreaIsBytes
    <3> QED
      BY <1>2, <3>1, <3>2, <3>3, <3>4, Zenon
  <2> QED
    BY <2>2, <2>3
<1>5. CASE l.field = "mask"
  <2>1. LineTag(l) = PROM_DMA_MASK_TAG /\ Payload(l) = <<l.value>>
        /\ dump_line(l) = dump(PROM_DMA_MASK_TAG, 1, <<l.value>>)
    BY <1>5 DEF LineTag, Payload, dump_line
  <2>2. <<l.value>> \in Seq(Bytes) /\ Len(<<l.value>>) = 1
    BY <1>5, LineFields
  <2> QED
    BY <1>2, <2>1, <2>2, Zenon
<1>6. CASE l.field = "align"
  <2>1. LineTag(l) = PROM_DMA_ALIGN_TAG /\ Payload(l) = <<l.value>>
        /\ dump_line(l) = dump(PROM_DMA_ALIGN_TAG, 1, <<l.value>>)
    BY <1>6 DEF LineTag, Payload, dump_line
  <2>2. <<l.value>> \in Seq(Bytes) /\ Len(<<l.value>>) = 1
    BY <1>6, LineFields
  <2> QED
    BY <1>2, <2>1, <2>2, Zenon
<1> QED
  BY <1>3, <1>4, <1>5, <1>6, LineFields

\* The end entry with the checksum is bytes.
LEMMA EndBytes ==
    ASSUME NEW content \in Seq(Bytes)
    PROVE  dump_end(content) \in Seq(Bytes)
<1> DEFINE end == IF Len(content) % 2 = 1 THEN <<0, 3, 0>> ELSE <<0, 2>>
           all == content \o end
           b == [i \in 0 .. Len(all) - 1 |-> all[i + 1]]
           sum == calc_checksum16(b, Len(all))
<1>1. end \in Seq(Bytes)
  <2>1. {0, 2, 3} \subseteq Bytes
    BY PromAssumption DEF Bytes
  <2> QED
    BY <2>1
<1> HIDE DEF end
<1>2. all \in Seq(Bytes)
  BY <1>1
<1> HIDE DEF all
<1>3. Len(all) \in Nat /\ \A i \in 0 .. Len(all) - 1 : b[i] \in Bytes
  BY <1>2
<1> HIDE DEF b
<1>4. sum \in Int
  BY <1>3, ChecksumNumber
<1> HIDE DEF sum
<1>5. Pack(sum, 2) \in Seq(Bytes)
  BY <1>4, PackBytes, PromAssumption
<1>6. dump_end(content) = IF content = <<>> THEN <<0, 0>> ELSE end \o Pack(sum, 2)
  BY Zenon DEF dump_end, end, all, b, sum
<1>7. <<0, 0>> \in Seq(Bytes)
  BY PromAssumption DEF Bytes
<1> QED
  BY <1>1, <1>5, <1>6, <1>7

\* The header of an image.
LEMMA HeaderBytes ==
    /\ {dump_header(PROM_VERSION), dump_header(PROM_VERSION + 1), <<>>} \subseteq Seq(Bytes)
    /\ Magic \in Seq(Bytes) /\ Len(Magic) \in Nat
<1>1. <<PROM_VERSION>> \in Seq(Bytes) /\ <<PROM_VERSION + 1>> \in Seq(Bytes)
  BY PromAssumption DEF PROM_VERSION, Bytes
<1>2. Magic \in Seq(Bytes) /\ Len(Magic) \in Nat
  BY PromAssumption
<1> QED
  BY <1>1, <1>2 DEF dump_header, PROM_VERSION

\* The bytes written up to each line.
LEMMA ContentsBytes ==
    ASSUME NEW c \in Configs \cup {DefaultConfig}
    PROVE  /\ c \in Seq(Lines) /\ Len(c) \in Nat
           /\ \A i \in 0 .. Len(c) : Contents(c)[i] \in Seq(Bytes)
           /\ Contents(c)[0] = <<>>
           /\ \A i \in 1 .. Len(c) :
                /\ Contents(c)[i] = Contents(c)[i - 1] \o dump_line(c[i])
                /\ c[i] \in Lines /\ dump_line(c[i]) \in Seq(Bytes)
<1> DEFINE parts == [k \in DOMAIN c |-> dump_line(c[k])]
<1>1. c \in Seq(Lines) /\ \A i \in DOMAIN c : dump_line(c[i]) \in Seq(Bytes)
  BY ConfigAssumption, Zenon
<1>2. Len(c) \in Nat /\ DOMAIN c = 1 .. Len(c) /\ \A i \in 1 .. Len(c) : c[i] \in Lines
  BY <1>1
<1>3. /\ parts \in Seq(Seq(Bytes)) /\ Len(parts) = Len(c)
      /\ \A i \in 1 .. Len(c) : parts[i] = dump_line(c[i])
  BY <1>1, <1>2
<1>4. Contents(c) = Joined(parts)
  BY DEF Contents
<1> HIDE DEF parts
<1>5. /\ Joined(parts)[0] = <<>>
      /\ \A i \in 1 .. Len(parts) : Joined(parts)[i] = Joined(parts)[i - 1] \o parts[i]
      /\ \A i \in 0 .. Len(parts) : Joined(parts)[i] \in Seq(Bytes)
  BY <1>3, JoinedFacts
<1> QED
  BY <1>1, <1>2, <1>3, <1>4, <1>5, Zenon

\* A whole image.
LEMMA ImageBytes ==
    ASSUME NEW c \in Configs \cup {DefaultConfig}
    PROVE  process_config_file(c) \in Seq(Bytes) /\ Len(process_config_file(c)) \in Nat
<1> DEFINE content == Contents(c)[Len(c)]
<1>1. content \in Seq(Bytes)
  <2>1. Len(c) \in Nat /\ \A i \in 0 .. Len(c) : Contents(c)[i] \in Seq(Bytes)
    BY ContentsBytes
  <2>2. Len(c) \in 0 .. Len(c)
    BY <2>1
  <2> QED
    BY <2>1, <2>2
<1>2. process_config_file(c) = content \o dump_end(content)
  BY Zenon DEF process_config_file
<1>3. dump_end(content) \in Seq(Bytes)
  BY <1>1, EndBytes, Zenon
<1>4. \A s, t \in Seq(Bytes) : s \o t \in Seq(Bytes) /\ Len(s \o t) \in Nat
  OBVIOUS
<1> QED
  BY <1>1, <1>2, <1>3, <1>4, Zenon

-----------------------------------------------------------------------------
(* The PROM and the loader's copy of it. *)

\* PROM_MAX_LENGTH bytes and a zero.
IsProm(p) == p \in [0 .. PROM_MAX_LENGTH -> Bytes] /\ p[PROM_MAX_LENGTH] = 0

\* Whatever is burnt into the PROM.
LEMMA BurnIsProm ==
    ASSUME NEW image \in Seq(Bytes), NEW fill \in Bytes
    PROVE  IsProm(Burn(image, fill))
<1>1. 0 \in Bytes /\ PROM_MAX_LENGTH \in Nat
  BY PromAssumption DEF Bytes
<1>2. \A i \in 0 .. PROM_MAX_LENGTH : i < Len(image) => image[i + 1] \in Bytes
  OBVIOUS
<1> QED
  BY <1>1, <1>2 DEF Burn, IsProm

LEMMA DefaultIsProm == IsProm(default_prom)
<1>1. 0 \in Bytes
  BY PromAssumption DEF Bytes
<1>2. process_config_file(DefaultConfig) \in Seq(Bytes)
  BY ImageBytes
<1> QED
  BY <1>1, <1>2, BurnIsProm, Zenon DEF default_prom

LEMMA BuffIsProm == IsProm(prom) => IsProm(buff)
BY DefaultIsProm, Zenon DEF buff

-----------------------------------------------------------------------------
(* The walk over the entries. *)

\* An entry that is no end marker lies within the PROM, and the next one
\* behind it.
LEMMA NextGrows ==
    ASSUME IsProm(prom), NEW e \in 0 .. PROM_MAX_LENGTH, tag(e) # PROM_END_TAG
    PROVE  /\ e \in 0 .. PROM_MAX_LENGTH - 1 /\ size(e) \in Bytes
           /\ prom_next_entry(e) = e + size(e) + 2
           /\ prom_next_entry(e) \in e + 2 .. PROM_MAX_LENGTH + Radix
<1>1. IsProm(buff)
  BY BuffIsProm
<1>2. PROM_MAX_LENGTH \in Nat /\ Radix \in Nat
  BY PromAssumption
<1>3. e \in 0 .. PROM_MAX_LENGTH - 1
  BY <1>1, <1>2 DEF tag, IsProm, PROM_END_TAG
<1>4. size(e) \in Bytes
  BY <1>1, <1>2, <1>3 DEF size, IsProm
<1>5. prom_next_entry(e) = e + size(e) + 2
  BY DEF prom_next_entry
<1>6. size(e) \in 0 .. Radix - 1
  BY <1>4 DEF Bytes
<1> QED
  BY <1>2, <1>3, <1>4, <1>5, <1>6

\* What the walk from e visits, given what it visits from every later entry.
Visits(f, e) ==
    IF tag(e) = PROM_END_TAG THEN <<>>
    ELSE <<e>> \o (IF prom_next_entry(e) < PROM_MAX_LENGTH
                   THEN f[prom_next_entry(e)] ELSE <<>>)

IsWalk(f, m) == f = [e \in PROM_MAX_LENGTH - m .. PROM_MAX_LENGTH |-> Visits(f, e)]

\* Since the index grows, there is a walk.
LEMMA WalkExists ==
    ASSUME IsProm(prom)
    PROVE  \E f : IsWalk(f, PROM_MAX_LENGTH)
<1> DEFINE M == PROM_MAX_LENGTH
           T == {m \in 0 .. M : \E f : IsWalk(f, m)}
<1>0. M \in Nat
  BY PromAssumption
<1>1. 0 \in T
  <2> DEFINE f == [e \in M - 0 .. M |-> <<>>]
  <2>1. \A e \in M - 0 .. M : tag(e) = PROM_END_TAG
    <3>1. \A e \in M - 0 .. M : e = M
      BY <1>0
    <3> QED
      BY <3>1, BuffIsProm DEF tag, IsProm, PROM_END_TAG
  <2>2. \A e \in M - 0 .. M : <<>> = Visits(f, e)
    BY <2>1, Zenon DEF Visits
  <2>3. IsWalk(f, 0)
    BY <2>2, Zenon DEF IsWalk
  <2> QED
    BY <1>0, <2>3
<1>2. ASSUME NEW m \in 1 .. M, m - 1 \in T
      PROVE  m \in T
  <2>1. PICK f : IsWalk(f, m - 1)
    BY <1>2
  <2> DEFINE g == [e \in M - m .. M |-> Visits(f, e)]
  <2>2. ASSUME NEW e \in M - m .. M, tag(e) # PROM_END_TAG, prom_next_entry(e) < M
        PROVE  g[prom_next_entry(e)] = f[prom_next_entry(e)]
    <3>1. prom_next_entry(e) \in M - (m - 1) .. M /\ prom_next_entry(e) \in M - m .. M
      BY <1>0, <2>2, NextGrows
    <3> QED
      BY <2>1, <3>1, Zenon DEF IsWalk
  <2>3. \A e \in M - m .. M : Visits(f, e) = Visits(g, e)
    BY <2>2, Zenon DEF Visits
  <2>4. IsWalk(g, m)
    BY <2>3, Zenon DEF IsWalk
  <2>5. m \in 0 .. M
    BY <1>0
  <2> QED
    BY <2>4, <2>5
<1>3. \A m \in 0 .. M : m \in T
  <2> HIDE DEF T
  <2> QED
    BY <1>0, <1>1, <1>2, Induction
<1>4. M \in 0 .. M
  BY <1>0
<1> QED
  BY <1>3, <1>4

\* Where a walk w from e has come to.
EndOf(e, w) == IF w = <<>> THEN e ELSE prom_next_entry(w[Len(w)])

\* w is what a walk from e visits: entries within the PROM, each the next of
\* the one before, up to an end marker or out of the PROM.
WalkFrom(e, w) ==
    /\ w \in Seq(0 .. PROM_MAX_LENGTH - 1)
    /\ w # <<>> => w[1] = e
    /\ \A k \in 1 .. Len(w) : tag(w[k]) # PROM_END_TAG /\ w[k] < EndOf(e, w)
    /\ \A k \in 1 .. Len(w) - 1 : w[k + 1] = prom_next_entry(w[k])
    /\ EndOf(e, w) < PROM_MAX_LENGTH => tag(EndOf(e, w)) = PROM_END_TAG
    /\ EndOf(e, w) \in e .. PROM_MAX_LENGTH + Radix

\* One entry more in front of a walk.
LEMMA WalkLonger ==
    ASSUME IsProm(prom), NEW e \in 0 .. PROM_MAX_LENGTH, tag(e) # PROM_END_TAG,
           NEW w, IF prom_next_entry(e) < PROM_MAX_LENGTH
                  THEN WalkFrom(prom_next_entry(e), w) ELSE w = <<>>
    PROVE  WalkFrom(e, <<e>> \o w)
<1> DEFINE M == PROM_MAX_LENGTH
           v == <<e>> \o w
           next == prom_next_entry(e)
<1>0. M \in Nat /\ Radix \in Nat
  BY PromAssumption
<1>1. e \in 0 .. M - 1 /\ next \in e + 2 .. M + Radix
  BY NextGrows
<1>2. w \in Seq(0 .. M - 1) /\ EndOf(next, w) \in next .. M + Radix
  <2>1. CASE next < M
    BY <2>1 DEF WalkFrom
  <2>2. CASE ~ (next < M)
    BY <1>0, <1>1, <2>2 DEF EndOf
  <2> QED
    BY <2>1, <2>2
<1>3. /\ v \in Seq(0 .. M - 1) /\ Len(v) = Len(w) + 1 /\ v # <<>> /\ v[1] = e
      /\ \A k \in 1 .. Len(w) : v[k + 1] = w[k]
  BY <1>1, <1>2
<1> HIDE DEF v
<1>4. EndOf(e, v) = EndOf(next, w)
  <2>1. CASE w = <<>>
    BY <1>3, <2>1 DEF EndOf
  <2>2. CASE w # <<>>
    <3>1. Len(w) \in 1 .. Len(w)
      BY <1>2, <2>2
    <3>2. v[Len(v)] = w[Len(w)]
      BY <1>2, <1>3, <3>1
    <3> QED
      BY <1>3, <2>2, <3>2 DEF EndOf
  <2> QED
    BY <2>1, <2>2
<1>5. /\ \A k \in 1 .. Len(w) : tag(w[k]) # PROM_END_TAG /\ w[k] < EndOf(next, w)
      /\ \A k \in 1 .. Len(w) - 1 : w[k + 1] = prom_next_entry(w[k])
      /\ EndOf(next, w) < M => tag(EndOf(next, w)) = PROM_END_TAG
      /\ w # <<>> => w[1] = next
  <2>1. CASE next < M
    BY <2>1 DEF WalkFrom
  <2>2. CASE ~ (next < M)
    BY <1>0, <1>1, <2>2 DEF EndOf
  <2> QED
    BY <2>1, <2>2
<1>6. \A k \in 1 .. Len(v) : k = 1 \/ (k - 1 \in 1 .. Len(w) /\ v[k] = w[k - 1])
  BY <1>2, <1>3
<1>7. ASSUME NEW k \in 1 .. Len(v)
      PROVE  tag(v[k]) # PROM_END_TAG /\ v[k] < EndOf(e, v)
  <2>1. CASE k = 1
    BY <1>1, <1>2, <1>3, <1>4, <2>1
  <2>2. CASE k # 1
    BY <1>4, <1>5, <1>6, <2>2
  <2> QED
    BY <2>1, <2>2
<1>8. ASSUME NEW k \in 1 .. Len(v) - 1
      PROVE  v[k + 1] = prom_next_entry(v[k])
  <2>1. k \in 1 .. Len(w) /\ v[k + 1] = w[k]
    BY <1>2, <1>3
  <2>2. CASE k = 1
    <3>1. w # <<>>
      BY <1>2, <2>1
    <3> QED
      BY <1>3, <1>5, <2>1, <2>2, <3>1
  <2>3. CASE k # 1
    <3>1. k - 1 \in 1 .. Len(w) - 1 /\ k - 1 \in 1 .. Len(w) /\ (k - 1) + 1 = k
      BY <1>2, <2>1, <2>3
    <3>2. v[k] = w[k - 1]
      BY <1>3, <3>1
    <3>3. w[k] = prom_next_entry(w[k - 1])
      BY <1>5, <3>1
    <3> QED
      BY <2>1, <3>2, <3>3
  <2> QED
    BY <2>2, <2>3
<1>9. EndOf(e, v) \in e .. M + Radix
  BY <1>0, <1>1, <1>2, <1>4
<1> QED
  BY <1>3, <1>4, <1>5, <1>7, <1>8, <1>9 DEF WalkFrom, v

\* What prom_for_each_entry visits, and where it ends.
LEMMA Walk ==
    ASSUME IsProm(prom)
    PROVE  /\ WalkFrom(PROM_FIRST_ENTRY_OFFSET, prom_for_each_entry)
           /\ walk_end = EndOf(PROM_FIRST_ENTRY_OFFSET, prom_for_each_entry)
<1> DEFINE M == PROM_MAX_LENGTH
<1>0. M \in Nat /\ Radix \in Nat /\ PROM_FIRST_ENTRY_OFFSET \in 0 .. M
  BY PromAssumption, HeaderBytes DEF PROM_FIRST_ENTRY_OFFSET
<1>1. \E f : f = [e \in 0 .. M |-> Visits(f, e)]
  <2>1. M - M = 0
    BY <1>0
  <2> QED
    BY <2>1, WalkExists DEF IsWalk
<1>2. PICK f : /\ f = [e \in 0 .. M |-> Visits(f, e)]
               /\ prom_for_each_entry = f[PROM_FIRST_ENTRY_OFFSET]
  BY <1>1, Zenon DEF Visits, prom_for_each_entry
<1> DEFINE T == {m \in 0 .. M : \A e \in M - m .. M : WalkFrom(e, f[e])}
<1>3. \A e \in 0 .. M : tag(e) = PROM_END_TAG => WalkFrom(e, f[e])
  <2> SUFFICES ASSUME NEW e \in 0 .. M, tag(e) = PROM_END_TAG
               PROVE  WalkFrom(e, f[e])
    OBVIOUS
  <2>1. f[e] = <<>>
    BY <1>2, Zenon DEF Visits
  <2>2. EndOf(e, f[e]) = e
    BY <2>1 DEF EndOf
  <2> QED
    BY <1>0, <2>1, <2>2 DEF WalkFrom
<1>4. 0 \in T
  <2>1. \A e \in M - 0 .. M : e = M /\ e \in 0 .. M
    BY <1>0
  <2>2. tag(M) = PROM_END_TAG
    BY BuffIsProm DEF tag, IsProm, PROM_END_TAG
  <2> QED
    BY <1>0, <1>3, <2>1, <2>2
<1>5. ASSUME NEW m \in 1 .. M, m - 1 \in T
      PROVE  m \in T
  <2>1. ASSUME NEW e \in M - m .. M
        PROVE  WalkFrom(e, f[e])
    <3>1. e \in 0 .. M
      BY <1>0
    <3>2. CASE tag(e) = PROM_END_TAG
      BY <1>3, <3>1, <3>2
    <3>3. CASE tag(e) # PROM_END_TAG
      <4> DEFINE w == IF prom_next_entry(e) < M THEN f[prom_next_entry(e)] ELSE <<>>
      <4>1. f[e] = <<e>> \o w
        BY <1>2, <3>1, <3>3, Zenon DEF Visits
      <4>2. prom_next_entry(e) < M => prom_next_entry(e) \in M - (m - 1) .. M
        BY <1>0, <3>1, <3>3, NextGrows
      <4>3. IF prom_next_entry(e) < M THEN WalkFrom(prom_next_entry(e), w) ELSE w = <<>>
        BY <1>5, <4>2
      <4> HIDE DEF w
      <4> QED
        BY <3>1, <3>3, <4>1, <4>3, WalkLonger
    <3> QED
      BY <3>2, <3>3
  <2>2. m \in 0 .. M
    BY <1>0
  <2> QED
    BY <2>1, <2>2
<1>6. \A m \in 0 .. M : m \in T
  <2> HIDE DEF T
  <2> QED
    BY <1>0, <1>4, <1>5, Induction
<1>7. WalkFrom(PROM_FIRST_ENTRY_OFFSET, f[PROM_FIRST_ENTRY_OFFSET])
  <2>1. M \in T
    BY <1>0, <1>6
  <2>2. PROM_FIRST_ENTRY_OFFSET \in M - M .. M
    BY <1>0
  <2> QED
    BY <2>1, <2>2
<1> QED
  BY <1>2, <1>7, Zenon DEF walk_end, EndOf

-----------------------------------------------------------------------------
(* The inductive invariant. *)

\* The index a walk has after k - 1 entries.
Place(k) ==
    IF k \in DOMAIN prom_for_each_entry THEN prom_for_each_entry[k] ELSE walk_end

AreasAmong(seen, k) == Cardinality({j \in 1 .. k : IsDma(seen[j])})

\* The PROM always holds bytes, and a configuration comes from a file.
PromInv == IsProm(prom) /\ (config # <<>> => config \in Configs)

\* The loader has met the first entries of the walk and counted them.
Counted ==
    /\ dma_nentries = AreasAmong(prom_for_each_entry, nentries)
    /\ nentries_with_minor = MinorsAmong(prom_for_each_entry, nentries)

ScanInv ==
    /\ pc = "load" => /\ ent_i = PROM_FIRST_ENTRY_OFFSET
                      /\ nentries = 0 /\ dma_nentries = 0 /\ nentries_with_minor = 0
    /\ pc = "scan" => /\ nentries \in 0 .. Len(prom_for_each_entry)
                      /\ ent_i = Place(nentries + 1)
                      /\ Counted

\* It accepts only when the walk is over.
AcceptInv ==
    /\ pc \in Accepted => /\ nentries = Len(prom_for_each_entry) /\ Counted
                          /\ walk_end < data_len /\ ent_i <= walk_end
    /\ pc \in {"cdev", "nodes", "failed", "bound", "removed"} =>
           nentries <= MAX_MINORS_PER_BOARD

\* Node k was made for the k-th entry that needs a minor.
NodeOf(k) ==
    \E j \in DOMAIN prom_for_each_entry :
        /\ nodes[k] = prom_for_each_entry[j]
        /\ prom_entry_needs_minor(nodes[k])
        /\ MinorsAmong(prom_for_each_entry, j - 1) = k - 1

\* Of the first m entries, all that need a minor have a node.
NodesUpTo(m) ==
    /\ ent_i = Place(m + 1)
    /\ pc # "failed" => Len(nodes) = MinorsAmong(prom_for_each_entry, m)
    /\ pc \in {"bound", "removed"} => m = Len(prom_for_each_entry)

\* The nodes are those of a device entry and of areas behind it.
NodeList ==
    /\ nodes \in Seq(Nat) /\ device_name \in BOOLEAN
    /\ device_name <=> nodes # <<>>
    /\ \A k \in 1 .. Len(nodes) : (IsDma(nodes[k]) <=> k > 1) /\ NodeOf(k)

NodesInv ==
    /\ IF pc \in {"nodes", "failed", "bound", "removed"}
       THEN \E m \in 0 .. Len(prom_for_each_entry) : NodesUpTo(m)
       ELSE nodes = <<>>
    /\ pc = "removed" => destroyed = 0 .. nentries - 1

IInv == TypeOK /\ PromInv /\ ScanInv /\ AcceptInv /\ NodeList /\ NodesInv

-----------------------------------------------------------------------------
(* Places of the walk, and counting along it. *)

\* Each place is behind the one before, all within the PROM but the last.
LEMMA Places ==
    ASSUME IsProm(prom)
    PROVE  /\ Len(prom_for_each_entry) \in Nat
           /\ DOMAIN prom_for_each_entry = 1 .. Len(prom_for_each_entry)
           /\ Place(1) = PROM_FIRST_ENTRY_OFFSET
           /\ Place(Len(prom_for_each_entry) + 1) = walk_end
           /\ walk_end \in 0 .. PROM_MAX_LENGTH + Radix
           /\ walk_end < PROM_MAX_LENGTH => tag(walk_end) = PROM_END_TAG
           /\ \A k \in 1 .. Len(prom_for_each_entry) :
                /\ Place(k) = prom_for_each_entry[k]
                /\ Place(k) \in 0 .. PROM_MAX_LENGTH - 1 /\ Place(k) < walk_end
                /\ tag(Place(k)) # PROM_END_TAG
                /\ Place(k + 1) = Place(k) + size(Place(k)) + 2
                /\ Place(k + 1) = prom_next_entry(Place(k))
<1> DEFINE seen == prom_for_each_entry
           M == PROM_MAX_LENGTH
           first == PROM_FIRST_ENTRY_OFFSET
<1>1. WalkFrom(first, seen) /\ walk_end = EndOf(first, seen)
  BY Walk
<1>2. M \in Nat /\ Radix \in Nat /\ first \in Nat
  BY PromAssumption, HeaderBytes DEF PROM_FIRST_ENTRY_OFFSET
<1>3. seen \in Seq(0 .. M - 1) /\ Len(seen) \in Nat /\ DOMAIN seen = 1 .. Len(seen)
  BY <1>1 DEF WalkFrom
<1>4. walk_end \in 0 .. M + Radix /\ (walk_end < M => tag(walk_end) = PROM_END_TAG)
  BY <1>1, <1>2 DEF WalkFrom
<1> HIDE DEF seen
<1>5. Place(Len(seen) + 1) = walk_end
  BY <1>3 DEF Place, seen
<1>6. Place(1) = first
  <2>1. CASE seen = <<>>
    BY <1>1, <1>3, <2>1 DEF Place, seen, EndOf
  <2>2. CASE seen # <<>>
    <3>1. 1 \in 1 .. Len(seen)
      BY <1>3, <2>2
    <3> QED
      BY <1>1, <1>3, <2>2, <3>1 DEF Place, seen, WalkFrom
  <2> QED
    BY <2>1, <2>2
<1>7. ASSUME NEW k \in 1 .. Len(seen)
      PROVE  /\ Place(k) = seen[k]
             /\ Place(k) \in 0 .. M - 1 /\ Place(k) < walk_end
             /\ tag(Place(k)) # PROM_END_TAG
             /\ Place(k + 1) = Place(k) + size(Place(k)) + 2
             /\ Place(k + 1) = prom_next_entry(Place(k))
  <2>1. Place(k) = seen[k] /\ seen[k] \in 0 .. M - 1
    <3>1. k \in DOMAIN seen
      BY <1>3
    <3>2. Place(k) = seen[k]
      BY <3>1, Zenon DEF Place, seen
    <3>3. seen[k] \in 0 .. M - 1
      BY <1>3, ElementOfSeq, Zenon
    <3> QED
      BY <3>2, <3>3
  <2>2. tag(seen[k]) # PROM_END_TAG /\ seen[k] < walk_end
    BY <1>1 DEF WalkFrom
  <2>3. prom_next_entry(seen[k]) = seen[k] + size(seen[k]) + 2
    BY <1>2, <2>1, <2>2, NextGrows
  <2>4. Place(k + 1) = prom_next_entry(seen[k])
    <3>1. CASE k = Len(seen)
      <4>1. seen # <<>>
        BY <1>3
      <4> QED
        BY <1>1, <1>5, <3>1, <4>1 DEF EndOf
    <3>2. CASE k # Len(seen)
      <4>1. k \in 1 .. Len(seen) - 1 /\ k + 1 \in 1 .. Len(seen)
        <5>1. Len(seen) \in Nat
          BY <1>3
        <5> QED
          BY <3>2, <5>1
      <4>2. Place(k + 1) = seen[k + 1]
        BY <1>3, <4>1 DEF Place, seen
      <4> QED
        BY <1>1, <4>1, <4>2 DEF WalkFrom
    <3> QED
      BY <3>1, <3>2
  <2> QED
    BY <2>1, <2>2, <2>3, <2>4
<1> QED
  BY <1>3, <1>4, <1>5, <1>6, <1>7 DEF seen

\* How many of the numbers up to k are in a set.
LEMMA CountUpTo ==
    ASSUME NEW J, NEW k \in Nat
    PROVE  /\ Cardinality((1 .. 0) \cap J) = 0
           /\ Cardinality((1 .. k) \cap J) \in 0 .. k
           /\ Cardinality((1 .. k + 1) \cap J)
                = Cardinality((1 .. k) \cap J) + One(k + 1 \in J)
           /\ \A j \in 0 .. k : Cardinality((1 .. j) \cap J)
                                <= Cardinality((1 .. k) \cap J)
<1>1. (1 .. 0) \cap J = {}
  OBVIOUS
<1>2. IsFiniteSet(1 .. k) /\ Cardinality(1 .. k) = k
  BY FS_Interval
<1>3. IsFiniteSet((1 .. k) \cap J) /\ Cardinality((1 .. k) \cap J) <= k
  BY <1>2, FS_Subset
<1>4. Cardinality((1 .. k) \cap J) \in Nat
  BY <1>3, FS_CardinalityType
<1>5. Cardinality((1 .. k + 1) \cap J) = Cardinality((1 .. k) \cap J) + One(k + 1 \in J)
  <2>1. CASE k + 1 \in J
    <3>1. (1 .. k + 1) \cap J = ((1 .. k) \cap J) \cup {k + 1} /\ k + 1 \notin (1 .. k) \cap J
      BY <2>1
    <3> QED
      BY <1>3, <2>1, <3>1, FS_AddElement DEF One
  <2>2. CASE k + 1 \notin J
    <3>1. (1 .. k + 1) \cap J = (1 .. k) \cap J
      BY <2>2
    <3> QED
      BY <1>4, <2>2, <3>1 DEF One
  <2> QED
    BY <2>1, <2>2
<1>6. ASSUME NEW j \in 0 .. k
      PROVE  Cardinality((1 .. j) \cap J) <= Cardinality((1 .. k) \cap J)
  <2>1. (1 .. j) \cap J \subseteq (1 .. k) \cap J
    OBVIOUS
  <2> QED
    BY <1>3, <2>1, FS_Subset
<1> QED
  BY <1>1, <1>3, <1>4, <1>5, <1>6, FS_EmptySet

\* How the counts of a walk grow with it.
LEMMA WalkCounts ==
    ASSUME NEW seen, NEW k \in Nat
    PROVE  /\ MinorsAmong(seen, 0) = 0 /\ AreasAmong(seen, 0) = 0
           /\ MinorsAmong(seen, k) \in 0 .. k /\ AreasAmong(seen, k) \in 0 .. k
           /\ MinorsAmong(seen, k + 1)
                = MinorsAmong(seen, k) + One(prom_entry_needs_minor(seen[k + 1]))
           /\ AreasAmong(seen, k + 1) = AreasAmong(seen, k) + One(IsDma(seen[k + 1]))
           /\ \A j \in 0 .. k : MinorsAmong(seen, j) <= MinorsAmong(seen, k)
<1> DEFINE J == {j \in Nat : prom_entry_needs_minor(seen[j])}
           A == {j \in Nat : IsDma(seen[j])}
<1>1. \A i \in Nat : (1 .. i) \cap J = {j \in 1 .. i : prom_entry_needs_minor(seen[j])}
  OBVIOUS
<1>2. \A i \in Nat : (1 .. i) \cap A = {j \in 1 .. i : IsDma(seen[j])}
  OBVIOUS
<1>3. \A i \in Nat : /\ Cardinality((1 .. i) \cap J) = MinorsAmong(seen, i)
                     /\ Cardinality((1 .. i) \cap A) = AreasAmong(seen, i)
  BY <1>1, <1>2, Zenon DEF MinorsAmong, AreasAmong
<1>4. /\ k + 1 \in J <=> prom_entry_needs_minor(seen[k + 1])
      /\ k + 1 \in A <=> IsDma(seen[k + 1])
  OBVIOUS
<1>5. /\ One(k + 1 \in J) = One(prom_entry_needs_minor(seen[k + 1]))
      /\ One(k + 1 \in A) = One(IsDma(seen[k + 1]))
  BY <1>4 DEF One
<1>6. 0 \in Nat /\ k + 1 \in Nat /\ \A j \in 0 .. k : j \in Nat
  OBVIOUS
<1> HIDE DEF J, A
<1>7. /\ MinorsAmong(seen, 0) = 0 /\ MinorsAmong(seen, k) \in 0 .. k
      /\ MinorsAmong(seen, k + 1) = MinorsAmong(seen, k) + One(k + 1 \in J)
      /\ \A j \in 0 .. k : MinorsAmong(seen, j) <= MinorsAmong(seen, k)
  BY <1>3, <1>6, CountUpTo, Zenon
<1>8. /\ AreasAmong(seen, 0) = 0 /\ AreasAmong(seen, k) \in 0 .. k
      /\ AreasAmong(seen, k + 1) = AreasAmong(seen, k) + One(k + 1 \in A)
  BY <1>3, <1>6, CountUpTo, Zenon
<1> QED
  BY <1>5, <1>7, <1>8, Zenon

-----------------------------------------------------------------------------
(* What every step after Damage leaves alone. *)

\* The loader's copy and the walk depend on the PROM only.
LEMMA SameWalk ==
    ASSUME UNCHANGED prom
    PROVE  UNCHANGED <<buff, prom_for_each_entry, walk_end>>
<1>1. UNCHANGED buff
  BY DEF buff, check_magic
<1>2. UNCHANGED prom_for_each_entry
  BY <1>1, Zenon DEF prom_for_each_entry, prom_next_entry, tag, size
<1>3. UNCHANGED walk_end
  BY <1>1, <1>2, Zenon DEF walk_end, prom_next_entry, tag, size
<1> QED
  BY <1>1, <1>2, <1>3

\* So do the counts, and the place of an entry.
LEMMA SameCounts ==
    ASSUME UNCHANGED prom, dma_nentries' = AreasAmong(prom_for_each_entry, nentries'),
           nentries_with_minor' = MinorsAmong(prom_for_each_entry, nentries')
    PROVE  Counted'
BY SameWalk DEF Counted, AreasAmong, MinorsAmong, IsDma, prom_entry_needs_minor, tag

\* And the nodes keep their entries.
LEMMA SameNodes ==
    ASSUME NodeList, UNCHANGED <<prom, nodes, device_name>>
    PROVE  NodeList'
<1>1. UNCHANGED <<buff, prom_for_each_entry>>
  BY SameWalk
<1>2. \A k \in 1 .. Len(nodes) : (IsDma(nodes[k]) <=> k > 1)' /\ NodeOf(k)'
  <2> SUFFICES ASSUME NEW k \in 1 .. Len(nodes)
               PROVE  (IsDma(nodes[k]) <=> k > 1)' /\ NodeOf(k)'
    OBVIOUS
  <2>1. (IsDma(nodes[k]) <=> k > 1)'
    BY <1>1 DEF NodeList, IsDma, tag
  <2>2. NodeOf(k)
    BY DEF NodeList
  <2>3. NodeOf(k)'
    BY <1>1, <2>2 DEF NodeOf, MinorsAmong, prom_entry_needs_minor, IsDma, tag
  <2> QED
    BY <2>1, <2>3
<1> QED
  BY <1>2 DEF NodeList

-----------------------------------------------------------------------------
(* Every step keeps the invariant. *)

LEMMA InitIInv == Init => IInv
<1> SUFFICES ASSUME Init PROVE IInv
  OBVIOUS
<1>1. PromInv
  <2>1. ASSUME NEW c \in Configs, NEW fill \in Fill, config = c,
               prom = Burn(process_config_file(c), fill)
        PROVE  PromInv
    <3>1. process_config_file(c) \in Seq(Bytes) /\ fill \in Bytes
      BY ImageBytes, PromAssumption
    <3> QED
      BY <2>1, <3>1, BurnIsProm DEF PromInv
  <2>2. ASSUME NEW b \in Bodies, NEW fill \in Fill,
               NEW h \in {dump_header(PROM_VERSION), dump_header(PROM_VERSION + 1), <<>>},
               config = <<>>, prom = Burn(h \o b \o dump_end(h \o b), fill)
        PROVE  PromInv
    <3>1. h \in Seq(Bytes) /\ b \in Seq(Bytes) /\ fill \in Bytes
      BY HeaderBytes, PromAssumption, Zenon
    <3>2. h \o b \in Seq(Bytes)
      BY <3>1
    <3>3. dump_end(h \o b) \in Seq(Bytes)
      BY <3>2, EndBytes, Zenon
    <3>4. h \o b \o dump_end(h \o b) \in Seq(Bytes)
      BY <3>2, <3>3, ConcatProperties, Zenon
    <3> QED
      BY <2>2, <3>1, <3>4, BurnIsProm, Zenon DEF PromInv
  <2> QED
    BY <2>1, <2>2, Zenon DEF Init
<1>2. /\ pc = "load" /\ ent_i = PROM_FIRST_ENTRY_OFFSET
      /\ nentries = 0 /\ dma_nentries = 0 /\ nentries_with_minor = 0
      /\ data_len = 0 /\ device_name = FALSE /\ nodes = <<>>
  BY DEF Init
<1>3. PROM_FIRST_ENTRY_OFFSET \in 0 .. PROM_MAX_LENGTH + Radix
  BY PromAssumption, HeaderBytes DEF PROM_FIRST_ENTRY_OFFSET
<1>4. TypeOK
  BY <1>2, <1>3 DEF TypeOK, Accepted
<1>5. ScanInv /\ AcceptInv /\ NodesInv
  BY <1>2 DEF ScanInv, AcceptInv, NodesInv, Accepted
<1>6. NodeList
  <2>1. nodes \in Seq(Nat) /\ Len(nodes) = 0
    BY <1>2, EmptySeq
  <2>2. \A k \in 1 .. Len(nodes) : FALSE
    BY <2>1
  <2> QED
    BY <1>2, <2>1, <2>2, Zenon DEF NodeList
<1> QED
  BY <1>1, <1>4, <1>5, <1>6 DEF IInv

\* A changed byte is still a byte, and nothing was read yet.
LEMMA DamageKeeps ==
    ASSUME IInv, Damage
    PROVE  IInv'
<1> USE DEF IInv
<1>1. PICK i \in PROM_FIRST_ENTRY_OFFSET .. Len(process_config_file(config)) - 1 :
          \E b \in Bytes : prom' = [prom EXCEPT ![i] = b]
  BY Zenon DEF Damage
<1>2. /\ Len(process_config_file(config)) < PROM_MAX_LENGTH
      /\ config # <<>> /\ pc = "load"
      /\ UNCHANGED <<config, pc, ent_i, nentries, dma_nentries,
                     nentries_with_minor, data_len, device_name, nodes>>
  BY DEF Damage, counts, nodeVars, WellFormed
<1>3. i \in 0 .. PROM_MAX_LENGTH - 1
  <2>1. Len(process_config_file(config)) \in Nat
    BY <1>2, ImageBytes DEF PromInv
  <2>2. PROM_FIRST_ENTRY_OFFSET \in Nat /\ PROM_MAX_LENGTH \in Nat
    BY PromAssumption, HeaderBytes DEF PROM_FIRST_ENTRY_OFFSET
  <2> QED
    BY <1>1, <1>2, <2>1, <2>2
<1>4. IsProm(prom')
  <2>1. PROM_MAX_LENGTH \in Nat
    BY PromAssumption
  <2> QED
    BY <1>1, <1>3, <2>1 DEF PromInv, IsProm
<1>5. PromInv'
  BY <1>2, <1>4 DEF PromInv, IsProm
<1>6. TypeOK' /\ ScanInv' /\ AcceptInv'
  BY <1>2 DEF TypeOK, ScanInv, AcceptInv, Accepted
<1>7. nodes = <<>> /\ ~ device_name
  BY <1>2 DEF NodesInv, NodeList
<1>8. NodeList' /\ NodesInv'
  BY <1>2, <1>7 DEF NodeList, NodesInv
<1> QED
  BY <1>5, <1>6, <1>8

\* The walk of the loader begins at the first entry.
LEMMA LoadKeeps ==
    ASSUME IInv, load_prom
    PROVE  IInv'
<1> USE DEF IInv
<1> DEFINE seen == prom_for_each_entry
<1>1. /\ pc = "load" /\ pc' \in {"scan", "rejected"}
      /\ UNCHANGED <<prom, config, ent_i, nentries, dma_nentries,
                     nentries_with_minor, data_len, device_name, nodes>>
  BY DEF load_prom, promVars, counts, nodeVars
<1>2. PromInv' /\ TypeOK' /\ AcceptInv'
  BY <1>1 DEF PromInv, IsProm, TypeOK, AcceptInv, Accepted
<1>3. NodeList' /\ NodesInv'
  BY <1>1, SameNodes DEF NodesInv
<1>4. ScanInv'
  <2>1. /\ ent_i = PROM_FIRST_ENTRY_OFFSET
        /\ nentries = 0 /\ dma_nentries = 0 /\ nentries_with_minor = 0
    BY <1>1 DEF ScanInv
  <2>2. Len(seen) \in Nat /\ Place(1) = PROM_FIRST_ENTRY_OFFSET
    BY Places DEF PromInv
  <2>3. AreasAmong(seen, 0) = 0 /\ MinorsAmong(seen, 0) = 0
    BY WalkCounts
  <2>4. Counted'
    BY <1>1, <2>1, <2>3, SameCounts
  <2>5. Place(nentries + 1)' = Place(1)
    BY <1>1, <2>1, SameWalk DEF Place
  <2>6. nentries' \in 0 .. Len(seen') /\ ent_i' = Place(nentries + 1)'
    BY <1>1, <2>1, <2>2, <2>5, SameWalk
  <2> QED
    BY <1>1, <2>4, <2>6 DEF ScanInv
<1> QED
  BY <1>2, <1>3, <1>4

\* Each entry the loader counts is the next of the walk.
LEMMA EntryKeeps ==
    ASSUME IInv, scan_entry
    PROVE  IInv'
<1> USE DEF IInv
<1> DEFINE seen == prom_for_each_entry
           n == nentries
<1>1. /\ pc = "scan" /\ ~ AtEnd /\ nentries' = n + 1
      /\ dma_nentries' = dma_nentries + One(IsDma(ent_i))
      /\ nentries_with_minor' = nentries_with_minor + One(prom_entry_needs_minor(ent_i))
      /\ ent_i' = ent_i + size(ent_i) + 2
      /\ UNCHANGED <<prom, config, pc, data_len, device_name, nodes>>
  BY DEF scan_entry, promVars, nodeVars
<1>2. n \in 0 .. Len(seen) /\ ent_i = Place(n + 1) /\ Counted
  BY <1>1 DEF ScanInv
<1>3. ent_i < PROM_MAX_LENGTH /\ tag(ent_i) # PROM_END_TAG
  BY <1>1 DEF AtEnd
<1>4. n + 1 \in 1 .. Len(seen)
  <2>1. Len(seen) \in Nat /\ Place(Len(seen) + 1) = walk_end
        /\ (walk_end < PROM_MAX_LENGTH => tag(walk_end) = PROM_END_TAG)
    BY Places DEF PromInv
  <2>2. n # Len(seen)
    BY <1>2, <1>3, <2>1
  <2> QED
    BY <1>2, <2>1, <2>2
<1>5. ent_i = seen[n + 1] /\ ent_i' = Place((n + 1) + 1)
  BY <1>1, <1>2, <1>4, Places DEF PromInv
<1>6. Counted'
  <2>1. n \in Nat
    BY <1>2
  <2>2. /\ AreasAmong(seen, n + 1) = AreasAmong(seen, n) + One(IsDma(seen[n + 1]))
        /\ MinorsAmong(seen, n + 1)
             = MinorsAmong(seen, n) + One(prom_entry_needs_minor(seen[n + 1]))
    BY <2>1, WalkCounts
  <2>3. /\ dma_nentries' = AreasAmong(seen, nentries')
        /\ nentries_with_minor' = MinorsAmong(seen, nentries')
    BY <1>1, <1>2, <1>5, <2>2 DEF Counted
  <2> QED
    BY <1>1, <2>3, SameCounts
<1>7. Place(nentries + 1)' = Place((n + 1) + 1)
  BY <1>1, SameWalk DEF Place
<1>8. ScanInv'
  <2>1. nentries' \in 0 .. Len(seen')
    BY <1>1, <1>4, SameWalk
  <2> QED
    BY <1>1, <1>5, <1>6, <1>7, <2>1 DEF ScanInv
<1>9. TypeOK'
  <2>1. ent_i' \in 0 .. PROM_MAX_LENGTH + Radix
    <3>1. CASE n + 1 = Len(seen)
      BY <1>5, <3>1, Places DEF PromInv
    <3>2. CASE n + 1 # Len(seen)
      <4>1. (n + 1) + 1 \in 1 .. Len(seen)
        BY <1>4, <3>2
      <4>2. ent_i' \in 0 .. PROM_MAX_LENGTH - 1
        BY <1>5, <4>1, Places, Zenon DEF PromInv
      <4> QED
        BY <4>2, PromAssumption
    <3> QED
      BY <3>1, <3>2
  <2>2. {nentries', dma_nentries', nentries_with_minor', data_len'} \subseteq Nat
    <3>1. /\ nentries \in Nat /\ dma_nentries \in Nat
          /\ nentries_with_minor \in Nat /\ data_len \in Nat
      BY DEF TypeOK
    <3>2. One(IsDma(ent_i)) \in Nat /\ One(prom_entry_needs_minor(ent_i)) \in Nat
      BY DEF One
    <3> QED
      BY <1>1, <3>1, <3>2
  <2> QED
    BY <1>1, <2>1, <2>2 DEF TypeOK, Accepted
<1>10. PromInv' /\ AcceptInv'
  BY <1>1 DEF PromInv, IsProm, AcceptInv, Accepted
<1>11. NodeList' /\ NodesInv'
  BY <1>1, SameNodes DEF NodesInv
<1> QED
  BY <1>8, <1>9, <1>10, <1>11

\* A PROM is accepted only if the loader has met its end marker, with the
\* checksum behind it still inside: then the walk ends there too.
LEMMA EndKeeps ==
    ASSUME IInv, scan_end
    PROVE  IInv'
<1> USE DEF IInv
<1> DEFINE seen == prom_for_each_entry
           M == PROM_MAX_LENGTH
<1>1. /\ pc = "scan" /\ AtEnd
      /\ UNCHANGED <<prom, config, ent_i, nentries, dma_nentries,
                     nentries_with_minor, device_name, nodes>>
  BY DEF scan_end, promVars, nodeVars
<1>2. PICK s \in (IF ent_i < M THEN {size(ent_i)} ELSE Bytes) :
        /\ data_len' = ent_i + s + 2
        /\ pc' \in {"loaded", "rejected"}
        /\ pc' = "loaded" => data_len' < M
  BY DEF scan_end
<1>3. M \in Nat /\ Radix \in Nat /\ ent_i \in Nat /\ ent_i <= M + Radix
  BY PromAssumption DEF TypeOK
<1>4. s \in Nat
  <2>1. IsProm(buff)
    BY BuffIsProm DEF PromInv
  <2>2. ent_i < M => size(ent_i) \in Bytes
    BY <1>3, <2>1 DEF IsProm, size
  <2> QED
    BY <1>2, <1>3, <2>2 DEF Bytes
<1>5. /\ nentries \in 0 .. Len(seen) /\ ent_i = Place(nentries + 1) /\ Counted
      /\ nodes = <<>>
  BY <1>1 DEF ScanInv, NodesInv
<1>6. PromInv' /\ NodeList' /\ NodesInv' /\ ScanInv'
  BY <1>1, <1>2, <1>5, SameNodes DEF PromInv, IsProm, NodesInv, ScanInv
<1>7. data_len' \in Nat /\ data_len' >= ent_i + 2
  BY <1>2, <1>3, <1>4
<1>8. CASE pc' = "rejected"
  <2>1. TypeOK' /\ AcceptInv'
    BY <1>1, <1>7, <1>8 DEF TypeOK, AcceptInv, Accepted
  <2> QED
    BY <1>6, <2>1
<1>9. CASE pc' = "loaded"
  <2>1. ent_i < M /\ data_len' \in 1 .. M - 1
    BY <1>2, <1>3, <1>7, <1>9
  <2>2. tag(ent_i) = PROM_END_TAG
    BY <1>1, <2>1 DEF AtEnd
  <2>3. nentries = Len(seen)
    <3>1. Len(seen) \in Nat
      BY Places DEF PromInv
    <3>2. ASSUME nentries # Len(seen) PROVE FALSE
      <4>1. nentries + 1 \in 1 .. Len(seen)
        BY <1>5, <3>1, <3>2
      <4>2. tag(Place(nentries + 1)) # PROM_END_TAG
        BY <4>1, Places, Zenon DEF PromInv
      <4> QED
        BY <1>5, <2>2, <4>2
    <3> QED
      BY <3>2
  <2>4. ent_i = walk_end /\ walk_end \in Nat
    BY <1>3, <1>5, <2>3, Places DEF PromInv
  <2>5. Counted'
    BY <1>1, <1>5, SameCounts DEF Counted
  <2>6. AcceptInv'
    <3>1. nentries' = Len(seen') /\ walk_end' < data_len' /\ ent_i' <= walk_end'
      BY <1>1, <1>3, <1>7, <2>3, <2>4, SameWalk
    <3> QED
      BY <1>9, <2>5, <3>1 DEF AcceptInv
  <2>7. TypeOK'
    <3>1. \A k \in DOMAIN nodes' : FALSE
      BY <1>1, <1>5
    <3>2. {nentries', dma_nentries', nentries_with_minor', data_len'} \subseteq Nat
      BY <1>1, <1>7 DEF TypeOK
    <3>3. ent_i' \in 0 .. M + Radix /\ ent_i' < M /\ data_len' \in 1 .. M - 1
      BY <1>1, <2>1 DEF TypeOK
    <3> QED
      BY <1>9, <3>1, <3>2, <3>3 DEF TypeOK, Accepted
  <2> QED
    BY <1>6, <2>6, <2>7
<1> QED
  BY <1>2, <1>8, <1>9

\* Steps behind load_prom that change neither the counts nor the nodes keep
\* what was established when the PROM was accepted.
LEMMA StillAccepted ==
    ASSUME IInv, pc \in Accepted, pc' \in Accepted,
           UNCHANGED <<prom, config, nentries, dma_nentries, nentries_with_minor,
                       data_len, device_name, nodes>>,
           ent_i' = ent_i \/ ent_i' = PROM_FIRST_ENTRY_OFFSET,
           pc' = "loaded" \/ pc' = "E2BIG" \/ nentries <= MAX_MINORS_PER_BOARD
    PROVE  TypeOK' /\ PromInv' /\ ScanInv' /\ AcceptInv' /\ NodeList'
<1> USE DEF IInv
<1>1. PromInv' /\ ScanInv' /\ NodeList'
  BY SameNodes DEF PromInv, IsProm, ScanInv, Accepted
<1>2. /\ nentries = Len(prom_for_each_entry) /\ Counted
      /\ walk_end < data_len /\ ent_i <= walk_end
  BY DEF AcceptInv
<1>3. Counted'
  BY <1>2, SameCounts DEF Counted
<1>4. PROM_FIRST_ENTRY_OFFSET \in Nat /\ PROM_FIRST_ENTRY_OFFSET <= walk_end
  <2>1. WalkFrom(PROM_FIRST_ENTRY_OFFSET, prom_for_each_entry)
        /\ walk_end = EndOf(PROM_FIRST_ENTRY_OFFSET, prom_for_each_entry)
    BY Walk DEF PromInv
  <2>2. PROM_FIRST_ENTRY_OFFSET \in Nat
    BY HeaderBytes DEF PROM_FIRST_ENTRY_OFFSET
  <2> QED
    BY <2>1, <2>2, PromAssumption DEF WalkFrom
<1>5. ent_i' \in Nat /\ ent_i' <= walk_end
  BY <1>2, <1>4 DEF TypeOK
<1>6. AcceptInv'
  <2>1. nentries' = Len(prom_for_each_entry') /\ walk_end' < data_len' /\ ent_i' <= walk_end'
    BY <1>2, <1>5, SameWalk
  <2> QED
    BY <1>3, <2>1 DEF AcceptInv, Accepted
<1>7. TypeOK'
  <2>1. /\ data_len \in 1 .. PROM_MAX_LENGTH - 1 /\ PROM_MAX_LENGTH \in Nat
        /\ Radix \in Nat /\ walk_end \in Nat
    BY PromAssumption, Places DEF TypeOK, PromInv
  <2>2. ent_i' < PROM_MAX_LENGTH /\ ent_i' \in 0 .. PROM_MAX_LENGTH + Radix
    BY <1>2, <1>5, <2>1
  <2> QED
    BY <2>2 DEF TypeOK
<1> QED
  BY <1>1, <1>6, <1>7

\* The limit of entries is checked.
LEMMA BoardKeeps ==
    ASSUME IInv, initialise_board
    PROVE  IInv'
<1> USE DEF IInv
<1>1. /\ pc = "loaded" /\ pc' \in {"E2BIG", "cdev"}
      /\ pc' = "E2BIG" \/ nentries <= MAX_MINORS_PER_BOARD
      /\ UNCHANGED <<prom, config, ent_i, nentries, dma_nentries,
                     nentries_with_minor, data_len, device_name, nodes>>
  BY DEF initialise_board, promVars, counts, nodeVars
<1>2. TypeOK' /\ PromInv' /\ ScanInv' /\ AcceptInv' /\ NodeList'
  BY <1>1, StillAccepted DEF Accepted
<1>3. NodesInv'
  BY <1>1 DEF NodesInv
<1> QED
  BY <1>2, <1>3

\* The loop over the entries begins, without nodes.
LEMMA CdevKeeps ==
    ASSUME IInv, create_device_nodes
    PROVE  IInv'
<1> USE DEF IInv
<1> DEFINE seen == prom_for_each_entry
<1>1. /\ pc = "cdev" /\ pc' \in {"nodes", "failed"}
      /\ ent_i' = PROM_FIRST_ENTRY_OFFSET
      /\ UNCHANGED <<prom, config, nentries, dma_nentries,
                     nentries_with_minor, data_len, device_name, nodes>>
  BY DEF create_device_nodes, promVars, counts, nodeVars
<1>2. TypeOK' /\ PromInv' /\ ScanInv' /\ AcceptInv' /\ NodeList'
  <2>1. nentries <= MAX_MINORS_PER_BOARD
    BY <1>1 DEF AcceptInv
  <2> QED
    BY <1>1, <2>1, StillAccepted DEF Accepted
<1>3. NodesInv'
  <2>1. nodes = <<>>
    BY <1>1 DEF NodesInv
  <2>2. Len(seen) \in Nat /\ Place(1) = PROM_FIRST_ENTRY_OFFSET
    BY Places DEF PromInv
  <2>3. MinorsAmong(seen, 0) = 0
    BY WalkCounts
  <2>4. ent_i' = Place(0 + 1)'
    BY <1>1, <2>2, SameWalk DEF Place
  <2>5. Len(nodes') = MinorsAmong(seen, 0)'
    BY <1>1, <2>1, <2>3, SameWalk
       DEF MinorsAmong, prom_entry_needs_minor, IsDma, tag
  <2>6. NodesUpTo(0)'
    BY <1>1, <2>4, <2>5 DEF NodesUpTo
  <2>7. 0 \in 0 .. Len(seen')
    BY <1>1, <2>2, SameWalk
  <2> QED
    BY <1>1, <2>6, <2>7 DEF NodesInv
<1> QED
  BY <1>2, <1>3

\* The entry the loop is at, when it is not over.
LEMMA LoopEntry ==
    ASSUME IInv, pc = "nodes", tag(ent_i) # PROM_END_TAG
    PROVE  \E m \in 0 .. Len(prom_for_each_entry) - 1 :
               /\ NodesUpTo(m) /\ m + 1 \in DOMAIN prom_for_each_entry
               /\ ent_i = prom_for_each_entry[m + 1] /\ ent_i \in Nat
               /\ ent_i < walk_end /\ prom_next_entry(ent_i) = Place((m + 1) + 1)
               /\ Place((m + 1) + 1) \in Nat /\ Place((m + 1) + 1) <= walk_end
<1> USE DEF IInv
<1> DEFINE seen == prom_for_each_entry
<1>1. PICK m \in 0 .. Len(seen) : NodesUpTo(m)
  BY DEF NodesInv
<1>2. ent_i = Place(m + 1)
  BY <1>1 DEF NodesUpTo
<1>3. Len(seen) \in Nat /\ walk_end \in Nat /\ DOMAIN seen = 1 .. Len(seen)
  BY Places, PromAssumption DEF PromInv
<1>4. m # Len(seen)
  <2>1. walk_end < PROM_MAX_LENGTH
    <3>1. walk_end < data_len /\ data_len \in 1 .. PROM_MAX_LENGTH - 1
      BY DEF AcceptInv, TypeOK, Accepted
    <3> QED
      BY <1>3, <3>1, PromAssumption
  <2>2. tag(walk_end) = PROM_END_TAG /\ Place(Len(seen) + 1) = walk_end
    BY <2>1, Places DEF PromInv
  <2> QED
    BY <1>2, <2>2
<1>5. Len(seen) \in Nat /\ m \in 0 .. Len(seen) - 1 /\ m + 1 \in 1 .. Len(seen)
  <2>1. Len(seen) \in Nat
    BY <1>3
  <2> QED
    BY <1>4, <2>1
<1>6. /\ Place(m + 1) = seen[m + 1] /\ Place(m + 1) \in 0 .. PROM_MAX_LENGTH - 1
      /\ Place(m + 1) < walk_end
      /\ Place((m + 1) + 1) = prom_next_entry(Place(m + 1))
  BY <1>5, Places, Zenon DEF PromInv
<1>7. Place((m + 1) + 1) \in Nat /\ Place((m + 1) + 1) <= walk_end
  <2>1. CASE m + 1 = Len(seen)
    BY <1>3, <2>1, Places DEF PromInv
  <2>2. CASE m + 1 # Len(seen)
    <3>1. (m + 1) + 1 \in 1 .. Len(seen)
      BY <1>5, <2>2
    <3>2. /\ Place((m + 1) + 1) \in 0 .. PROM_MAX_LENGTH - 1
          /\ Place((m + 1) + 1) < walk_end
      BY <3>1, Places, Zenon DEF PromInv
    <3> QED
      BY <1>3, <3>2, PromAssumption
  <2> QED
    BY <2>1, <2>2
<1> QED
  BY <1>1, <1>2, <1>3, <1>5, <1>6, <1>7, PromAssumption

\* A node is made for each entry that needs one.
LEMMA CreateKeeps ==
    ASSUME IInv, device_create
    PROVE  IInv'
<1> USE DEF IInv
<1> DEFINE seen == prom_for_each_entry
           needs == prom_entry_needs_minor(ent_i)
<1>1. /\ pc = "nodes" /\ tag(ent_i) # PROM_END_TAG
      /\ ent_i' = prom_next_entry(ent_i)
      /\ UNCHANGED <<prom, config, nentries, dma_nentries, nentries_with_minor, data_len>>
      /\ pc' \in {"nodes", "failed"}
  BY DEF device_create, promVars, counts
<1>2. \/ ~ needs /\ UNCHANGED <<pc, device_name, nodes>>
      \/ /\ needs /\ (device_name <=> IsDma(ent_i)) /\ device_name' = TRUE
         /\ nodes' = Append(nodes, ent_i) /\ UNCHANGED pc
      \/ pc' = "failed" /\ UNCHANGED <<device_name, nodes>>
  BY DEF device_create
<1>3. PICK m \in 0 .. Len(seen) - 1 :
          /\ NodesUpTo(m) /\ m + 1 \in DOMAIN seen
          /\ ent_i = seen[m + 1] /\ ent_i \in Nat
          /\ ent_i < walk_end /\ prom_next_entry(ent_i) = Place((m + 1) + 1)
          /\ Place((m + 1) + 1) \in Nat /\ Place((m + 1) + 1) <= walk_end
  BY <1>1, LoopEntry
<1>4. ent_i' = Place((m + 1) + 1)'
  BY <1>1, <1>3, SameWalk DEF Place
<1>5. /\ nentries = Len(seen) /\ Counted /\ nentries <= MAX_MINORS_PER_BOARD
      /\ walk_end < data_len
  BY <1>1 DEF AcceptInv, Accepted
<1>6. Counted'
  BY <1>1, <1>5, SameCounts DEF Counted
<1>7. PromInv' /\ ScanInv' /\ AcceptInv'
  <2>1. nentries' = Len(seen') /\ walk_end' < data_len' /\ ent_i' <= walk_end'
    BY <1>1, <1>3, <1>5, SameWalk
  <2>2. AcceptInv'
    BY <1>1, <1>5, <1>6, <2>1 DEF AcceptInv
  <2> QED
    BY <1>1, <2>2 DEF PromInv, IsProm, ScanInv
<1>8. /\ m \in Nat /\ walk_end \in Nat /\ PROM_MAX_LENGTH \in Nat /\ Radix \in Nat
      /\ data_len \in 1 .. PROM_MAX_LENGTH - 1 /\ Len(seen) \in Nat
  <2>1. Len(seen) \in Nat /\ walk_end \in 0 .. PROM_MAX_LENGTH + Radix
    BY Places, Zenon DEF PromInv
  <2> QED
    BY <1>1, <2>1, PromAssumption DEF TypeOK, Accepted
<1>9. ent_i' < PROM_MAX_LENGTH /\ ent_i' \in 0 .. PROM_MAX_LENGTH + Radix
  BY <1>1, <1>3, <1>5, <1>8
<1>10. (\A k \in DOMAIN nodes' : nodes'[k] < data_len) => TypeOK'
  BY <1>1, <1>9 DEF TypeOK, Accepted
<1>11. /\ MinorsAmong(seen, m + 1) = MinorsAmong(seen, m) + One(needs)
       /\ MinorsAmong(seen, m) \in Nat
  BY <1>3, <1>8, WalkCounts
<1>12. MinorsAmong(seen, m + 1)' = MinorsAmong(seen, m + 1)
  BY <1>1, SameWalk DEF MinorsAmong, prom_entry_needs_minor, IsDma, tag
<1>13. Len(nodes) = MinorsAmong(seen, m) /\ nodes \in Seq(Nat)
  BY <1>1, <1>3 DEF NodesUpTo, NodeList
<1>14. (pc' # "failed" => Len(nodes') = MinorsAmong(seen, m + 1)) => NodesInv'
  <2> SUFFICES ASSUME pc' # "failed" => Len(nodes') = MinorsAmong(seen, m + 1)
               PROVE  NodesInv'
    OBVIOUS
  <2>1. NodesUpTo(m + 1)'
    BY <1>1, <1>4, <1>12 DEF NodesUpTo
  <2>2. m + 1 \in 0 .. Len(seen')
    BY <1>1, <1>8, SameWalk
  <2> QED
    BY <1>1, <2>1, <2>2 DEF NodesInv
<1>15. CASE UNCHANGED <<device_name, nodes>> /\ (pc' = "failed" \/ ~ needs)
  <2>1. NodeList' /\ TypeOK'
    <3>1. \A k \in DOMAIN nodes' : nodes'[k] < data_len
      BY <1>1, <1>15 DEF TypeOK, Accepted
    <3> QED
      BY <1>1, <1>10, <1>15, <3>1, SameNodes
  <2>2. NodesInv'
    BY <1>11, <1>13, <1>14, <1>15 DEF One
  <2> QED
    BY <1>7, <2>1, <2>2
<1>16. CASE /\ needs /\ (device_name <=> IsDma(ent_i)) /\ device_name' = TRUE
            /\ nodes' = Append(nodes, ent_i) /\ UNCHANGED pc
  <2>1. /\ nodes' \in Seq(Nat) /\ nodes' # <<>> /\ Len(nodes') = Len(nodes) + 1
        /\ \A k \in 1 .. Len(nodes) : nodes'[k] = nodes[k]
        /\ nodes'[Len(nodes) + 1] = ent_i
    BY <1>3, <1>13, <1>16, AppendProperties
  <2>2. DOMAIN nodes = 1 .. Len(nodes) /\ DOMAIN nodes' = 1 .. Len(nodes')
        /\ Len(nodes) \in Nat
    BY <1>13, <2>1, LenProperties
  <2>3. \A k \in DOMAIN nodes' : k \in 1 .. Len(nodes) \/ k = Len(nodes) + 1
    BY <2>1, <2>2
  <2>4. TypeOK'
    <3>1. \A k \in 1 .. Len(nodes) : nodes[k] < data_len
      BY <1>1, <2>2 DEF TypeOK, Accepted
    <3>2. ent_i < data_len
      BY <1>3, <1>5, <1>8
    <3> QED
      BY <1>10, <2>1, <2>3, <3>1, <3>2
  <2>5. NodesInv'
    BY <1>11, <1>13, <1>14, <1>16, <2>1 DEF One
  <2>6. ASSUME NEW k \in 1 .. Len(nodes')
        PROVE  (IsDma(nodes[k]) <=> k > 1)' /\ NodeOf(k)'
    <3>1. CASE k \in 1 .. Len(nodes)
      <4>1. (IsDma(nodes[k]) <=> k > 1) /\ NodeOf(k)
        BY <3>1 DEF NodeList
      <4>2. nodes'[k] = nodes[k]
        BY <2>1, <3>1
      <4>3. (IsDma(nodes[k]) <=> k > 1)'
        BY <1>1, <4>1, <4>2, SameWalk DEF IsDma, tag
      <4>4. NodeOf(k)'
        BY <1>1, <4>1, <4>2, SameWalk
           DEF NodeOf, MinorsAmong, prom_entry_needs_minor, IsDma, tag
      <4> QED
        BY <4>3, <4>4
    <3>2. CASE k = Len(nodes) + 1
      <4>1. nodes'[k] = ent_i
        BY <2>1, <3>2
      <4>2. IsDma(ent_i) <=> k > 1
        <5>1. (nodes # <<>>) <=> Len(nodes) > 0
          BY <1>13
        <5>2. (k > 1) <=> Len(nodes) > 0
          BY <2>2, <3>2
        <5> QED
          BY <1>16, <5>1, <5>2, Zenon DEF NodeList
      <4>3. (IsDma(nodes[k]) <=> k > 1)'
        BY <1>1, <4>1, <4>2, SameWalk DEF IsDma, tag
      <4>4. /\ m + 1 \in DOMAIN seen' /\ nodes'[k] = seen'[m + 1]
            /\ MinorsAmong(seen, (m + 1) - 1) = k - 1
        <5>1. (m + 1) - 1 = m /\ k - 1 = Len(nodes)
          BY <1>8, <2>2, <3>2
        <5> QED
          BY <1>1, <1>3, <1>13, <4>1, <5>1, SameWalk
      <4>5. /\ MinorsAmong(seen, (m + 1) - 1)' = MinorsAmong(seen, (m + 1) - 1)
            /\ prom_entry_needs_minor(nodes[k])'
        BY <1>1, <1>16, <4>1, SameWalk DEF MinorsAmong, prom_entry_needs_minor, IsDma, tag
      <4>6. NodeOf(k)'
        BY <4>4, <4>5 DEF NodeOf
      <4> QED
        BY <4>3, <4>6
    <3> QED
      BY <2>2, <2>3, <3>1, <3>2
  <2>7. NodeList'
    BY <1>16, <2>1, <2>6 DEF NodeList
  <2> QED
    BY <1>7, <2>4, <2>5, <2>7
<1> QED
  BY <1>2, <1>15, <1>16

\* The loop is over when every entry has been passed.
LEMMA CreatedKeeps ==
    ASSUME IInv, nodes_created
    PROVE  IInv'
<1> USE DEF IInv
<1> DEFINE seen == prom_for_each_entry
<1>1. /\ pc = "nodes" /\ pc' = "bound" /\ tag(ent_i) = PROM_END_TAG
      /\ UNCHANGED <<prom, config, ent_i, nentries, dma_nentries,
                     nentries_with_minor, data_len, device_name, nodes>>
  BY DEF nodes_created, promVars, counts, nodeVars
<1>2. TypeOK' /\ PromInv' /\ ScanInv' /\ AcceptInv' /\ NodeList'
  <2>1. nentries <= MAX_MINORS_PER_BOARD
    BY <1>1 DEF AcceptInv
  <2> QED
    BY <1>1, <2>1, StillAccepted DEF Accepted
<1>3. PICK m \in 0 .. Len(seen) : NodesUpTo(m)
  BY <1>1 DEF NodesInv
<1>4. ent_i = Place(m + 1) /\ Len(nodes) = MinorsAmong(seen, m)
  BY <1>1, <1>3 DEF NodesUpTo
<1>5. m = Len(seen)
  <2>1. Len(seen) \in Nat
    BY Places DEF PromInv
  <2>2. ASSUME m # Len(seen) PROVE FALSE
    <3>1. m + 1 \in 1 .. Len(seen)
      BY <2>1, <2>2
    <3>2. tag(Place(m + 1)) # PROM_END_TAG
      BY <3>1, Places, Zenon DEF PromInv
    <3> QED
      BY <1>1, <1>4, <3>2
  <2> QED
    BY <2>2
<1>6. NodesInv'
  <2>1. ent_i' = Place(m + 1)' /\ Len(nodes') = MinorsAmong(seen, m)'
    BY <1>1, <1>4, SameWalk
       DEF Place, MinorsAmong, prom_entry_needs_minor, IsDma, tag
  <2>2. m = Len(seen') /\ m \in 0 .. Len(seen')
    BY <1>1, <1>5, SameWalk
  <2>3. NodesUpTo(m)'
    BY <2>1, <2>2 DEF NodesUpTo
  <2> QED
    BY <1>1, <2>2, <2>3 DEF NodesInv
<1> QED
  BY <1>2, <1>6

\* open() and remove change neither the entries nor the nodes.
LEMMA BoundKeeps ==
    ASSUME IInv,
           \/ destroy_device_nodes
           \/ \E minor \in 0 .. MAX_MINORS_PER_BOARD - 1 :
                \E mode \in Modes : amc_pci_open(minor, mode)
    PROVE  IInv'
<1> USE DEF IInv
<1> DEFINE seen == prom_for_each_entry
<1>1. /\ pc = "bound"
      /\ \/ pc' = "bound"
         \/ pc' = "removed" /\ destroyed' = 0 .. nentries - 1
      /\ UNCHANGED <<prom, config, ent_i, nentries, dma_nentries,
                     nentries_with_minor, data_len, device_name, nodes>>
  BY DEF destroy_device_nodes, amc_pci_open, promVars, counts
<1>2. TypeOK' /\ PromInv' /\ ScanInv' /\ AcceptInv' /\ NodeList'
  <2>1. nentries <= MAX_MINORS_PER_BOARD
    BY <1>1 DEF AcceptInv
  <2> QED
    BY <1>1, <2>1, StillAccepted DEF Accepted
<1>3. PICK m \in 0 .. Len(seen) : NodesUpTo(m)
  BY <1>1 DEF NodesInv
<1>4. ent_i = Place(m + 1) /\ Len(nodes) = MinorsAmong(seen, m) /\ m = Len(seen)
  BY <1>1, <1>3 DEF NodesUpTo
<1>5. NodesInv'
  <2>1. ent_i' = Place(m + 1)' /\ Len(nodes') = MinorsAmong(seen, m)'
    BY <1>1, <1>4, SameWalk
       DEF Place, MinorsAmong, prom_entry_needs_minor, IsDma, tag
  <2>2. m = Len(seen') /\ m \in 0 .. Len(seen')
    BY <1>1, <1>4, SameWalk
  <2>3. NodesUpTo(m)'
    BY <2>1, <2>2 DEF NodesUpTo
  <2> QED
    BY <1>1, <2>2, <2>3 DEF NodesInv
<1> QED
  BY <1>2, <1>5

\* Nor does a step of something else.
LEMMA StutterKeeps ==
    ASSUME IInv, UNCHANGED vars
    PROVE  IInv'
<1> USE DEF IInv, vars
<1>1. UNCHANGED <<buff, prom_for_each_entry, walk_end>>
  BY SameWalk
<1>2. TypeOK' /\ PromInv' /\ NodeList'
  BY SameNodes DEF TypeOK, PromInv, IsProm
<1>3. Counted => Counted'
  BY SameCounts DEF Counted
<1>4. ScanInv' /\ AcceptInv'
  BY <1>1, <1>3 DEF ScanInv, AcceptInv, Place
<1>5. \A m \in 0 .. Len(prom_for_each_entry) : NodesUpTo(m) => NodesUpTo(m)'
  BY <1>1 DEF NodesUpTo, Place, MinorsAmong, prom_entry_needs_minor, IsDma, tag
<1>6. NodesInv'
  BY <1>1, <1>5 DEF NodesInv
<1> QED
  BY <1>2, <1>4, <1>6

LEMMA NextIInv == IInv /\ [Next]_vars => IInv'
BY DamageKeeps, LoadKeeps, EntryKeeps, EndKeeps, BoardKeeps, CdevKeeps,
   CreateKeeps, CreatedKeeps, BoundKeeps, StutterKeeps DEF Next

-----------------------------------------------------------------------------
(* The properties. *)

\* Whatever the PROM holds, the invariant is true in every state that
\* load_prom, probe, open and remove can reach.
THEOREM Inductive == Spec => []IInv
<1>1. Init => IInv
  BY InitIInv
<1>2. IInv /\ [Next]_vars => IInv'
  BY NextIInv
<1> QED
  BY <1>1, <1>2, PTL DEF Spec

\* After load_prom has accepted a PROM, every index into its copy is within
\* it: no walk over the entries, and no device node, is outside.
THEOREM TypeCorrect == Spec => []TypeOK
<1>1. IInv => TypeOK
  BY DEF IInv
<1> QED
  BY <1>1, Inductive, PTL

\* Every later walk over the entries meets what load_prom counted, and ends
\* at the end marker it checked.
THEOREM WalksAgreeAlways == Spec => []WalksAgree
<1>1. IInv => WalksAgree
  <2> SUFFICES ASSUME IInv, pc \in Accepted PROVE WalksAgree
    BY DEF WalksAgree
  <2> DEFINE seen == prom_for_each_entry
  <2>1. Len(seen) = nentries /\ Counted /\ walk_end < data_len
    BY DEF IInv, AcceptInv
  <2>2. DOMAIN seen = 1 .. Len(seen) /\ Len(seen) \in Nat /\ walk_end \in Nat
        /\ (walk_end < PROM_MAX_LENGTH => tag(walk_end) = PROM_END_TAG)
    BY Places, PromAssumption DEF IInv, PromInv
  <2>3. walk_end < PROM_MAX_LENGTH
    BY <2>1, <2>2, PromAssumption DEF IInv, TypeOK
  <2>4. Cardinality({k \in DOMAIN seen : IsDma(seen[k])}) = dma_nentries
    BY <2>1, <2>2, Zenon DEF Counted, AreasAmong
  <2>5. MinorsAmong(seen, Len(seen)) = nentries_with_minor
    BY <2>1 DEF Counted
  <2> QED
    BY <2>1, <2>2, <2>3, <2>4, <2>5, Zenon DEF WalksAgree
<1> QED
  BY <1>1, Inductive, PTL

\* No two entries have the same minor.
LEMMA MinorOnce ==
    ASSUME IsProm(prom), NEW j \in DOMAIN prom_for_each_entry,
           NEW k \in DOMAIN prom_for_each_entry,
           prom_entry_needs_minor(prom_for_each_entry[j]),
           prom_entry_needs_minor(prom_for_each_entry[k]),
           MinorsAmong(prom_for_each_entry, k - 1) = MinorsAmong(prom_for_each_entry, j - 1)
    PROVE  k = j
<1> DEFINE seen == prom_for_each_entry
<1>1. DOMAIN seen = 1 .. Len(seen) /\ Len(seen) \in Nat
  BY Places
<1>2. ASSUME NEW a \in DOMAIN seen, NEW b \in DOMAIN seen, a < b,
             prom_entry_needs_minor(seen[a])
      PROVE  MinorsAmong(seen, a - 1) < MinorsAmong(seen, b - 1)
  <2>1. a - 1 \in Nat /\ b - 1 \in Nat /\ a \in 0 .. b - 1 /\ (a - 1) + 1 = a
    BY <1>1, <1>2
  <2>2. MinorsAmong(seen, a) = MinorsAmong(seen, a - 1) + 1
        /\ MinorsAmong(seen, a - 1) \in 0 .. a - 1
    BY <1>2, <2>1, WalkCounts DEF One
  <2>3. MinorsAmong(seen, a) <= MinorsAmong(seen, b - 1)
        /\ MinorsAmong(seen, b - 1) \in 0 .. b - 1
    BY <2>1, WalkCounts
  <2> QED
    BY <2>1, <2>2, <2>3
<1> SUFFICES ASSUME k # j PROVE FALSE
  OBVIOUS
<1>3. k - 1 \in Nat /\ j - 1 \in Nat /\ (k < j \/ j < k)
  BY <1>1
<1>4. MinorsAmong(seen, j - 1) \in 0 .. j - 1
  BY <1>3, WalkCounts
<1>5. CASE k < j
  BY <1>2, <1>4, <1>5
<1>6. CASE j < k
  BY <1>2, <1>4, <1>6
<1> QED
  BY <1>3, <1>5, <1>6

\* The search for a minor finds the entry that has it.
LEMMA MinorFound ==
    ASSUME IsProm(prom), NEW j \in DOMAIN prom_for_each_entry,
           prom_entry_needs_minor(prom_for_each_entry[j])
    PROVE  prom_find_entry_with_minor(MinorsAmong(prom_for_each_entry, j - 1))
             = prom_for_each_entry[j]
<1> DEFINE seen == prom_for_each_entry
           minor == MinorsAmong(seen, j - 1)
           found == {k \in DOMAIN seen : /\ prom_entry_needs_minor(seen[k])
                                         /\ MinorsAmong(seen, k - 1) = minor}
<1>1. \A k \in found : k = j
  BY MinorOnce
<1>2. j \in found
  OBVIOUS
<1>3. (CHOOSE k \in found : TRUE) = j
  BY <1>1, <1>2, Zenon
<1>4. prom_find_entry_with_minor(minor)
        = IF found = {} THEN None ELSE seen[CHOOSE k \in found : TRUE]
  BY Zenon DEF prom_find_entry_with_minor
<1> HIDE DEF found
<1> QED
  BY <1>2, <1>3, <1>4, Zenon

\* amc_pci_open finds for a node's minor the entry that create_device_nodes
\* made the node for, and a bound board has a node for each of its minors.
THEOREM NodesOpenRight == Spec => []NodesMatchOpen
<1>1. IInv => NodesMatchOpen
  <2> SUFFICES ASSUME IInv PROVE NodesMatchOpen
    OBVIOUS
  <2> DEFINE seen == prom_for_each_entry
  <2>1. DOMAIN nodes = 1 .. Len(nodes)
    BY LenProperties DEF IInv, NodeList
  <2>2. ASSUME NEW k \in DOMAIN nodes
        PROVE  /\ prom_find_entry_with_minor(k - 1) = nodes[k]
               /\ IsDma(nodes[k]) <=> k > 1
    <3>1. NodeOf(k) /\ (IsDma(nodes[k]) <=> k > 1)
      BY <2>1 DEF IInv, NodeList
    <3>2. PICK j \in DOMAIN seen :
              /\ nodes[k] = seen[j] /\ prom_entry_needs_minor(nodes[k])
              /\ MinorsAmong(seen, j - 1) = k - 1
      BY <3>1 DEF NodeOf
    <3>3. prom_entry_needs_minor(seen[j]) /\ IsProm(prom)
      BY <3>2 DEF IInv, PromInv
    <3>4. prom_find_entry_with_minor(MinorsAmong(seen, j - 1)) = seen[j]
      BY <3>3, MinorFound
    <3> QED
      BY <3>1, <3>2, <3>4
  <2>3. pc = "bound" => Len(nodes) = nentries_with_minor
    <3> SUFFICES ASSUME pc = "bound" PROVE Len(nodes) = nentries_with_minor
      OBVIOUS
    <3>1. Len(nodes) = MinorsAmong(seen, Len(seen))
      BY DEF IInv, NodesInv, NodesUpTo
    <3>2. nentries = Len(seen) /\ Counted
      BY DEF IInv, AcceptInv, Accepted
    <3> QED
      BY <3>1, <3>2 DEF Counted
  <2> QED
    BY <2>2, <2>3 DEF NodesMatchOpen
<1> QED
  BY <1>1, Inductive, PTL

\* Remove gives up the minors of all nodes, and none of another board.
THEOREM DestroysRight == Spec => []DestroysOwnNodes
<1>1. IInv => DestroysOwnNodes
  <2> SUFFICES ASSUME IInv, pc = "removed" PROVE DestroysOwnNodes
    BY DEF DestroysOwnNodes
  <2> DEFINE seen == prom_for_each_entry
  <2>1. /\ destroyed = 0 .. nentries - 1 /\ nentries <= MAX_MINORS_PER_BOARD
        /\ nentries = Len(seen) /\ Len(nodes) = MinorsAmong(seen, Len(seen))
    BY DEF IInv, NodesInv, NodesUpTo, AcceptInv, Accepted
  <2>2. Len(seen) \in Nat
    BY Places DEF IInv, PromInv
  <2>3. MinorsAmong(seen, Len(seen)) \in 0 .. Len(seen)
    BY <2>2, WalkCounts
  <2>4. Len(nodes) \in 0 .. nentries /\ nentries \in Nat /\ MAX_MINORS_PER_BOARD \in Nat
    BY <2>1, <2>2, <2>3, PromAssumption
  <2>5. 0 .. Len(nodes) - 1 \subseteq 0 .. nentries - 1
    BY <2>4
  <2>6. 0 .. nentries - 1 \subseteq 0 .. MAX_MINORS_PER_BOARD - 1
    BY <2>1, <2>4
  <2> QED
    BY <2>1, <2>5, <2>6 DEF DestroysOwnNodes
<1> QED
  BY <1>1, Inductive, PTL
=============================================================================

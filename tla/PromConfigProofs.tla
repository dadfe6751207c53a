-------------------------- MODULE PromConfigProofs --------------------------
(***************************************************************************)
(* From a line of the configuration file to open(): the fields of every    *)
(* entry are read as they were written, the device nodes are opened as     *)
(* their lines say and the engine is set up with the settings of the file. *)
(***************************************************************************)
EXTENDS PromImageProofs

-----------------------------------------------------------------------------
(* Reading the fields back. *)

\* Dividing twice.
LEMMA DivideTwice ==
    ASSUME NEW x \in Int, NEW p \in Nat \ {0}, NEW r \in Nat \ {0}
    PROVE  /\ (x \div p) \div r = x \div (r * p)
           /\ ((x \div p) % r) * p = p * (x \div p) - (r * p) * (x \div (r * p))
<1> DEFINE q == x \div p
           m == x % p
           q2 == q \div r
           m2 == q % r
           d == r * p
<1>1. x = p * q + m /\ m \in 0 .. p - 1 /\ q \in Int
  BY DivideBack
<1> HIDE DEF q, m
<1>2. q = r * q2 + m2 /\ m2 \in 0 .. r - 1 /\ q2 \in Int
  BY <1>1, DivideBack
<1> HIDE DEF q2, m2
<1>3. d \in Nat \ {0}
  OBVIOUS
<1>4. m2 * p \in Nat /\ m2 * p <= (r - 1) * p /\ (r - 1) * p = d - p
  BY <1>2
<1>5. p * q = d * q2 + m2 * p
  <2>1. p * (r * q2 + m2) = (r * p) * q2 + m2 * p
    BY <1>2
  <2> QED
    BY <1>2, <2>1
<1> HIDE DEF d
<1> DEFINE w == m2 * p
<1>6. w \in Nat /\ w <= d - p /\ p * q = d * q2 + w /\ x = d * q2 + (w + m)
  <2>1. d * q2 \in Int
    BY <1>2, <1>3
  <2> QED
    BY <1>1, <1>4, <1>5, <2>1
<1> HIDE DEF w
<1>7. w + m \in 0 .. d - 1
  BY <1>1, <1>3, <1>6
<1>8. (d * q2 + (w + m)) \div d = q2
  BY <1>2, <1>3, <1>7, QuotientIs
<1>9. x \div d = q2
  BY <1>6, <1>8
<1>10. w = p * q - d * q2
  <2>1. d * q2 \in Int /\ p * q \in Int
    BY <1>1, <1>2, <1>3
  <2> QED
    BY <1>6, <2>1
<1> QED
  BY <1>9, <1>10, Zenon DEF d, w, q, q2, m2

\* A number of n bytes is read as it was packed.
LEMMA NumberRead ==
    ASSUME NEW n \in 0 .. ExtBytes, NEW x \in 0 .. Power[n] - 1, NEW at \in Nat,
           \A i \in 1 .. n : buff[at + i - 1] = Pack(x, n)[i]
    PROVE  Number(at, n) = x
<1> DEFINE b == [i \in 1 .. n |-> buff[at + i - 1]]
           step == [i \in 1 .. n |-> [v \in Int |-> v + b[i] * Power[i - 1]]]
           Is(f) == f = [i \in 0 .. n |-> IF i = 0 THEN 0
                                          ELSE f[i - 1] + buff[at + i - 1] * Power[i - 1]]
<1>1. n \in Nat /\ Radix \in Nat \ {0} /\ ExtBytes \in Nat
  BY PromAssumption
<1>2. \A i \in 0 .. n : Power[i] \in Nat \ {0}
  BY <1>1, PowerFacts
<1>3. \A i \in 1 .. n : i - 1 \in 0 .. n /\ Power[i] = Radix * Power[i - 1]
  <2>1. \A i \in 1 .. n : i - 1 \in 0 .. n /\ i \in 0 .. ExtBytes /\ i # 0
    BY <1>1
  <2> QED
    BY <2>1, PowerFacts, Zenon
<1>4. x \in Nat /\ x < Power[n]
  <2>1. n \in 0 .. n
    BY <1>1
  <2> QED
    BY <1>2, <2>1
<1>5. \A i \in 1 .. n : b[i] = (x \div Power[i - 1]) % Radix /\ b[i] = buff[at + i - 1]
  BY DEF Pack
<1>6. \A i \in 1 .. n : b[i] \in Int /\ b[i] * Power[i - 1] \in Int
  <2> SUFFICES ASSUME NEW i \in 1 .. n PROVE b[i] \in Int /\ b[i] * Power[i - 1] \in Int
    OBVIOUS
  <2>1. Power[i - 1] \in Nat \ {0}
    BY <1>2, <1>3
  <2>2. x \div Power[i - 1] \in Int
    <3>1. x \in Int
      BY <1>4
    <3> QED
      BY <2>1, <3>1, Division, Zenon
  <2>3. (x \div Power[i - 1]) % Radix \in 0 .. Radix - 1
    BY <1>1, <2>2, Division
  <2>4. b[i] \in Int
    BY <1>1, <1>5, <2>3
  <2> HIDE DEF b
  <2> QED
    BY <2>1, <2>4
<1> HIDE DEF b
<1>7. step \in [1 .. n -> [Int -> Int]]
  BY <1>6
<1>8. PICK f : Computes(f, n, Int, 0, step)
  <2> HIDE DEF step
  <2>1. 0 \in Int
    OBVIOUS
  <2> QED
    BY <1>1, <1>7, <2>1, Recursion
<1>9. Is(f)
  <2>1. ASSUME NEW i \in 0 .. n, i # 0
        PROVE  f[i] = f[i - 1] + buff[at + i - 1] * Power[i - 1]
    <3>1. i \in 1 .. n /\ f[i - 1] \in Int
      BY <1>1, <1>8, <2>1 DEF Computes
    <3>2. f[i] = step[i][f[i - 1]]
      BY <1>8, <2>1, Zenon DEF Computes
    <3>3. f[i] = f[i - 1] + b[i] * Power[i - 1]
      BY <3>1, <3>2, Zenon
    <3> QED
      BY <1>5, <3>1, <3>3, Zenon
  <2>2. \A i \in 0 .. n : f[i] = IF i = 0 THEN 0
                                 ELSE f[i - 1] + buff[at + i - 1] * Power[i - 1]
    BY <1>8, <2>1, Zenon DEF Computes
  <2>3. f = [i \in 0 .. n |-> f[i]]
    BY <1>8 DEF Computes
  <2> QED
    BY <2>2, <2>3, Zenon
<1>10. PICK g : Is(g) /\ Number(at, n) = g[n]
  BY <1>9, Zenon DEF Number
<1> DEFINE T == {i \in 0 .. n : g[i] = x - Power[i] * (x \div Power[i])}
<1>11. 0 \in T
  <2>1. 0 \in 0 .. n
    BY <1>1
  <2>2. g[0] = 0
    BY <1>10, <2>1, Zenon
  <2>3. 0 \in 0 .. ExtBytes
    BY <1>1
  <2>4. Power[0] = 1
    BY <2>3, PowerFacts
  <2>5. 0 = x - 1 * (x \div 1)
    BY <1>4
  <2> QED
    BY <2>1, <2>2, <2>4, <2>5
<1>12. ASSUME NEW i \in 1 .. n, i - 1 \in T
       PROVE  i \in T
  <2> DEFINE p == Power[i - 1]
             q == x \div p
             d == Power[i]
             u == x \div d
  <2>1. i \in 0 .. n /\ i # 0
    BY <1>1
  <2>2. g[i] = g[i - 1] + b[i] * p
    BY <1>5, <1>10, <2>1, Zenon
  <2>3. g[i - 1] = x - p * q
    BY <1>12
  <2>4. b[i] = q % Radix
    BY <1>5
  <2>5. p \in Nat \ {0} /\ d \in Nat \ {0} /\ d = Radix * p
    BY <1>2, <1>3, <2>1
  <2>6. (q % Radix) * p = p * q - d * u
    <3>1. x \in Int
      BY <1>4
    <3>2. ((x \div p) % Radix) * p = p * (x \div p) - (Radix * p) * (x \div (Radix * p))
      <4> HIDE DEF p
      <4> QED
        BY <1>1, <2>5, <3>1, DivideTwice
    <3> HIDE DEF p, d
    <3> QED
      BY <2>5, <3>2, Zenon
  <2>7. q \in Int /\ u \in Int
    <3>1. x \in Int
      BY <1>4
    <3> HIDE DEF p, d
    <3> QED
      BY <2>5, <3>1, Division
  <2> HIDE DEF p, q, d, u
  <2>8. g[i] = (x - p * q) + (p * q - d * u)
    BY <2>2, <2>3, <2>4, <2>6
  <2>9. g[i] = x - d * u
    <3>1. p * q \in Int /\ d * u \in Int
      BY <2>5, <2>7
    <3> QED
      BY <1>4, <2>8, <3>1
  <2> QED
    BY <2>1, <2>9 DEF d, u
<1>13. \A i \in 0 .. n : i \in T
  <2> HIDE DEF T
  <2> QED
    BY <1>1, <1>11, <1>12, Induction
<1>14. g[n] = x - Power[n] * (x \div Power[n]) /\ Power[n] \in Nat \ {0}
  <2>1. n \in 0 .. n
    BY <1>1
  <2> QED
    BY <1>2, <1>13, <2>1
<1>15. x \div Power[n] = 0
  <2> DEFINE d == Power[n]
  <2>1. d \in Nat \ {0} /\ x \in 0 .. d - 1
    BY <1>14
  <2> HIDE DEF d
  <2>2. (d * 0 + x) \div d = 0
    <3>1. 0 \in Int
      OBVIOUS
    <3> QED
      BY <2>1, <3>1, QuotientIs, Zenon
  <2>3. d * 0 + x = x
    BY <2>1
  <2>4. x \div d = 0
    BY <2>2, <2>3
  <2> QED
    BY <2>4 DEF d
<1>16. Power[n] * 0 = 0 /\ x - 0 = x
  BY <1>4, <1>14
<1> QED
  BY <1>10, <1>14, <1>15, <1>16

\* A name is read up to its zero.
LEMMA NameRead ==
    ASSUME IsProm(buff), NEW s \in Seq(Bytes \ {0}), NEW at \in Nat,
           at + Len(s) <= PROM_MAX_LENGTH,
           \A i \in 1 .. Len(s) : buff[at + i - 1] = s[i],
           buff[at + Len(s)] = 0
    PROVE  Name(at) = s
<1> DEFINE M == PROM_MAX_LENGTH
           S == Seq(Bytes)
           Is(f) == f = [i \in 0 .. M |-> IF buff[i] = 0 THEN <<>> ELSE <<buff[i]>> \o f[i + 1]]
           step == [i \in 1 .. M |-> [v \in S |->
                      IF buff[M - i] = 0 THEN <<>> ELSE <<buff[M - i]>> \o v]]
<1>1. M \in Nat /\ Len(s) \in Nat
  BY PromAssumption
<1>2. \A i \in 0 .. M : buff[i] \in Bytes
  BY DEF IsProm
<1>3. \A i \in 1 .. M : M - i \in 0 .. M
  BY <1>1
<1>4. <<>> \in S /\ \A v \in S, x \in Bytes : <<x>> \o v \in S
  OBVIOUS
<1> HIDE DEF S
<1>5. step \in [1 .. M -> [S -> S]]
  BY <1>2, <1>3, <1>4
<1>6. PICK h : Computes(h, M, S, <<>>, step)
  <2> HIDE DEF step
  <2> QED
    BY <1>1, <1>4, <1>5, Recursion
<1> DEFINE f == [i \in 0 .. M |-> h[M - i]]
<1>7. Is(f)
  <2>1. ASSUME NEW i \in 0 .. M
        PROVE  f[i] = IF buff[i] = 0 THEN <<>> ELSE <<buff[i]>> \o f[i + 1]
    <3>1. CASE i = M
      <4>1. buff[i] = 0 /\ M - i = 0 /\ 0 \in 0 .. M
        BY <1>1, <3>1 DEF IsProm
      <4> QED
        BY <1>6, <4>1 DEF Computes
    <3>2. CASE i # M
      <4> DEFINE k == M - i
      <4>1. k \in 1 .. M /\ k \in 0 .. M /\ k # 0 /\ M - k = i /\ k - 1 \in 0 .. M
            /\ i + 1 \in 0 .. M /\ M - (i + 1) = k - 1
        BY <1>1, <3>2
      <4> HIDE DEF k
      <4>2. h[k] = step[k][h[k - 1]] /\ h[k - 1] \in S
        BY <1>6, <4>1 DEF Computes
      <4>3. h[k] = IF buff[i] = 0 THEN <<>> ELSE <<buff[i]>> \o h[k - 1]
        BY <4>1, <4>2, Zenon
      <4>4. f[i] = h[k] /\ f[i + 1] = h[k - 1]
        BY <4>1 DEF k
      <4> QED
        BY <4>3, <4>4, Zenon
    <3> QED
      BY <3>1, <3>2
  <2> QED
    BY <2>1, Zenon
<1> HIDE DEF f
<1>8. PICK g : Is(g) /\ Name(at) = g[at]
  BY <1>7, Zenon DEF Name
<1> DEFINE n == Len(s)
           T == {k \in 0 .. n : g[at + n - k] = SubSeq(s, n - k + 1, n)}
<1>9. 0 \in T
  <2>1. at + n - 0 = at + n /\ at + n \in 0 .. M /\ n - 0 + 1 = n + 1
    BY <1>1
  <2>2. g[at + n] = <<>>
    BY <1>8, <2>1, Zenon
  <2>3. SubSeq(s, n + 1, n) = <<>>
    BY <1>1
  <2>4. 0 \in 0 .. n
    BY <1>1
  <2>5. g[at + n - 0] = SubSeq(s, n - 0 + 1, n)
    BY <2>1, <2>2, <2>3, Zenon
  <2> QED
    BY <2>4, <2>5, Zenon
<1>10. ASSUME NEW k \in 1 .. n, k - 1 \in T
       PROVE  k \in T
  <2> DEFINE j == n - k + 1
  <2>1. /\ j \in 1 .. n /\ at + n - k = at + j - 1 /\ at + j - 1 \in 0 .. M
        /\ at + n - (k - 1) = (at + j - 1) + 1 /\ n - (k - 1) + 1 = j + 1
        /\ k \in 0 .. n
    BY <1>1
  <2> HIDE DEF j
  <2>2. buff[at + j - 1] = s[j] /\ s[j] \in Bytes /\ s[j] # 0
    <3>1. s[j] \in Bytes \ {0}
      BY <2>1, ElementOfSeq
    <3> QED
      BY <2>1, <3>1
  <2>3. g[at + j - 1] = <<s[j]>> \o g[(at + j - 1) + 1]
    <3>1. buff[at + j - 1] # 0
      BY <2>2
    <3>2. g[at + j - 1] = <<buff[at + j - 1]>> \o g[(at + j - 1) + 1]
      BY <1>8, <2>1, <3>1, Zenon
    <3> QED
      BY <2>2, <3>2, Zenon
  <2>4. g[(at + j - 1) + 1] = SubSeq(s, j + 1, n)
    BY <1>10, <2>1
  <2>5. <<s[j]>> \o SubSeq(s, j + 1, n) = SubSeq(s, j, n)
    <3>1. j \in 1 .. Len(s) /\ n \in j .. Len(s)
      BY <1>1, <2>1
    <3> QED
      BY <3>1, SubSeqRecursiveFirst, Zenon
  <2>6. g[at + n - k] = SubSeq(s, j, n)
    BY <2>1, <2>3, <2>4, <2>5, Zenon
  <2> QED
    BY <2>1, <2>6 DEF j
<1>11. \A k \in 0 .. n : k \in T
  <2> HIDE DEF T, n
  <2> QED
    BY <1>1, <1>9, <1>10, Induction DEF n
<1>12. n \in 0 .. n /\ at + n - n = at /\ n - n + 1 = 1
  BY <1>1
<1>13. g[at] = SubSeq(s, 1, n)
  BY <1>11, <1>12
<1>14. SubSeq(s, 1, n) = s
  BY SubSeqFull
<1> QED
  BY <1>8, <1>13, <1>14, Zenon

\* The permissions are read as they are meant.
LEMMA PermRead ==
    ASSUME NEW arg \in [letters : SUBSET {"r", "w"}, number : Bytes]
    PROVE  Perm(perm_flag(arg)) = Rights(arg) /\ perm_flag(arg) \in Bytes
<1> DEFINE p == arg.letters
<1>0. {0, 1, 2, 3, 4, 5, 6} \subseteq Bytes /\ p \in SUBSET {"r", "w"} /\ arg.number \in Bytes
  BY PromAssumption DEF Bytes
<1>1. CASE p = {}
  <2>1. perm_flag(arg) = arg.number
    BY <1>1 DEF perm_flag
  <2> QED
    BY <1>0, <1>1, <2>1, Zenon DEF Rights
<1>2. CASE p # {}
  <2>1. \A x \in 0 .. 6 : Perm(x) = {l \in {"r", "w"} : \/ (l = "r" /\ (x \div 4) % 2 = 1)
                                                       \/ (l = "w" /\ (x \div 2) % 2 = 1)}
    BY DEF Perm, Flag, PROM_DMA_PERM_READ, PROM_DMA_PERM_WRITE
  <2>2. "r" \in p \/ "w" \in p
    BY <1>0, <1>2
  <2>3. /\ "r" \in p /\ "w" \in p => perm_flag(arg) = 6
        /\ "r" \in p /\ "w" \notin p => perm_flag(arg) = 4
        /\ "r" \notin p /\ "w" \in p => perm_flag(arg) = 2
    BY DEF perm_flag
  <2>4. /\ perm_flag(arg) \in 0 .. 6 /\ perm_flag(arg) \in Bytes
        /\ "r" \in p <=> (perm_flag(arg) \div 4) % 2 = 1
        /\ "w" \in p <=> (perm_flag(arg) \div 2) % 2 = 1
    BY <1>0, <2>2, <2>3
  <2>5. Perm(perm_flag(arg)) = {l \in {"r", "w"} : l \in p}
    BY <2>1, <2>4
  <2>6. Rights(arg) = p
    BY <1>2 DEF Rights
  <2> QED
    BY <1>0, <2>4, <2>5, <2>6
<1> QED
  BY <1>1, <1>2

\* What a line is to be read as, field by field.
LEMMA LineRecord ==
    ASSUME NEW l \in Lines
    PROVE  /\ l.field = "name" => Meaning(l) = [field |-> "name", name |-> encode(l.name)]
           /\ l.field = "dma" =>
                Meaning(l) = [field |-> "dma", base |-> l.base, length |-> l.length,
                              perm |-> Rights(l.perm), name |-> encode(l.name)]
           /\ l.field = "mask" => Meaning(l) = [field |-> "mask", value |-> l.value]
           /\ l.field = "align" => Meaning(l) = [field |-> "align", value |-> l.value]
<1> DEFINE N == Seq(Chars)
           P == [letters : SUBSET {"r", "w"}, number : Bytes]
           V == 0 .. Power[ExtBytes] - 1
<1>1. \/ l \in [field : {"name"}, name : N]
      \/ l \in [field : {"dma"}, name : N, perm : P, base : V, length : V]
      \/ l \in [field : {"version", "mask", "align"}, value : Bytes]
  BY DEF Lines
<1> HIDE DEF N, P, V
<1>2. CASE l \in [field : {"name"}, name : N]
  <2>1. l.field = "name" /\ Meaning(l) = [l EXCEPT !.name = encode(l.name)]
    BY <1>2 DEF Meaning
  <2> QED
    BY <1>2, <2>1
<1>3. CASE l \in [field : {"dma"}, name : N, perm : P, base : V, length : V]
  <2>1. /\ l.field = "dma"
        /\ Meaning(l) = [l EXCEPT !.name = encode(l.name), !.perm = Rights(l.perm)]
    BY <1>3 DEF Meaning
  <2> QED
    BY <1>3, <2>1
<1>4. CASE l \in [field : {"version", "mask", "align"}, value : Bytes]
  <2>1. l.field \in {"mask", "align"} => Meaning(l) = l
    BY <1>4 DEF Meaning
  <2> QED
    BY <1>4, <2>1
<1> QED
  BY <1>1, <1>2, <1>3, <1>4

\* Where the fields of an area are.
LEMMA AreaLayout ==
    ASSUME NEW l \in Lines, l.field = "dma", NEW m \in 0 .. ExtBytes, NEW n \in 0 .. ExtBytes
    PROVE  LET a == AreaBytes(l, m, n)
           IN  /\ Len(encode(l.name)) \in Nat /\ m \in Nat /\ n \in Nat
               /\ Len(a) = m + n + 2 + Len(encode(l.name))
               /\ \A i \in 1 .. m : a[i] = Pack(l.base, m)[i]
               /\ \A i \in 1 .. n : a[m + i] = Pack(l.length, n)[i]
               /\ a[m + n + 1] = perm_flag(l.perm)
               /\ \A i \in 1 .. Len(encode(l.name)) : a[m + n + 1 + i] = encode(l.name)[i]
               /\ a[m + n + 2 + Len(encode(l.name))] = 0
<1> DEFINE b == Pack(l.base, m)
           g == Pack(l.length, n)
           p == <<perm_flag(l.perm)>>
           s == encode(l.name)
           z == <<0>>
           u == b \o g
           v == u \o p
           w == v \o s
           a == w \o z
<1>1. encode(l.name) \in Seq(Bytes) /\ l.base \in Int /\ l.length \in Int
  BY LineFields
<1>2. m \in Nat /\ n \in Nat /\ m \in 0 .. ExtBytes + 1 /\ n \in 0 .. ExtBytes + 1
  BY PromAssumption
<1>3. b \in Seq(Bytes) /\ Len(b) = m /\ g \in Seq(Bytes) /\ Len(g) = n
  BY <1>1, <1>2, PackBytes
<1>4. /\ p \in Seq(Bytes) /\ Len(p) = 1 /\ p[1] = perm_flag(l.perm)
      /\ z \in Seq(Bytes) /\ Len(z) = 1 /\ z[1] = 0
  <2>1. 0 \in Bytes
    BY PromAssumption DEF Bytes
  <2>2. perm_flag(l.perm) \in Bytes
    BY LineFields, PermRead, Zenon
  <2> QED
    BY <2>1, <2>2
<1>5. AreaBytes(l, m, n) = a
  BY Zenon DEF AreaBytes
<1> HIDE DEF b, g, p, s, z
<1>6. /\ u \in Seq(Bytes) /\ Len(u) = Len(b) + Len(g)
      /\ (\A i \in 1 .. Len(b) : u[i] = b[i]) /\ (\A i \in 1 .. Len(g) : u[Len(b) + i] = g[i])
  BY <1>3, TwoParts, Zenon
<1> HIDE DEF u
<1>7. /\ v \in Seq(Bytes) /\ Len(v) = Len(u) + Len(p)
      /\ (\A i \in 1 .. Len(u) : v[i] = u[i]) /\ (\A i \in 1 .. Len(p) : v[Len(u) + i] = p[i])
  BY <1>4, <1>6, TwoParts, Zenon
<1> HIDE DEF v
<1>8. /\ w \in Seq(Bytes) /\ Len(w) = Len(v) + Len(s) /\ Len(s) \in Nat
      /\ (\A i \in 1 .. Len(v) : w[i] = v[i]) /\ (\A i \in 1 .. Len(s) : w[Len(v) + i] = s[i])
  <2>1. s \in Seq(Bytes)
    BY <1>1 DEF s
  <2> QED
    BY <1>7, <2>1, TwoParts, Zenon
<1> HIDE DEF w
<1>9. /\ a \in Seq(Bytes) /\ Len(a) = Len(w) + Len(z)
      /\ (\A i \in 1 .. Len(w) : a[i] = w[i]) /\ (\A i \in 1 .. Len(z) : a[Len(w) + i] = z[i])
  BY <1>4, <1>8, TwoParts, Zenon
<1> HIDE DEF a
<1>10. /\ Len(u) = m + n /\ Len(v) = m + n + 1 /\ Len(w) = m + n + 1 + Len(s)
       /\ Len(a) = m + n + 2 + Len(s)
  BY <1>2, <1>3, <1>4, <1>6, <1>7, <1>8, <1>9
<1>11. \A i \in 1 .. m + n : a[i] = u[i]
  <2>0. Len(s) \in Nat
    BY <1>8, Zenon
  <2> HIDE DEF s
  <2>1. ASSUME NEW i \in 1 .. m + n
        PROVE  i \in 1 .. Len(u) /\ i \in 1 .. Len(v) /\ i \in 1 .. Len(w)
    BY <1>2, <1>10, <2>0
  <2> QED
    BY <1>7, <1>8, <1>9, <2>1, Zenon
<1>12. \A i \in 1 .. m : a[i] = b[i]
  <2>1. \A i \in 1 .. m : i \in 1 .. m + n
    BY <1>2
  <2> QED
    BY <1>3, <1>6, <1>11, <2>1, Zenon
<1>13. \A i \in 1 .. n : a[m + i] = g[i]
  <2>1. \A i \in 1 .. n : m + i \in 1 .. m + n
    BY <1>2
  <2> QED
    BY <1>3, <1>6, <1>11, <2>1, Zenon
<1>14. a[m + n + 1] = perm_flag(l.perm)
  <2>1. m + n + 1 \in 1 .. Len(v) /\ m + n + 1 \in 1 .. Len(w) /\ 1 \in 1 .. Len(p)
    BY <1>2, <1>4, <1>8, <1>10
  <2>2. a[m + n + 1] = v[m + n + 1]
    BY <1>8, <1>9, <2>1, Zenon
  <2>3. v[Len(u) + 1] = p[1]
    BY <1>7, <2>1, Zenon
  <2> QED
    BY <1>4, <1>10, <2>2, <2>3, Zenon
<1>15. \A i \in 1 .. Len(s) : a[m + n + 1 + i] = s[i]
  <2>1. \A i \in 1 .. Len(s) : m + n + 1 + i \in 1 .. Len(w)
    BY <1>2, <1>8, <1>10
  <2> QED
    BY <1>8, <1>9, <1>10, <2>1, Zenon
<1>16. a[m + n + 2 + Len(s)] = 0
  <2>1. 1 \in 1 .. Len(z) /\ Len(w) + 1 = m + n + 2 + Len(s)
    BY <1>2, <1>4, <1>8, <1>10
  <2>2. a[Len(w) + 1] = z[1]
    BY <1>9, <2>1, Zenon
  <2> QED
    BY <1>4, <2>1, <2>2, Zenon
<1> QED
  BY <1>2, <1>5, <1>8, <1>10, <1>12, <1>13, <1>14, <1>15, <1>16, Zenon DEF b, g, s

\* An area is read as it was written.
LEMMA AreaRead ==
    ASSUME IsProm(buff), NEW l \in Lines, l.field = "dma", NEW e \in Nat,
           NEW m \in 0 .. ExtBytes, NEW n \in 0 .. ExtBytes,
           l.base < Power[m], l.length < Power[n],
           e + 2 + Len(AreaBytes(l, m, n)) <= PROM_MAX_LENGTH,
           \A j \in 1 .. Len(AreaBytes(l, m, n)) : buff[e + 1 + j] = AreaBytes(l, m, n)[j]
    PROVE  Area(e, m, n) = Meaning(l)
<1> DEFINE a == AreaBytes(l, m, n)
           s == encode(l.name)
           at == e + 2 + m + n
<1>1. /\ Len(s) \in Nat /\ m \in Nat /\ n \in Nat
      /\ Len(a) = m + n + 2 + Len(s)
      /\ \A i \in 1 .. m : a[i] = Pack(l.base, m)[i]
      /\ \A i \in 1 .. n : a[m + i] = Pack(l.length, n)[i]
      /\ a[m + n + 1] = perm_flag(l.perm)
      /\ \A i \in 1 .. Len(s) : a[m + n + 1 + i] = s[i]
      /\ a[m + n + 2 + Len(s)] = 0
  BY AreaLayout, Zenon
<1>2. \A j \in 1 .. Len(a) : buff[e + 1 + j] = a[j]
  OBVIOUS
<1>3. e + 2 + Len(a) <= PROM_MAX_LENGTH /\ PROM_MAX_LENGTH \in Nat
  BY PromAssumption
<1> HIDE DEF a
<1>4. /\ s \in Seq(Bytes \ {0})
      /\ l.base \in 0 .. Power[m] - 1 /\ l.length \in 0 .. Power[n] - 1
  <2>1. Power[m] \in Nat /\ Power[n] \in Nat /\ Power[ExtBytes] \in Nat
    BY PowerFacts, PromAssumption
  <2>2. /\ s \in Seq(Bytes \ {0})
        /\ l.base \in 0 .. Power[ExtBytes] - 1 /\ l.length \in 0 .. Power[ExtBytes] - 1
    BY LineFields
  <2> HIDE DEF s
  <2> QED
    BY <2>1, <2>2
<1> HIDE DEF s
<1>5. Number(e + 2, m) = l.base
  <2>1. e + 2 \in Nat
    OBVIOUS
  <2>2. ASSUME NEW i \in 1 .. m
        PROVE  buff[(e + 2) + i - 1] = Pack(l.base, m)[i]
    <3>1. i \in 1 .. Len(a) /\ (e + 2) + i - 1 = e + 1 + i
      BY <1>1
    <3>2. buff[e + 1 + i] = a[i]
      BY <1>2, <3>1, Zenon
    <3> QED
      BY <1>1, <3>1, <3>2, Zenon
  <2> QED
    BY <1>4, <2>1, <2>2, NumberRead, Zenon
<1>6. Number(e + 2 + m, n) = l.length
  <2>1. e + 2 + m \in Nat
    BY <1>1
  <2>2. ASSUME NEW i \in 1 .. n
        PROVE  buff[(e + 2 + m) + i - 1] = Pack(l.length, n)[i]
    <3>1. m + i \in 1 .. Len(a) /\ (e + 2 + m) + i - 1 = e + 1 + (m + i)
      BY <1>1
    <3>2. buff[e + 1 + (m + i)] = a[m + i]
      BY <1>2, <3>1, Zenon
    <3> QED
      BY <1>1, <3>1, <3>2, Zenon
  <2> QED
    BY <1>4, <2>1, <2>2, NumberRead, Zenon
<1>7. Perm(buff[at]) = Rights(l.perm)
  <2>1. m + n + 1 \in 1 .. Len(a) /\ at = e + 1 + (m + n + 1)
    BY <1>1
  <2>2. buff[e + 1 + (m + n + 1)] = a[m + n + 1]
    BY <1>2, <2>1, Zenon
  <2>3. buff[at] = perm_flag(l.perm)
    BY <1>1, <2>1, <2>2, Zenon
  <2> QED
    BY <2>3, LineFields, PermRead, Zenon
<1>8. Name(at + 1) = s
  <2> DEFINE k == at + 1
             d == Len(s)
  <2>0. d \in Nat /\ m \in Nat /\ n \in Nat /\ Len(a) = m + n + 2 + d
    BY <1>1, Zenon
  <2> HIDE DEF d
  <2>1. k \in Nat /\ k = e + m + n + 3
    BY <1>1
  <2> HIDE DEF k
  <2>2. k + Len(s) <= PROM_MAX_LENGTH
    <3>1. k + d <= PROM_MAX_LENGTH
      BY <1>3, <2>0, <2>1
    <3> QED
      BY <3>1 DEF d
  <2>3. ASSUME NEW i \in 1 .. Len(s)
        PROVE  buff[k + i - 1] = s[i]
    <3>1. m + n + 1 + i \in 1 .. Len(a) /\ k + i - 1 = e + 1 + (m + n + 1 + i)
      BY <1>1, <2>1
    <3>2. buff[e + 1 + (m + n + 1 + i)] = a[m + n + 1 + i]
      BY <1>2, <3>1, Zenon
    <3> QED
      BY <1>1, <3>1, <3>2, Zenon
  <2>4. buff[k + Len(s)] = 0
    <3>0. m + n + 2 + d \in 1 .. Len(a) /\ k + d = e + 1 + (m + n + 2 + d)
      BY <2>0, <2>1
    <3>1. m + n + 2 + Len(s) \in 1 .. Len(a) /\ k + Len(s) = e + 1 + (m + n + 2 + Len(s))
      BY <3>0 DEF d
    <3>2. buff[e + 1 + (m + n + 2 + Len(s))] = a[m + n + 2 + Len(s)]
      BY <1>2, <3>1, Zenon
    <3> QED
      BY <1>1, <3>1, <3>2, Zenon
  <2>5. Name(k) = s
    BY <1>4, <2>1, <2>2, <2>3, <2>4, NameRead, Zenon
  <2> QED
    BY <2>5 DEF k
<1>9. Area(e, m, n) = [field |-> "dma", base |-> l.base, length |-> l.length,
                       perm |-> Rights(l.perm), name |-> s]
  BY <1>5, <1>6, <1>7, <1>8, Zenon DEF Area
<1> QED
  BY <1>9, LineRecord, Zenon DEF s

\* So is every entry.
LEMMA FieldsRead ==
    ASSUME IsProm(buff), NEW l \in EntryLines, NEW e \in Nat,
           e + 2 + Len(Payload(l)) <= PROM_MAX_LENGTH, tag(e) = LineTag(l),
           \A j \in 1 .. Len(Payload(l)) : buff[e + 1 + j] = Payload(l)[j]
    PROVE  /\ Fields(e) = Meaning(l)
           /\ l.field \in {"mask", "align"} => buff[e + 2] = l.value
<1>0. l \in Lines /\ l.field # "version"
  BY DEF EntryLines
<1>1. /\ PROM_DEVICE_TAG = 1 /\ PROM_DMA_TAG = 2 /\ PROM_DMA_EXT_TAG = 3
      /\ PROM_DMA_MASK_TAG = 4 /\ PROM_DMA_ALIGN_TAG = 5
  BY DEF PROM_DEVICE_TAG, PROM_DMA_TAG, PROM_DMA_EXT_TAG, PROM_DMA_MASK_TAG,
     PROM_DMA_ALIGN_TAG
<1>2. CASE l.field = "name"
  <2> DEFINE s == encode(l.name)
             k == e + 2
  <2>1. tag(e) = PROM_DEVICE_TAG /\ Payload(l) = s \o <<0>>
    BY <1>2 DEF LineTag, Payload
  <2>2. Fields(e) = [field |-> "name", name |-> Name(k)]
    BY <1>1, <2>1 DEF Fields
  <2>3. s \in Seq(Bytes \ {0}) /\ s \in Seq(Bytes) /\ <<0>> \in Seq(Bytes) /\ Len(<<0>>) = 1 /\ <<0>>[1] = 0
    BY <1>2, <1>0, LineFields, PromAssumption DEF Bytes
  <2> HIDE DEF s
  <2>4. /\ Len(s) \in Nat /\ Len(Payload(l)) = Len(s) + 1
        /\ \A i \in 1 .. Len(s) : Payload(l)[i] = s[i]
        /\ Payload(l)[Len(s) + 1] = 0
    <3> DEFINE z == <<0>>
    <3>1. z \in Seq(Bytes) /\ Len(z) = 1 /\ z[1] = 0 /\ Payload(l) = s \o z
      BY <2>1, <2>3
    <3> HIDE DEF z
    <3>2. /\ Len(s) \in Nat /\ Len(s \o z) = Len(s) + Len(z)
          /\ \A i \in 1 .. Len(s) : (s \o z)[i] = s[i]
          /\ \A i \in 1 .. Len(z) : (s \o z)[Len(s) + i] = z[i]
      BY <2>3, <3>1, TwoParts, Zenon
    <3>3. 1 \in 1 .. Len(z)
      BY <3>1
    <3> QED
      BY <3>1, <3>2, <3>3, Zenon
  <2>5. k \in Nat /\ k + Len(s) <= PROM_MAX_LENGTH
    BY <2>4, PromAssumption
  <2>6. ASSUME NEW i \in 1 .. Len(s)
        PROVE  buff[k + i - 1] = s[i]
    <3>1. i \in 1 .. Len(Payload(l)) /\ k + i - 1 = e + 1 + i
      BY <2>4
    <3> QED
      BY <2>4, <3>1, Zenon
  <2>7. buff[k + Len(s)] = 0
    <3>1. Len(s) + 1 \in 1 .. Len(Payload(l)) /\ k + Len(s) = e + 1 + (Len(s) + 1)
      BY <2>4
    <3> QED
      BY <2>4, <3>1, Zenon
  <2> HIDE DEF k
  <2>8. Name(k) = s
    BY <2>3, <2>5, <2>6, <2>7, NameRead, Zenon
  <2>9. Fields(e) = Meaning(l)
    BY <1>2, <2>2, <2>8, <1>0, LineRecord, Zenon DEF s
  <2> QED
    BY <1>2, <2>9
<1>3. CASE l.field = "dma"
  <2>0. {BaseBytes, LengthBytes, ExtBytes} \subseteq 0 .. ExtBytes
    BY PromAssumption
  <2>1. /\ Power[BaseBytes] \in Nat /\ Power[LengthBytes] \in Nat /\ Power[ExtBytes] \in Nat
        /\ l.base \in 0 .. Power[ExtBytes] - 1 /\ l.length \in 0 .. Power[ExtBytes] - 1
    BY <1>3, <2>0, PowerFacts, <1>0, LineFields
  <2>2. CASE l.base >= Power[BaseBytes] \/ l.length >= Power[LengthBytes]
    <3>1. tag(e) = PROM_DMA_EXT_TAG
      BY <1>3, <2>2 DEF LineTag
    <3>2. Payload(l) = AreaBytes(l, ExtBytes, ExtBytes)
      BY <1>3, <2>2 DEF Payload
    <3>3. Fields(e) = Area(e, ExtBytes, ExtBytes)
      BY <1>1, <3>1 DEF Fields
    <3>4. l.base < Power[ExtBytes] /\ l.length < Power[ExtBytes]
      BY <2>1
    <3>5. ExtBytes \in 0 .. ExtBytes
      BY <2>0
    <3>6. /\ e + 2 + Len(AreaBytes(l, ExtBytes, ExtBytes)) <= PROM_MAX_LENGTH
          /\ \A j \in 1 .. Len(AreaBytes(l, ExtBytes, ExtBytes)) :
                buff[e + 1 + j] = AreaBytes(l, ExtBytes, ExtBytes)[j]
      BY <3>2, Zenon
    <3>7. Area(e, ExtBytes, ExtBytes) = Meaning(l)
      BY <1>3, <3>4, <3>5, <3>6, <1>0, AreaRead, Zenon
    <3> QED
      BY <1>3, <3>3, <3>7
  <2>3. CASE ~ (l.base >= Power[BaseBytes] \/ l.length >= Power[LengthBytes])
    <3>1. tag(e) = PROM_DMA_TAG
      BY <1>3, <2>3 DEF LineTag
    <3>2. Payload(l) = AreaBytes(l, BaseBytes, LengthBytes)
      BY <1>3, <2>3 DEF Payload
    <3>3. Fields(e) = Area(e, BaseBytes, LengthBytes)
      BY <1>1, <3>1 DEF Fields
    <3>4. l.base < Power[BaseBytes] /\ l.length < Power[LengthBytes]
      BY <2>1, <2>3
    <3>5. BaseBytes \in 0 .. ExtBytes /\ LengthBytes \in 0 .. ExtBytes
      BY <2>0
    <3>6. /\ e + 2 + Len(AreaBytes(l, BaseBytes, LengthBytes)) <= PROM_MAX_LENGTH
          /\ \A j \in 1 .. Len(AreaBytes(l, BaseBytes, LengthBytes)) :
                buff[e + 1 + j] = AreaBytes(l, BaseBytes, LengthBytes)[j]
      BY <3>2, Zenon
    <3>7. Area(e, BaseBytes, LengthBytes) = Meaning(l)
      BY <1>3, <3>4, <3>5, <3>6, <1>0, AreaRead, Zenon
    <3> QED
      BY <1>3, <3>3, <3>7
  <2> QED
    BY <2>2, <2>3
<1>4. CASE l.field \in {"mask", "align"}
  <2>1. Payload(l) = <<l.value>>
    BY <1>4 DEF Payload
  <2>2. 1 \in 1 .. Len(Payload(l)) /\ Payload(l)[1] = l.value /\ e + 1 + 1 = e + 2
    BY <2>1
  <2>3. buff[e + 2] = l.value
    BY <2>2, Zenon
  <2>4. CASE l.field = "mask"
    <3>1. tag(e) = PROM_DMA_MASK_TAG
      BY <2>4 DEF LineTag
    <3>2. Fields(e) = [field |-> "mask", value |-> buff[e + 2]]
      BY <1>1, <3>1 DEF Fields
    <3> QED
      BY <2>3, <2>4, <3>2, <1>0, LineRecord, Zenon
  <2>5. CASE l.field = "align"
    <3>1. tag(e) = PROM_DMA_ALIGN_TAG
      BY <2>5 DEF LineTag
    <3>2. Fields(e) = [field |-> "align", value |-> buff[e + 2]]
      BY <1>1, <3>1 DEF Fields
    <3> QED
      BY <2>3, <2>5, <3>2, <1>0, LineRecord, Zenon
  <2> QED
    BY <1>4, <2>4, <2>5
<1> QED
  BY <1>2, <1>3, <1>4, <1>0, LineFields

-----------------------------------------------------------------------------
(* The entries of an image that was accepted. *)

\* The tag of an entry says of which kind its line is.
LEMMA LineKinds ==
    ASSUME NEW l \in EntryLines
    PROVE  /\ l.field \in {"name", "dma", "mask", "align"}
           /\ LineTag(l) = PROM_DEVICE_TAG <=> l.field = "name"
           /\ LineTag(l) \in {PROM_DMA_TAG, PROM_DMA_EXT_TAG} <=> l.field = "dma"
           /\ LineTag(l) = PROM_DMA_MASK_TAG <=> l.field = "mask"
           /\ LineTag(l) = PROM_DMA_ALIGN_TAG <=> l.field = "align"
<1>1. l.field \in {"name", "dma", "mask", "align"}
  BY LineFields DEF EntryLines
<1> QED
  BY <1>1 DEF LineTag, PROM_DEVICE_TAG, PROM_DMA_TAG, PROM_DMA_EXT_TAG,
     PROM_DMA_MASK_TAG, PROM_DMA_ALIGN_TAG

\* The lines behind the version are a sequence of lines.
LEMMA EntriesAre ==
    ASSUME NEW c \in Files
    PROVE  Entries(c) \in Seq(Lines)
<1>1. c \in Seq(Lines) /\ c # <<>>
  BY ConfigAssumption DEF Files, WellFormed
<1> QED
  BY <1>1 DEF Entries

\* The walk meets the lines of the configuration, one entry for each.
LEMMA LinesMet ==
    ASSUME IInv, ImageInv, OutcomeInv, WellFormed(config), pc \in Accepted
    PROVE  /\ config \in Files /\ IsProm(prom) /\ buff = prom
           /\ Len(Entries(config)) \in Nat /\ DOMAIN Entries(config) = 1 .. Len(Entries(config))
           /\ \A k \in 1 .. Len(Entries(config)) : Entries(config)[k] \in EntryLines
           /\ Len(prom_for_each_entry) = Len(Entries(config))
           /\ DOMAIN prom_for_each_entry = DOMAIN Entries(config)
           /\ Intact(process_config_file(config))
           /\ Len(process_config_file(config)) < PROM_MAX_LENGTH
           /\ At(config, Len(Entries(config))) \in Nat
           /\ At(config, Len(Entries(config))) < Len(process_config_file(config))
           /\ \A k \in 1 .. Len(Entries(config)) : prom_for_each_entry[k] = At(config, k - 1)
<1> DEFINE c == config
           image == process_config_file(c)
           n == Len(Entries(c))
           M == PROM_MAX_LENGTH
           seen == prom_for_each_entry
<1>1. /\ c \in Files /\ IsProm(prom) /\ Laid(prom, c) /\ Intact(image) /\ Len(image) < M
  BY ConfigFile DEF IInv, PromInv, ImageInv, OutcomeInv
<1>2. n \in Nat /\ \A k \in 1 .. n : Entries(c)[k] \in EntryLines
  BY <1>1, WrittenBytes, Zenon
<1>3. DOMAIN Entries(c) = 1 .. n
  <2>1. Entries(c) \in Seq(Lines)
    BY <1>1, EntriesAre
  <2> QED
    BY <2>1
<1>4. At(c, n) \in Nat
  <2>1. n \in 0 .. n
    BY <1>2
  <2> QED
    BY <1>1, <2>1, Lengths
<1>5. At(c, n) + 1 < M /\ At(c, n) < Len(image)
  <2>1. \E s \in {2, 3} : Len(image) = At(c, n) + s + 2
    BY <1>1, ImageEnd
  <2>2. M \in Nat
    BY PromAssumption
  <2> HIDE DEF image, c, M
  <2> QED
    BY <1>1, <1>4, <2>1, <2>2
<1>6. buff = prom /\ Len(seen) = n /\ \A k \in 1 .. n : seen[k] = At(c, k - 1)
  BY <1>1, <1>5, ImageWalk
<1>7. DOMAIN seen = 1 .. n
  BY <1>1, <1>6, Places
<1> QED
  BY <1>1, <1>2, <1>3, <1>4, <1>5, <1>6, <1>7, Zenon

\* Behind its tag and its size each has the payload of the line.
LEMMA PayloadMet ==
    ASSUME IInv, ImageInv, OutcomeInv, WellFormed(config), pc \in Accepted,
           NEW k \in 1 .. Len(Entries(config))
    PROVE  LET e == prom_for_each_entry[k]
               p == Payload(Entries(config)[k])
           IN  /\ e \in Nat /\ e + 2 + Len(p) <= PROM_MAX_LENGTH
               /\ tag(e) = LineTag(Entries(config)[k])
               /\ \A j \in 1 .. Len(p) : buff[e + 1 + j] = p[j]
<1> DEFINE c == config
           image == process_config_file(c)
           n == Len(Entries(c))
           M == PROM_MAX_LENGTH
           e == At(c, k - 1)
           d == dump_line(Entries(c)[k])
           p == Payload(Entries(c)[k])
<1>1. /\ c \in Files /\ buff = prom /\ n \in Nat /\ Entries(c)[k] \in EntryLines
      /\ Intact(image) /\ Len(image) < M /\ At(c, n) \in Nat /\ At(c, n) < Len(image)
      /\ prom_for_each_entry[k] = e
  BY LinesMet, Zenon
<1>2. /\ d[1] = LineTag(Entries(c)[k]) /\ Len(p) \in Nat /\ Len(d) = 2 + Len(p)
      /\ \A j \in 1 .. Len(p) : d[2 + j] = p[j]
  BY <1>1, Dumped, Zenon
<1>3. e \in Nat /\ At(c, k) \in Nat /\ At(c, k) = e + Len(d) /\ At(c, k) <= At(c, n)
  <2>1. k - 1 \in 0 .. n /\ k \in 0 .. n /\ k \in 1 .. n
    BY <1>1
  <2> QED
    BY <1>1, <2>1, Lengths, Prefix, Zenon
<1>4. Len(image) \in Nat /\ M \in Nat
  BY <1>1, ImageBytes, PromAssumption DEF Files
<1>5. \A j \in 1 .. Len(d) : image[e + j] = d[j]
  BY <1>1, ImageLines, Zenon
<1>6. \A i \in 0 .. Len(image) - 1 : i < M => buff[i] = image[i + 1]
  BY <1>1, Zenon DEF Intact
<1>7. Len(image) < M /\ At(c, n) < Len(image) /\ At(c, n) \in Nat
  BY <1>1
<1> HIDE DEF c, image, n, M, e, d, p
<1>8. e + 2 + Len(p) <= M
  BY <1>2, <1>3, <1>4, <1>7
<1>9. \A j \in 1 .. Len(d) : buff[(e + j) - 1] = d[j]
  <2> SUFFICES ASSUME NEW j \in 1 .. Len(d) PROVE buff[(e + j) - 1] = d[j]
    OBVIOUS
  <2>1. Len(d) \in Nat
    BY <1>2
  <2>2. /\ (e + j) - 1 \in 0 .. Len(image) - 1 /\ (e + j) - 1 < M
        /\ ((e + j) - 1) + 1 = e + j
    BY <1>3, <1>4, <1>7, <2>1
  <2> QED
    BY <1>5, <1>6, <2>2, Zenon
<1>10. tag(e) = LineTag(Entries(c)[k])
  <2>1. 1 \in 1 .. Len(d) /\ (e + 1) - 1 = e
    BY <1>2, <1>3
  <2>2. buff[(e + 1) - 1] = d[1]
    BY <1>9, <2>1, Zenon
  <2> QED
    BY <1>2, <2>1, <2>2, Zenon DEF tag
<1>11. \A j \in 1 .. Len(p) : buff[e + 1 + j] = p[j]
  <2> SUFFICES ASSUME NEW j \in 1 .. Len(p) PROVE buff[e + 1 + j] = p[j]
    OBVIOUS
  <2>0. Len(p) \in Nat /\ Len(d) = 2 + Len(p) /\ e \in Nat
    BY <1>2, <1>3, Zenon
  <2>1. 2 + j \in 1 .. Len(d) /\ (e + (2 + j)) - 1 = e + 1 + j
    BY <2>0
  <2>2. buff[(e + (2 + j)) - 1] = d[2 + j]
    BY <1>9, <2>1, Zenon
  <2> QED
    BY <1>2, <2>1, <2>2, Zenon
<1>12. prom_for_each_entry[k] = e
  BY <1>1, Zenon
<1> QED
  BY <1>3, <1>8, <1>10, <1>11, <1>12, Zenon DEF c, p, M

\* So each is read as its line.
LEMMA LineMet ==
    ASSUME IInv, ImageInv, OutcomeInv, WellFormed(config), pc \in Accepted,
           NEW k \in 1 .. Len(Entries(config))
    PROVE  LET e == prom_for_each_entry[k]
               l == Entries(config)[k]
           IN  /\ l \in EntryLines /\ e \in Nat /\ Fields(e) = Meaning(l)
               /\ tag(e) = LineTag(l)
               /\ l.field \in {"mask", "align"} => buff[e + 2] = l.value
               /\ IsDma(e) <=> l.field = "dma"
               /\ tag(e) = PROM_DEVICE_TAG <=> l.field = "name"
               /\ prom_entry_needs_minor(e) <=> Describes(l)
<1> DEFINE e == prom_for_each_entry[k]
           l == Entries(config)[k]
<1>1. l \in EntryLines /\ IsProm(buff)
  BY LinesMet, BuffIsProm, Zenon
<1>2. /\ e \in Nat /\ e + 2 + Len(Payload(l)) <= PROM_MAX_LENGTH
      /\ tag(e) = LineTag(l)
      /\ \A j \in 1 .. Len(Payload(l)) : buff[e + 1 + j] = Payload(l)[j]
  BY PayloadMet, Zenon
<1> HIDE DEF e, l
<1>3. Fields(e) = Meaning(l) /\ (l.field \in {"mask", "align"} => buff[e + 2] = l.value)
  BY <1>1, <1>2, FieldsRead, Zenon
<1>4. /\ IsDma(e) <=> l.field = "dma"
      /\ tag(e) = PROM_DEVICE_TAG <=> l.field = "name"
  BY <1>1, <1>2, LineKinds, Zenon DEF IsDma
<1>5. prom_entry_needs_minor(e) <=> Describes(l)
  BY <1>4 DEF prom_entry_needs_minor, Describes
<1> QED
  BY <1>1, <1>2, <1>3, <1>4, <1>5, Zenon DEF e, l

\* What the creator writes for any file that starts with the version, has
\* names of one byte for a character and fits the PROM, the loader accepts,
\* and the entries it meets say what the lines of the file mean.
THEOREM ImagesRoundTrip == Spec => []RoundTrip
<1> DEFINE Inv == IInv /\ ImageInv /\ OutcomeInv
<1>1. Inv => RoundTrip
  <2> SUFFICES ASSUME Inv, WellFormed(config), ~ damaged,
                      Len(process_config_file(config)) < PROM_MAX_LENGTH
               PROVE  /\ pc # "rejected"
                      /\ pc \in Accepted =>
                           [k \in DOMAIN Entries(config) |-> Meaning(Entries(config)[k])]
                           = [k \in DOMAIN prom_for_each_entry |->
                                Fields(prom_for_each_entry[k])]
    BY Zenon DEF RoundTrip
  <2>1. pc # "rejected"
    <3>1. config \in Files
      BY ConfigFile DEF IInv
    <3>2. Len(process_config_file(config)) \in Nat /\ PROM_MAX_LENGTH \in Nat
      BY <3>1, ImageBytes, PromAssumption DEF Files
    <3>3. ~ (Len(process_config_file(config)) >= PROM_MAX_LENGTH)
      BY <3>2
    <3> QED
      BY <3>3, Zenon DEF OutcomeInv
  <2>2. ASSUME pc \in Accepted
        PROVE  [k \in DOMAIN Entries(config) |-> Meaning(Entries(config)[k])]
               = [k \in DOMAIN prom_for_each_entry |-> Fields(prom_for_each_entry[k])]
    <3> DEFINE seen == prom_for_each_entry
               lines == Entries(config)
    <3>1. DOMAIN lines = 1 .. Len(lines) /\ DOMAIN seen = DOMAIN lines
      BY <2>2, LinesMet, Zenon
    <3>2. \A k \in DOMAIN lines : Fields(seen[k]) = Meaning(lines[k])
      BY <2>2, <3>1, LineMet, Zenon
    <3> HIDE DEF seen, lines
    <3>3. [k \in DOMAIN lines |-> Meaning(lines[k])] = [k \in DOMAIN seen |-> Fields(seen[k])]
      BY <3>1, <3>2
    <3> QED
      BY <3>3 DEF seen, lines
  <2> QED
    BY <2>1, <2>2
<1> QED
  BY <1>1, ImageInductive, PTL

-----------------------------------------------------------------------------
(* The inductive invariant for what open() gets. *)

\* The engine is set up from the lines, before any file is opened.
SettingsInv ==
    /\ file # None => pc \in {"bound", "removed"}
    /\ WellFormed(config) /\ pc \in {"cdev", "nodes", "failed", "bound", "removed"} =>
         /\ dma # None =>
              /\ dma.mask = First("mask", DMA_DEFAULT_MASK)
              /\ dma.shift = First("align", DMA_DEFAULT_ALIGNMENT_SHIFT)
         /\ \A k \in DOMAIN Entries(config) : Entries(config)[k].field = "dma" => dma # None

\* The whole of it.
ConfigInv == ImageInv /\ OutcomeInv /\ SettingsInv /\ OpensAsConfigured

-----------------------------------------------------------------------------
(* The settings of the engine. *)

\* The first entry of a kind is that of the first line of the kind.
LEMMA ValueRead ==
    ASSUME IInv, ImageInv, OutcomeInv, WellFormed(config), pc \in Accepted,
           NEW t, NEW field, NEW default \in Nat,
           \/ t = PROM_DMA_MASK_TAG /\ field = "mask"
           \/ t = PROM_DMA_ALIGN_TAG /\ field = "align"
    PROVE  Value(t, default) = First(field, default) /\ Value(t, default) \in Nat
<1> DEFINE seen == prom_for_each_entry
           F == {k \in DOMAIN seen : tag(seen[k]) = t}
           G == {k \in DOMAIN Entries(config) : Entries(config)[k].field = field}
           least == CHOOSE k \in G : \A j \in G : k <= j
<1>1. DOMAIN seen = DOMAIN Entries(config) /\ DOMAIN Entries(config) = 1 .. Len(Entries(config))
  BY LinesMet, Zenon
<1>2. \A k \in DOMAIN Entries(config) :
        /\ Entries(config)[k] \in EntryLines /\ seen[k] \in Nat /\ tag(seen[k]) = LineTag(Entries(config)[k])
        /\ Entries(config)[k].field \in {"mask", "align"} => buff[seen[k] + 2] = Entries(config)[k].value
  BY <1>1, LineMet, Zenon
<1> HIDE DEF seen
<1>3. F = G
  <2>1. ASSUME NEW k \in DOMAIN Entries(config)
        PROVE  tag(seen[k]) = t <=> Entries(config)[k].field = field
    <3>1. Entries(config)[k] \in EntryLines /\ tag(seen[k]) = LineTag(Entries(config)[k])
      BY <1>2
    <3> QED
      BY <3>1, LineKinds, Zenon
  <2> QED
    BY <1>1, <2>1
<1>4. prom_find_entry_by_tag(t)
        = IF F = {} THEN None ELSE seen[CHOOSE k \in F : \A j \in F : k <= j]
  BY Zenon DEF prom_find_entry_by_tag, seen
<1>5. First(field, default) = IF G = {} THEN default ELSE Entries(config)[least].value
  BY Zenon DEF First
<1>6. Value(t, default) = IF prom_find_entry_by_tag(t) = None THEN default
                          ELSE buff[prom_find_entry_by_tag(t) + 2]
  BY Zenon DEF Value
<1>7. G \in SUBSET Nat /\ \A k \in G : k \in DOMAIN Entries(config) /\ Entries(config)[k].field = field
  BY <1>1
<1> HIDE DEF F, G
<1>8. CASE G = {}
  BY <1>3, <1>4, <1>5, <1>6, <1>8
<1>9. CASE G # {}
  <2>1. least \in G
    <3>1. \E m \in G : \A k \in G : m <= k
      BY <1>7, <1>9, LeastElement
    <3> QED
      BY <3>1
  <2> HIDE DEF least
  <2>2. prom_find_entry_by_tag(t) = seen[least]
    BY <1>3, <1>4, <1>9, Zenon DEF least
  <2>3. /\ Entries(config)[least] \in EntryLines /\ seen[least] \in Nat /\ Entries(config)[least].field = field
        /\ field \in {"mask", "align"}
    BY <1>2, <1>7, <2>1
  <2>4. seen[least] # None
    BY <2>3, NoneAssumption
  <2>5. buff[seen[least] + 2] = Entries(config)[least].value
    BY <1>2, <1>7, <2>1, <2>3
  <2>6. Entries(config)[least].value \in Nat
    <3>1. Entries(config)[least].value \in Bytes
      BY <2>3, LineFields DEF EntryLines
    <3> QED
      BY <3>1, PromAssumption DEF Bytes
  <2>7. Value(t, default) = Entries(config)[least].value
    BY <1>6, <2>2, <2>4, <2>5, Zenon
  <2> QED
    BY <1>5, <1>9, <2>6, <2>7, Zenon
<1> QED
  BY <1>8, <1>9

\* initialise_board sets the engine up from the lines, if there is an area.
LEMMA SettingsRead ==
    ASSUME IInv, ImageInv, OutcomeInv, WellFormed(config), pc \in Accepted
    PROVE  /\ DmaSettings # None
           /\ DmaSettings.mask = First("mask", DMA_DEFAULT_MASK)
           /\ DmaSettings.shift = First("align", DMA_DEFAULT_ALIGNMENT_SHIFT)
           /\ \A k \in DOMAIN Entries(config) : Entries(config)[k].field = "dma" => dma_nentries # 0
<1> DEFINE seen == prom_for_each_entry
<1>1. DMA_DEFAULT_MASK \in Nat /\ DMA_DEFAULT_ALIGNMENT_SHIFT \in Nat
  BY DEF DMA_DEFAULT_MASK, DMA_DEFAULT_ALIGNMENT_SHIFT
<1>2. /\ Value(PROM_DMA_MASK_TAG, DMA_DEFAULT_MASK) = First("mask", DMA_DEFAULT_MASK)
      /\ Value(PROM_DMA_MASK_TAG, DMA_DEFAULT_MASK) \in Nat
  BY <1>1, ValueRead, Zenon
<1>3. /\ Value(PROM_DMA_ALIGN_TAG, DMA_DEFAULT_ALIGNMENT_SHIFT)
           = First("align", DMA_DEFAULT_ALIGNMENT_SHIFT)
      /\ Value(PROM_DMA_ALIGN_TAG, DMA_DEFAULT_ALIGNMENT_SHIFT) \in Nat
  BY <1>1, ValueRead, Zenon
<1>4. /\ DmaSettings \in [mask : Nat, shift : Nat]
      /\ DmaSettings.mask = Value(PROM_DMA_MASK_TAG, DMA_DEFAULT_MASK)
      /\ DmaSettings.shift = Value(PROM_DMA_ALIGN_TAG, DMA_DEFAULT_ALIGNMENT_SHIFT)
  BY <1>2, <1>3 DEF DmaSettings
<1>5. DmaSettings # None
  BY <1>4, NoneAssumption
<1>6. ASSUME NEW k \in DOMAIN Entries(config), Entries(config)[k].field = "dma"
      PROVE  dma_nentries # 0
  <2> DEFINE D == {j \in 1 .. Len(seen) : IsDma(seen[j])}
  <2>1. k \in 1 .. Len(Entries(config)) /\ Len(seen) = Len(Entries(config)) /\ Len(Entries(config)) \in Nat
    BY LinesMet, Zenon
  <2>2. k \in D
    <3>1. IsDma(seen[k])
      BY <1>6, <2>1, LineMet, Zenon
    <3> QED
      BY <2>1, <3>1
  <2>3. dma_nentries = Cardinality(D)
    BY Zenon DEF IInv, AcceptInv, Counted, AreasAmong
  <2>4. IsFiniteSet(D)
    <3>1. IsFiniteSet(1 .. Len(seen)) /\ D \subseteq 1 .. Len(seen)
      BY <2>1, FS_Interval
    <3> QED
      BY <3>1, FS_Subset, Zenon
  <2> HIDE DEF D
  <2> QED
    BY <2>2, <2>3, <2>4, FS_EmptySet
<1> QED
  BY <1>2, <1>3, <1>4, <1>5, <1>6, Zenon

\* What a file says does not change.
LEMMA SameLines ==
    ASSUME config' = config
    PROVE  /\ First("mask", DMA_DEFAULT_MASK)' = First("mask", DMA_DEFAULT_MASK)
           /\ First("align", DMA_DEFAULT_ALIGNMENT_SHIFT)'
                = First("align", DMA_DEFAULT_ALIGNMENT_SHIFT)
BY DEF First, Entries, DMA_DEFAULT_MASK, DMA_DEFAULT_ALIGNMENT_SHIFT

\* The settings stay as initialise_board made them.
LEMMA SettingsKeep ==
    ASSUME IInv, ImageInv, OutcomeInv, SettingsInv, [Next]_vars
    PROVE  SettingsInv'
<1> DEFINE late == {"cdev", "nodes", "failed", "bound", "removed"}
<1>1. CASE initialise_board
  <2>1. UNCHANGED <<config, file>> /\ pc = "loaded" /\ pc' \in {"E2BIG", "cdev"}
    BY <1>1 DEF initialise_board, promVars, nodeVars
  <2>2. file' = None
    BY <2>1 DEF SettingsInv
  <2>3. /\ First("mask", DMA_DEFAULT_MASK)' = First("mask", DMA_DEFAULT_MASK)
        /\ First("align", DMA_DEFAULT_ALIGNMENT_SHIFT)'
             = First("align", DMA_DEFAULT_ALIGNMENT_SHIFT)
    BY <2>1, SameLines
  <2>4. ASSUME WellFormed(config'), pc' = "cdev"
        PROVE  /\ dma' # None =>
                    /\ dma'.mask = First("mask", DMA_DEFAULT_MASK)
                    /\ dma'.shift = First("align", DMA_DEFAULT_ALIGNMENT_SHIFT)
               /\ \A k \in DOMAIN Entries(config) : Entries(config)[k].field = "dma" => dma' # None
    <3>1. dma' = IF dma_nentries = 0 THEN None ELSE DmaSettings
      BY <1>1, <2>4 DEF initialise_board
    <3>2. WellFormed(config) /\ pc \in Accepted
      BY <2>1, <2>4 DEF Accepted
    <3> QED
      BY <3>1, <3>2, SettingsRead, Zenon
  <2>5. pc' \in late => pc' = "cdev"
    BY <2>1
  <2>6. config' = config
    BY <2>1
  <2> QED
    BY <2>2, <2>3, <2>4, <2>5, <2>6, Zenon DEF SettingsInv
<1>2. CASE /\ UNCHANGED <<config, dma>> /\ (pc' \in late => pc \in late)
           /\ file' # None => pc' \in {"bound", "removed"}
  <2>1. config' = config /\ dma' = dma
    BY <1>2
  <2>2. /\ First("mask", DMA_DEFAULT_MASK)' = First("mask", DMA_DEFAULT_MASK)
        /\ First("align", DMA_DEFAULT_ALIGNMENT_SHIFT)'
             = First("align", DMA_DEFAULT_ALIGNMENT_SHIFT)
    BY <2>1, SameLines
  <2> QED
    BY <1>2, <2>1, <2>2, Zenon DEF SettingsInv
<1>3. ASSUME ~ initialise_board
      PROVE  /\ UNCHANGED <<config, dma>> /\ (pc' \in late => pc \in late)
             /\ file' # None => pc' \in {"bound", "removed"}
  <2>1. CASE UNCHANGED vars
    BY <2>1 DEF vars, SettingsInv
  <2>2. CASE Damage
    BY <2>2 DEF Damage, nodeVars, SettingsInv
  <2>3. CASE load_prom
    BY <2>3 DEF load_prom, promVars, nodeVars, SettingsInv
  <2>4. CASE scan_entry
    BY <2>4 DEF scan_entry, promVars, nodeVars, SettingsInv
  <2>5. CASE scan_end
    BY <2>5 DEF scan_end, promVars, nodeVars, SettingsInv
  <2>6. CASE create_device_nodes
    BY <2>6 DEF create_device_nodes, promVars, nodeVars, SettingsInv
  <2>7. CASE device_create
    BY <2>7 DEF device_create, promVars, SettingsInv
  <2>8. CASE nodes_created
    BY <2>8 DEF nodes_created, promVars, nodeVars, SettingsInv
  <2>9. CASE destroy_device_nodes
    BY <2>9 DEF destroy_device_nodes, promVars, SettingsInv
  <2>10. CASE \E minor \in 0 .. MAX_MINORS_PER_BOARD - 1 :
                \E mode \in Modes : amc_pci_open(minor, mode)
    <3>1. PICK minor, mode : amc_pci_open(minor, mode)
      BY <2>10
    <3> QED
      BY <3>1 DEF amc_pci_open, promVars
  <2> QED
    BY <1>3, <2>1, <2>2, <2>3, <2>4, <2>5, <2>6, <2>7, <2>8, <2>9, <2>10 DEF Next
<1> QED
  BY <1>1, <1>2, <1>3

-----------------------------------------------------------------------------
(* What open() gets. *)

\* The line of a minor is that of the entry which has it.
LEMMA LineOfMinor ==
    ASSUME IInv, ImageInv, OutcomeInv, WellFormed(config), pc \in Accepted,
           NEW j \in DOMAIN prom_for_each_entry,
           prom_entry_needs_minor(prom_for_each_entry[j])
    PROVE  LineOf(MinorsAmong(prom_for_each_entry, j - 1)) = Entries(config)[j]
<1> DEFINE seen == prom_for_each_entry
           minor == MinorsAmong(seen, j - 1)
           P(k) == /\ Describes(Entries(config)[k])
                   /\ Cardinality({i \in 1 .. k - 1 : Describes(Entries(config)[i])}) = minor
<1>1. /\ IsProm(prom) /\ DOMAIN seen = DOMAIN Entries(config) /\ DOMAIN Entries(config) = 1 .. Len(Entries(config))
      /\ Len(Entries(config)) \in Nat
  BY LinesMet, Zenon
<1>2. \A k \in DOMAIN Entries(config) : prom_entry_needs_minor(seen[k]) <=> Describes(Entries(config)[k])
  BY <1>1, LineMet, Zenon
<1>3. ASSUME NEW k \in DOMAIN Entries(config)
      PROVE  Cardinality({i \in 1 .. k - 1 : Describes(Entries(config)[i])}) = MinorsAmong(seen, k - 1)
  <2>1. \A i \in 1 .. k - 1 : i \in DOMAIN Entries(config)
    BY <1>1
  <2>2. {i \in 1 .. k - 1 : Describes(Entries(config)[i])}
          = {i \in 1 .. k - 1 : prom_entry_needs_minor(seen[i])}
    BY <1>2, <2>1
  <2> QED
    BY <2>2, Zenon DEF MinorsAmong
<1>4. P(j) /\ j \in DOMAIN Entries(config)
  BY <1>1, <1>2, <1>3, Zenon
<1>5. ASSUME NEW k \in DOMAIN Entries(config), P(k)
      PROVE  k = j
  <2>1. /\ k \in DOMAIN seen /\ prom_entry_needs_minor(seen[k])
        /\ MinorsAmong(seen, k - 1) = MinorsAmong(seen, j - 1)
    BY <1>1, <1>2, <1>3, <1>5, Zenon
  <2> QED
    BY <1>1, <2>1, MinorOnce, Zenon
<1>6. LineOf(minor) = Entries(config)[CHOOSE k \in DOMAIN Entries(config) : P(k)]
  BY Zenon DEF LineOf
<1> HIDE DEF P
<1>7. (CHOOSE k \in DOMAIN Entries(config) : P(k)) = j
  BY <1>4, <1>5, Zenon
<1> QED
  BY <1>6, <1>7, Zenon

\* A node is opened as its line says.
LEMMA OpenKeeps ==
    ASSUME IInv, ImageInv, OutcomeInv, SettingsInv,
           NEW minor \in 0 .. MAX_MINORS_PER_BOARD - 1, NEW mode \in Modes,
           amc_pci_open(minor, mode)
    PROVE  OpensAsConfigured'
<1> DEFINE seen == prom_for_each_entry
           l == LineOf(minor)
           e == prom_find_entry_with_minor(minor)
<1>1. pc = "bound" /\ minor < nentries_with_minor /\ UNCHANGED <<config, damaged, dma>>
  BY DEF amc_pci_open, promVars
<1>2. /\ file'.minor = minor /\ file'.mode = mode
      /\ file'.got = CASE e = None -> <<"EINVAL">>
                       [] tag(e) = PROM_DEVICE_TAG -> <<"reg">>
                       [] IsDma(e) ->
                             IF validate_file_permission(mode, Fields(e).perm)
                             THEN <<"area", Fields(e).base, Fields(e).length>>
                             ELSE <<"EACCES">>
  BY DEF amc_pci_open
<1> SUFFICES ASSUME WellFormed(config)
             PROVE  OpensAsConfigured'
  BY <1>1 DEF OpensAsConfigured
<1>3. pc \in Accepted /\ IsProm(prom)
  BY <1>1 DEF Accepted, IInv, PromInv
<1>4. PICK j \in DOMAIN seen : prom_entry_needs_minor(seen[j]) /\ MinorsAmong(seen, j - 1) = minor
  <2>1. Len(nodes) = MinorsAmong(seen, Len(seen))
    BY <1>1 DEF IInv, NodesInv, NodesUpTo
  <2>2. nentries = Len(seen) /\ Counted
    BY <1>3 DEF IInv, AcceptInv
  <2>3. Len(nodes) = nentries_with_minor
    BY <2>1, <2>2 DEF Counted
  <2>4. Len(nodes) \in Nat /\ minor \in Nat
    BY LenProperties, PromAssumption DEF IInv, NodeList
  <2>5. minor + 1 \in 1 .. Len(nodes) /\ (minor + 1) - 1 = minor
    BY <1>1, <2>3, <2>4
  <2>6. NodeOf(minor + 1)
    BY <2>5, Zenon DEF IInv, NodeList
  <2> QED
    BY <2>5, <2>6, Zenon DEF NodeOf
<1>5. e = seen[j]
  BY <1>3, <1>4, MinorFound, Zenon
<1>6. l = Entries(config)[j]
  BY <1>3, <1>4, LineOfMinor, Zenon
<1>7. j \in DOMAIN Entries(config) /\ j \in 1 .. Len(Entries(config))
  BY <1>3, LinesMet, Zenon
<1>8. /\ l \in EntryLines /\ e \in Nat /\ Fields(e) = Meaning(l)
      /\ IsDma(e) <=> l.field = "dma"
      /\ tag(e) = PROM_DEVICE_TAG <=> l.field = "name"
      /\ Describes(l)
  BY <1>3, <1>4, <1>5, <1>6, <1>7, LineMet, Zenon
<1>9. l' = l
  BY <1>1, Zenon DEF LineOf, Describes, Entries
<1>10. e # None
  BY <1>8, NoneAssumption
<1> HIDE DEF e, l
<1>11. file'.got = IF l.field = "name" THEN <<"reg">>
                   ELSE IF mode \subseteq Rights(l.perm)
                   THEN <<"area", l.base, l.length>> ELSE <<"EACCES">>
  <2>1. CASE l.field = "name"
    BY <1>2, <1>8, <1>10, <2>1
  <2>2. CASE l.field = "dma"
    <3>1. tag(e) # PROM_DEVICE_TAG /\ IsDma(e) /\ l.field # "name"
      BY <1>8, <2>2
    <3>2. /\ Fields(e).perm = Rights(l.perm)
          /\ Fields(e).base = l.base /\ Fields(e).length = l.length
      <4>1. Fields(e) = [field |-> "dma", base |-> l.base, length |-> l.length,
                         perm |-> Rights(l.perm), name |-> encode(l.name)]
        BY <1>8, <2>2, LineRecord DEF EntryLines
      <4> QED
        BY <4>1
    <3> QED
      BY <1>2, <1>10, <3>1, <3>2 DEF validate_file_permission
  <2> QED
    BY <1>8, <2>1, <2>2 DEF Describes
<1>12. /\ dma # None => /\ dma.mask = First("mask", DMA_DEFAULT_MASK)
                        /\ dma.shift = First("align", DMA_DEFAULT_ALIGNMENT_SHIFT)
       /\ l.field = "dma" => dma # None
  BY <1>1, <1>6, <1>7, Zenon DEF SettingsInv
<1>13. /\ First("mask", DMA_DEFAULT_MASK)' = First("mask", DMA_DEFAULT_MASK)
       /\ First("align", DMA_DEFAULT_ALIGNMENT_SHIFT)'
            = First("align", DMA_DEFAULT_ALIGNMENT_SHIFT)
  BY <1>1, SameLines
<1>14. LineOf(file.minor)' = l
  BY <1>2, <1>9, Zenon DEF l, LineOf, Entries
<1>15. dma' = dma
  BY <1>1
<1> QED
  BY <1>15, <1>2, <1>11, <1>12, <1>13, <1>14, Zenon DEF OpensAsConfigured

\* No other step changes what an open file is measured against.
LEMMA OpensKeep ==
    ASSUME IInv, ImageInv, OutcomeInv, SettingsInv, OpensAsConfigured, [Next]_vars
    PROVE  OpensAsConfigured'
<1>1. CASE \E minor \in 0 .. MAX_MINORS_PER_BOARD - 1 :
             \E mode \in Modes : amc_pci_open(minor, mode)
  BY <1>1, OpenKeeps
<1>2. CASE file' = None
  BY <1>2 DEF OpensAsConfigured
<1>3. CASE UNCHANGED <<file, config, damaged, dma>>
  <2>1. file' = file /\ config' = config /\ damaged' = damaged /\ dma' = dma
    BY <1>3
  <2>2. /\ First("mask", DMA_DEFAULT_MASK)' = First("mask", DMA_DEFAULT_MASK)
        /\ First("align", DMA_DEFAULT_ALIGNMENT_SHIFT)'
             = First("align", DMA_DEFAULT_ALIGNMENT_SHIFT)
    BY <2>1, SameLines
  <2>3. LineOf(file.minor)' = LineOf(file.minor)
    BY <2>1, Zenon DEF LineOf, Describes, Entries
  <2> QED
    BY <2>1, <2>2, <2>3, Zenon DEF OpensAsConfigured
<1>4. CASE Damage \/ initialise_board
  <2>1. pc \in {"load", "loaded"} /\ file' = file
    BY <1>4 DEF Damage, initialise_board, nodeVars
  <2>2. file' = None
    BY <2>1 DEF SettingsInv
  <2> QED
    BY <1>2, <2>2
<1>5. \/ \E minor \in 0 .. MAX_MINORS_PER_BOARD - 1 :
           \E mode \in Modes : amc_pci_open(minor, mode)
      \/ Damage \/ initialise_board \/ UNCHANGED <<file, config, damaged, dma>>
  BY DEF Next, vars, load_prom, scan_entry, scan_end, create_device_nodes,
     device_create, nodes_created, destroy_device_nodes, promVars, nodeVars
<1> QED
  BY <1>1, <1>3, <1>4, <1>5

\* From the configuration file to open(): a node is opened as the area of its
\* line, with its base and length and no right its line does not give, and
\* the engine has the first mask and alignment of the file.
THEOREM OpensRight == Spec => []OpensAsConfigured
<1> DEFINE Inv == IInv /\ ConfigInv
<1>1. Init => Inv
  <2> SUFFICES ASSUME Init PROVE Inv
    OBVIOUS
  <2>1. IInv /\ ImageInv /\ OutcomeInv
    BY InitIInv, InitImage
  <2>2. pc = "load" /\ file = None
    BY DEF Init
  <2>3. SettingsInv /\ OpensAsConfigured
    BY <2>2 DEF SettingsInv, OpensAsConfigured
  <2> QED
    BY <2>1, <2>3 DEF ConfigInv
<1>2. Inv /\ [Next]_vars => Inv'
  BY NextIInv, ImageKeeps, OutcomeKeeps, SettingsKeep, OpensKeep DEF ConfigInv
<1>3. Inv => OpensAsConfigured
  BY DEF ConfigInv
<1> QED
  BY <1>1, <1>2, <1>3, PTL DEF Spec
=============================================================================

-------------------------- MODULE PromImageProofs ---------------------------
(***************************************************************************)
(* The image the creator writes: where its entries are, that load_prom     *)
(* walks over just those, and that its checksum accepts the image if and   *)
(* only if no byte of it has changed.                                      *)
(***************************************************************************)
EXTENDS PromLoadProofs

-----------------------------------------------------------------------------
(* Division. *)

\* What division gives back.
LEMMA DivideBack ==
    ASSUME NEW x \in Int, NEW d \in Nat \ {0}
    PROVE  x = d * (x \div d) + (x % d) /\ x % d \in 0 .. d - 1 /\ x \div d \in Int
OBVIOUS

\* There is only one way to divide.
LEMMA DivideOnce ==
    ASSUME NEW d \in Nat \ {0}, NEW q \in Int, NEW r \in 0 .. d - 1,
           NEW p \in Int, NEW s \in 0 .. d - 1, d * q + r = d * p + s
    PROVE  q = p /\ r = s
<1>1. d * (q - p) = s - r
  OBVIOUS
<1>2. CASE q - p >= 1
  <2>1. d * (q - p) >= d
    BY <1>2
  <2> QED
    BY <1>1, <2>1
<1>3. CASE q - p <= -1
  <2>1. d * (q - p) <= -d
    BY <1>3
  <2> QED
    BY <1>1, <2>1
<1> QED
  BY <1>1, <1>2, <1>3

\* So a quotient is known from what it gives back.
LEMMA QuotientIs ==
    ASSUME NEW d \in Nat \ {0}, NEW q \in Int, NEW r \in 0 .. d - 1
    PROVE  (d * q + r) \div d = q /\ (d * q + r) % d = r
<1> DEFINE x == d * q + r
<1>1. x \in Int
  OBVIOUS
<1>2. x = d * (x \div d) + (x % d) /\ x % d \in 0 .. d - 1 /\ x \div d \in Int
  BY <1>1, DivideBack
<1> HIDE DEF x
<1>3. d * (x \div d) + (x % d) = d * q + r
  BY <1>2 DEF x
<1>4. x \div d = q /\ x % d = r
  BY <1>2, <1>3, DivideOnce
<1> QED
  BY <1>4 DEF x

\* The number of values of a word.
LEMMA WordFacts == /\ Radix \in Nat /\ Radix > 7 /\ Word \in Nat /\ Word = Radix * Radix
                   /\ Word > Radix /\ Word > 7
<1>1. Radix \in Nat /\ Radix > 7 /\ Word = Radix * Radix
  BY PromAssumption DEF Word
<1> QED
  BY <1>1

-----------------------------------------------------------------------------
(* The checksum, modulo Word - 1. *)

\* A fold takes away a multiple of Word - 1.
LEMMA FoldOnce ==
    ASSUME NEW x \in Nat
    PROVE  /\ x \div Word \in Nat /\ x % Word \in 0 .. Word - 1
           /\ Fold(x) = (x % Word) + (x \div Word)
           /\ x = Word * (x \div Word) + (x % Word)
           /\ Fold(x) \in Nat /\ x = (x \div Word) * (Word - 1) + Fold(x)
           /\ x > 0 => Fold(x) > 0
<1> DEFINE q == x \div Word
           r == x % Word
<1>1. x = Word * q + r /\ r \in 0 .. Word - 1 /\ q \in Int /\ Word \in Nat /\ Word > 0
  <2>1. Word \in Nat \ {0}
    BY WordFacts
  <2> QED
    BY <2>1, DivideBack
<1>2. Fold(x) = r + q
  BY DEF Fold
<1> HIDE DEF q, r
<1>3. q >= 0
  <2>1. ASSUME q <= -1 PROVE FALSE
    <3>1. Word * q <= -Word
      BY <1>1, <2>1
    <3> QED
      BY <1>1, <3>1
  <2> QED
    BY <1>1, <2>1
<1>4. q * (Word - 1) = Word * q - q
  BY <1>1
<1>5. Fold(x) \in Nat /\ x = q * (Word - 1) + Fold(x)
  BY <1>1, <1>2, <1>3, <1>4
<1>6. x > 0 => Fold(x) > 0
  <2> SUFFICES ASSUME q = 0, r = 0 PROVE x = 0
    BY <1>1, <1>2, <1>3
  <2> QED
    BY <1>1
<1> QED
  BY <1>1, <1>2, <1>3, <1>5, <1>6 DEF q, r

\* Two folds make a word of a sum of fewer words than a word has values.
LEMMA FoldTwice ==
    ASSUME NEW x \in Nat, x < Word * Word
    PROVE  /\ Fold(Fold(x)) \in 0 .. Word - 1
           /\ x > 0 => Fold(Fold(x)) > 0
           /\ \E q \in Nat : x = q * (Word - 1) + Fold(Fold(x))
<1> DEFINE y == Fold(x)
           z == Fold(y)
<1>0. Word \in Nat /\ Word > 1
  BY WordFacts
<1>1. /\ x \div Word \in Nat /\ x % Word \in 0 .. Word - 1
      /\ y = (x % Word) + (x \div Word)
      /\ x = Word * (x \div Word) + (x % Word)
      /\ y \in Nat /\ x = (x \div Word) * (Word - 1) + y
      /\ x > 0 => y > 0
  BY FoldOnce
<1>2. x \div Word <= Word - 1
  <2> DEFINE q == x \div Word
  <2>1. ASSUME q >= Word PROVE FALSE
    <3>1. Word * q >= Word * Word
      BY <1>0, <1>1, <2>1
    <3> QED
      BY <1>0, <1>1, <3>1
  <2> QED
    BY <1>0, <1>1, <2>1
<1>3. y <= 2 * Word - 2
  BY <1>0, <1>1, <1>2
<1> HIDE DEF y
<1>4. /\ y \div Word \in Nat /\ y % Word \in 0 .. Word - 1
      /\ z = (y % Word) + (y \div Word)
      /\ y = Word * (y \div Word) + (y % Word)
      /\ z \in Nat /\ y = (y \div Word) * (Word - 1) + z
      /\ y > 0 => z > 0
  BY <1>1, FoldOnce
<1>5. z <= Word - 1
  <2> DEFINE q == y \div Word
             r == y % Word
  <2>0. q \in Nat /\ r \in 0 .. Word - 1 /\ y = Word * q + r /\ z = r + q
    BY <1>4
  <2> HIDE DEF q, r
  <2>1. q <= 1
    <3>1. ASSUME q >= 2 PROVE FALSE
      <4>1. Word * q >= Word * 2
        BY <1>0, <2>0, <3>1
      <4> QED
        BY <1>0, <1>3, <2>0, <4>1
    <3> QED
      BY <2>0, <3>1
  <2>2. CASE q = 0
    BY <1>0, <2>0, <2>2
  <2>3. CASE q = 1
    <3>1. Word * q = Word
      BY <1>0, <2>3
    <3>2. r <= Word - 2
      BY <1>0, <1>3, <2>0, <3>1
    <3> QED
      BY <1>0, <2>0, <2>3, <3>2
  <2> QED
    BY <2>0, <2>1, <2>2, <2>3
<1> HIDE DEF z
<1>6. x = ((x \div Word) + (y \div Word)) * (Word - 1) + z
  <2> DEFINE a == x \div Word
             b == y \div Word
             d == Word - 1
  <2>1. a \in Nat /\ b \in Nat /\ d \in Nat /\ x = a * d + y /\ y = b * d + z
    BY <1>0, <1>1, <1>4
  <2> HIDE DEF a, b, d
  <2>2. (a + b) * d = a * d + b * d /\ a * d \in Nat /\ b * d \in Nat
    BY <2>1
  <2>3. x = (a + b) * d + z
    BY <1>4, <2>1, <2>2
  <2> QED
    BY <2>3 DEF a, b, d
<1>7. (x \div Word) + (y \div Word) \in Nat
  BY <1>1, <1>4
<1>8. z \in 0 .. Word - 1 /\ (x > 0 => z > 0) /\ \E q \in Nat : x = q * (Word - 1) + z
  <2>1. z \in 0 .. Word - 1 /\ (x > 0 => z > 0)
    BY <1>0, <1>1, <1>4, <1>5
  <2>2. \E q \in Nat : x = q * (Word - 1) + z
    BY <1>6, <1>7, Zenon
  <2> QED
    BY <2>1, <2>2
<1> QED
  BY <1>8 DEF z, y

\* The checksum of a sum is zero just when the sum is a multiple of Word - 1.
LEMMA ZeroChecksum ==
    ASSUME NEW x \in Nat, x < Word * Word
    PROVE  /\ Word - 1 - Fold(Fold(x)) = 0 => \E q \in Nat : x = q * (Word - 1)
           /\ (\E q \in Nat : x = q * (Word - 1)) /\ x > 0
                => Word - 1 - Fold(Fold(x)) = 0
<1> DEFINE z == Fold(Fold(x))
           d == Word - 1
<1>1. Word \in Nat /\ d \in Nat \ {0}
  BY WordFacts
<1>2. z \in 0 .. d /\ (x > 0 => z > 0)
  BY FoldTwice
<1>3. PICK q \in Nat : x = q * d + z
  BY FoldTwice
<1> HIDE DEF z
<1>4. ASSUME Word - 1 - z = 0
      PROVE  \E p \in Nat : x = p * d
  <2>1. z = d
    BY <1>1, <1>2, <1>4
  <2> HIDE DEF d
  <2>2. (q + 1) * d = q * d + d
    BY <1>1
  <2>3. x = (q + 1) * d /\ q + 1 \in Nat
    BY <1>3, <2>1, <2>2
  <2> QED
    BY <2>3
<1>5. ASSUME NEW p \in Nat, x = p * d, x > 0
      PROVE  Word - 1 - z = 0
  <2>1. ASSUME z # d PROVE FALSE
    <3> HIDE DEF d
    <3>1. z \in 0 .. d - 1 /\ 0 \in 0 .. d - 1 /\ z > 0
      BY <1>1, <1>2, <1>5, <2>1
    <3>2. d * q + z = d * p + 0
      BY <1>1, <1>3, <1>5, <3>1
    <3>3. z = 0
      BY <1>1, <3>1, <3>2, DivideOnce
    <3> QED
      BY <3>1, <3>3
  <2> QED
    BY <1>1, <2>1
<1> QED
  BY <1>4, <1>5 DEF z

\* g[i] is the sum of the first i words of the bytes b, up to the h-th.
Sums(b, h, g) ==
    /\ g[0] = 0
    /\ \A i \in 0 .. h : g[i] \in Nat
    /\ \A i \in 1 .. h : /\ b[2*i - 2] \in Bytes /\ b[2*i - 1] \in Bytes
                         /\ g[i] = b[2*i - 2] + Radix * b[2*i - 1] + g[i - 1]

\* The checksum of an even number of bytes is that of the sum of its words.
LEMMA EvenChecksum ==
    ASSUME NEW h \in Nat, NEW b, \A i \in 0 .. 2*h - 1 : b[i] \in Bytes
    PROVE  \E g : Sums(b, h, g) /\ calc_checksum16(b, 2*h) = Word - 1 - Fold(Fold(g[h]))
<1>1. 2*h \in Nat /\ (2*h) \div 2 = h /\ (2*h) % 2 = 0
  OBVIOUS
<1>2. PICK g : /\ \A i \in 0 .. (2*h) \div 2 : g[i] \in Nat
               /\ g[0] = IF (2*h) % 2 = 1 THEN Radix * b[2*h - 1] ELSE 0
               /\ \A i \in 1 .. (2*h) \div 2 :
                    g[i] = b[2*i - 2] + Radix * b[2*i - 1] + g[i - 1]
               /\ calc_checksum16(b, 2*h) = Word - 1 - Fold(Fold(g[(2*h) \div 2]))
  BY <1>1, ChecksumSum, Zenon
<1>3. \A i \in 1 .. h : 2*i - 2 \in 0 .. 2*h - 1 /\ 2*i - 1 \in 0 .. 2*h - 1
  OBVIOUS
<1>4. g[0] = 0
  BY <1>1, <1>2
<1>5. Sums(b, h, g)
  BY <1>1, <1>2, <1>3, <1>4, Zenon DEF Sums
<1> QED
  BY <1>1, <1>2, <1>5, Zenon

\* A word is less than Word.
LEMMA WordBound ==
    ASSUME NEW a \in Bytes, NEW b \in Bytes
    PROVE  /\ a \in Nat /\ b \in Nat /\ a < Radix /\ b < Radix
           /\ Radix * b \in Nat /\ a + Radix * b <= Word - 1
<1>1. Radix \in Nat /\ Radix > 7 /\ Word = Radix * Radix
  BY WordFacts
<1>2. a \in 0 .. Radix - 1 /\ b \in 0 .. Radix - 1
  BY DEF Bytes
<1>3. Radix * b <= Radix * (Radix - 1)
  BY <1>1, <1>2
<1>4. Radix * (Radix - 1) = Radix * Radix - Radix
  BY <1>1
<1>5. Radix * b \in Nat /\ Radix * Radix \in Nat
  BY <1>1, <1>2
<1> QED
  BY <1>1, <1>2, <1>3, <1>4, <1>5

\* So a sum of fewer than Word words takes two folds.
LEMMA SumBound ==
    ASSUME NEW h \in Nat, NEW b, NEW g, Sums(b, h, g), h <= Word
    PROVE  \A i \in 0 .. h : g[i] \in Nat /\ g[i] < Word * Word
<1> DEFINE d == Word - 1
           T == {i \in 0 .. h : g[i] <= i * d}
<1>1. Word \in Nat /\ Word > 0 /\ d \in Nat /\ d > 0
  BY WordFacts
<1>2. 0 \in T
  BY <1>1 DEF Sums
<1>3. ASSUME NEW i \in 1 .. h, i - 1 \in T
      PROVE  i \in T
  <2>1. /\ b[2*i - 2] \in Bytes /\ b[2*i - 1] \in Bytes
        /\ g[i] = b[2*i - 2] + Radix * b[2*i - 1] + g[i - 1]
    BY DEF Sums
  <2>2. /\ b[2*i - 2] \in Nat /\ Radix * b[2*i - 1] \in Nat
        /\ b[2*i - 2] + Radix * b[2*i - 1] <= d
    BY <2>1, WordBound
  <2>3. g[i - 1] <= (i - 1) * d /\ g[i - 1] \in Nat
    BY <1>3 DEF Sums
  <2> HIDE DEF d
  <2>4. (i - 1) * d = i * d - d /\ i * d \in Nat
    BY <1>1
  <2>5. g[i] <= i * d
    BY <1>1, <2>1, <2>2, <2>3, <2>4
  <2> QED
    BY <2>5
<1>4. \A i \in 0 .. h : i \in T
  <2> HIDE DEF T
  <2> QED
    BY <1>2, <1>3, Induction
<1>5. ASSUME NEW i \in 0 .. h
      PROVE  g[i] \in Nat /\ g[i] < Word * Word
  <2>1. g[i] \in Nat /\ g[i] <= i * d
    BY <1>4 DEF Sums
  <2>2. i <= Word /\ i \in Nat
    BY <1>1
  <2>3. i * d <= Word * d
    <3> HIDE DEF d
    <3> QED
      BY <1>1, <2>2
  <2>4. Word * d = Word * Word - Word /\ Word * Word \in Nat /\ i * d \in Nat
    BY <1>1, <2>2
  <2> HIDE DEF d
  <2> QED
    BY <1>1, <2>1, <2>3, <2>4
<1> QED
  BY <1>5

\* The same words have the same sum.
LEMMA SumsAgree ==
    ASSUME NEW h \in Nat, NEW a, NEW b, NEW f, NEW g, Sums(a, h, f), Sums(b, h, g),
           \A i \in 0 .. 2*h - 1 : a[i] = b[i]
    PROVE  f[h] = g[h]
<1> DEFINE T == {i \in 0 .. h : f[i] = g[i]}
<1>1. 0 \in T
  BY DEF Sums
<1>2. ASSUME NEW i \in 1 .. h, i - 1 \in T
      PROVE  i \in T
  <2>1. 2*i - 2 \in 0 .. 2*h - 1 /\ 2*i - 1 \in 0 .. 2*h - 1
    OBVIOUS
  <2>2. a[2*i - 2] = b[2*i - 2] /\ a[2*i - 1] = b[2*i - 1] /\ f[i - 1] = g[i - 1]
    BY <1>2, <2>1
  <2>3. f[i] = g[i]
    BY <2>2, Zenon DEF Sums
  <2>4. i \in 0 .. h
    OBVIOUS
  <2> QED
    BY <2>3, <2>4
<1>3. \A i \in 0 .. h : i \in T
  <2> HIDE DEF T
  <2> QED
    BY <1>1, <1>2, Induction
<1> QED
  BY <1>3

\* One byte that differs makes the sum differ, by less than Word - 1.
LEMMA SumsDiffer ==
    ASSUME NEW h \in Nat, NEW a, NEW b, NEW f, NEW g, Sums(a, h, f), Sums(b, h, g),
           NEW j \in 0 .. 2*h - 1, a[j] # b[j],
           \A i \in (0 .. 2*h - 1) \ {j} : a[i] = b[i]
    PROVE  f[h] # g[h] /\ f[h] - g[h] < Word - 1 /\ g[h] - f[h] < Word - 1
<1> DEFINE w == (j \div 2) + 1
           D == (a[2*w - 2] + Radix * a[2*w - 1]) - (b[2*w - 2] + Radix * b[2*w - 1])
           T == {i \in 0 .. h : f[i] = IF i < w THEN g[i] ELSE g[i] + D}
<1>1. w \in 1 .. h /\ (j = 2*w - 2 \/ j = 2*w - 1)
  OBVIOUS
<1> HIDE DEF w
<1>2. \A i \in 1 .. h : /\ a[2*i - 2] \in Bytes /\ a[2*i - 1] \in Bytes
                        /\ b[2*i - 2] \in Bytes /\ b[2*i - 1] \in Bytes
                        /\ f[i] = a[2*i - 2] + Radix * a[2*i - 1] + f[i - 1]
                        /\ g[i] = b[2*i - 2] + Radix * b[2*i - 1] + g[i - 1]
                        /\ f[i - 1] \in Nat /\ g[i - 1] \in Nat
  BY DEF Sums
<1>3. D # 0 /\ D \in Int /\ D < Word - 1 /\ -D < Word - 1
  <2> DEFINE p == a[2*w - 2]
             q == a[2*w - 1]
             r == b[2*w - 2]
             s == b[2*w - 1]
  <2>1. p \in Bytes /\ q \in Bytes /\ r \in Bytes /\ s \in Bytes
    BY <1>1, <1>2
  <2>2. (p # r /\ q = s) \/ (p = r /\ q # s)
    <3>1. 2*w - 2 \in 0 .. 2*h - 1 /\ 2*w - 1 \in 0 .. 2*h - 1 /\ 2*w - 2 # 2*w - 1
      BY <1>1
    <3>2. CASE j = 2*w - 2
      <4>1. 2*w - 1 \in (0 .. 2*h - 1) \ {j}
        BY <3>1, <3>2
      <4>2. a[2*w - 1] = b[2*w - 1]
        BY <4>1
      <4>3. a[2*w - 2] # b[2*w - 2]
        BY <3>2
      <4> QED
        BY <4>2, <4>3
    <3>3. CASE j = 2*w - 1
      <4>1. 2*w - 2 \in (0 .. 2*h - 1) \ {j}
        BY <3>1, <3>3
      <4>2. a[2*w - 2] = b[2*w - 2]
        BY <4>1
      <4>3. a[2*w - 1] # b[2*w - 1]
        BY <3>3
      <4> QED
        BY <4>2, <4>3
    <3> QED
      BY <1>1, <3>2, <3>3
  <2>3. D = (p + Radix * q) - (r + Radix * s)
    OBVIOUS
  <2> HIDE DEF p, q, r, s, D
  <2>4. Radix \in Nat /\ Radix > 7 /\ Word = Radix * Radix /\ Word \in Nat /\ Word > Radix
    BY WordFacts
  <2>5. p \in 0 .. Radix - 1 /\ q \in 0 .. Radix - 1 /\ r \in 0 .. Radix - 1 /\ s \in 0 .. Radix - 1
    BY <2>1 DEF Bytes
  <2>6. CASE p # r /\ q = s
    <3>1. D = p - r
      BY <2>3, <2>4, <2>5, <2>6
    <3> QED
      BY <2>4, <2>5, <2>6, <3>1
  <2>7. CASE p = r /\ q # s
    <3>1. D = Radix * (q - s) /\ q - s \in Int /\ q - s # 0
      BY <2>3, <2>4, <2>5, <2>7
    <3>2. q - s <= Radix - 1 /\ q - s >= -(Radix - 1)
      BY <2>4, <2>5
    <3> DEFINE u == q - s
    <3>3. u \in Int /\ u # 0 /\ D = Radix * u /\ u <= Radix - 1 /\ u >= -(Radix - 1)
      BY <3>1, <3>2
    <3> HIDE DEF u
    <3>4. Radix * (Radix - 1) = Word - Radix
      BY <2>4
    <3>5. Radix * u <= Radix * (Radix - 1) /\ Radix * u >= - (Radix * (Radix - 1))
      BY <2>4, <3>3
    <3>6. Radix * u # 0 /\ Radix * u \in Int
      BY <2>4, <3>3
    <3> QED
      BY <2>4, <3>3, <3>4, <3>5, <3>6
  <2> QED
    BY <2>2, <2>6, <2>7
<1>4. 0 \in T
  <2>1. 0 < w
    BY <1>1
  <2> QED
    BY <2>1 DEF Sums
<1>5. ASSUME NEW i \in 1 .. h, i - 1 \in T
      PROVE  i \in T
  <2>0. /\ a[2*i - 2] \in Nat /\ Radix * a[2*i - 1] \in Nat
        /\ b[2*i - 2] \in Nat /\ Radix * b[2*i - 1] \in Nat
    BY <1>2, WordBound
  <2>1. f[i - 1] = IF i - 1 < w THEN g[i - 1] ELSE g[i - 1] + D
    BY <1>5
  <2>2. CASE i = w
    <3>1. f[i - 1] = g[i - 1]
      BY <1>1, <2>1, <2>2
    <3>2. D = (a[2*i - 2] + Radix * a[2*i - 1]) - (b[2*i - 2] + Radix * b[2*i - 1])
      BY <2>2
    <3> HIDE DEF D
    <3>3. f[i] = g[i] + D /\ ~ (i < w)
      BY <1>1, <1>2, <1>3, <2>0, <2>2, <3>1, <3>2
    <3> QED
      BY <3>3
  <2>3. CASE i # w
    <3>1. (i < w) <=> (i - 1 < w)
      BY <1>1, <2>3
    <3>2. 2*i - 2 \in (0 .. 2*h - 1) \ {j} /\ 2*i - 1 \in (0 .. 2*h - 1) \ {j}
      BY <1>1, <2>3
    <3>3. a[2*i - 2] = b[2*i - 2] /\ a[2*i - 1] = b[2*i - 1]
      BY <3>2
    <3> HIDE DEF D
    <3>4. f[i] = IF i < w THEN g[i] ELSE g[i] + D
      <4>1. CASE i < w
        BY <1>2, <2>1, <3>1, <3>3, <4>1
      <4>2. CASE ~ (i < w)
        <5>1. f[i - 1] = g[i - 1] + D
          BY <2>1, <3>1, <4>2
        <5> QED
          BY <1>2, <1>3, <2>0, <3>3, <4>2, <5>1
      <4> QED
        BY <4>1, <4>2
    <3> QED
      BY <3>4
  <2> QED
    BY <2>2, <2>3
<1>6. \A i \in 0 .. h : i \in T
  <2> HIDE DEF T
  <2> QED
    BY <1>4, <1>5, Induction
<1>7. f[h] = g[h] + D /\ g[h] \in Nat
  BY <1>1, <1>6 DEF Sums
<1> HIDE DEF D
<1> QED
  BY <1>3, <1>7

-----------------------------------------------------------------------------
(* The bytes of an image. *)

\* The lines of entries whose names have one byte for a character.
EntryLines == {l \in Lines : l.field # "version" /\ OneByte(l)}

\* An entry has its tag first, its size next and then its payload.
LEMMA Dumped ==
    ASSUME NEW l \in EntryLines
    PROVE  /\ dump_line(l)[1] = LineTag(l) /\ dump_line(l)[2] = Len(dump_line(l)) - 2
           /\ Len(Payload(l)) \in Nat /\ Len(dump_line(l)) = 2 + Len(Payload(l))
           /\ \A j \in 1 .. Len(Payload(l)) : dump_line(l)[2 + j] = Payload(l)[j]
           /\ LineTag(l) # PROM_END_TAG
<1> DEFINE t == LineTag(l)
           p == Payload(l)
<1>1. dump_line(l) = <<t, Len(p)>> \o p /\ t \in Nat /\ p \in Seq(Nat) /\ t # PROM_END_TAG
  <2>1. Bytes \subseteq Nat
    BY PromAssumption DEF Bytes
  <2>2. dump_line(l) = dump(t, Len(p), p) /\ t \in Bytes \ {PROM_END_TAG} /\ p \in Seq(Bytes)
    BY LineParts DEF EntryLines
  <2> HIDE DEF t, p
  <2>3. dump_line(l) = <<t, Len(p)>> \o p
    BY <2>2, Zenon DEF dump
  <2>4. t \in Nat /\ t # PROM_END_TAG
    BY <2>1, <2>2
  <2>5. p \in Seq(Nat)
    BY <2>1, <2>2, SeqMonotonic, Zenon
  <2> QED
    BY <2>3, <2>4, <2>5, Zenon
<1> HIDE DEF t, p
<1>2. Len(p) \in Nat /\ <<t, Len(p)>> \in Seq(Nat) /\ Len(<<t, Len(p)>>) = 2
  BY <1>1
<1>3. Len(<<t, Len(p)>> \o p) = 2 + Len(p)
      /\ (<<t, Len(p)>> \o p)[1] = t /\ (<<t, Len(p)>> \o p)[2] = Len(p)
  BY <1>1, <1>2
<1>4. \A j \in 1 .. Len(p) : (<<t, Len(p)>> \o p)[2 + j] = p[j]
  BY <1>1, <1>2
<1>5. (2 + Len(p)) - 2 = Len(p)
  BY <1>2
<1> QED
  BY <1>1, <1>2, <1>3, <1>4, <1>5, Zenon DEF t, p

\* The files with a version in front and names of one byte for a character.
Files == {c \in Configs : WellFormed(c)}

\* A well-formed file the PROM was made from is one of them.
LEMMA ConfigFile == PromInv /\ WellFormed(config) => config \in Files
<1>1. WellFormed(config) => config # <<>>
  BY DEF WellFormed
<1> QED
  BY <1>1 DEF PromInv, Files

\* The bytes written up to line k behind the version.
Written(c) == [k \in 0 .. Len(Entries(c)) |-> Contents(c)[k + 1]]

LEMMA WrittenBytes ==
    ASSUME NEW c \in Files
    PROVE  /\ Len(Entries(c)) \in Nat
           /\ Written(c)[Len(Entries(c))] = Contents(c)[Len(c)]
           /\ \A i \in 0 .. Len(Entries(c)) : Written(c)[i] \in Seq(Bytes)
           /\ Written(c)[0] = Magic \o <<PROM_VERSION>>
           /\ \A i \in 1 .. Len(Entries(c)) :
                /\ Written(c)[i] = Written(c)[i - 1] \o dump_line(Entries(c)[i])
                /\ Entries(c)[i] \in EntryLines /\ dump_line(Entries(c)[i]) \in Seq(Bytes)
                /\ Len(dump_line(Entries(c)[i])) - 2 \in Bytes
<1> DEFINE n == Len(c)
           lines == Entries(c)
<1>1. /\ c \in Configs /\ c # <<>> /\ c[1].field = "version"
      /\ c[1].value \in {0, PROM_VERSION}
      /\ \A k \in 2 .. Len(c) : c[k].field # "version" /\ OneByte(c[k])
  BY DEF Files, WellFormed
<1>2. /\ c \in Seq(Lines)
      /\ \A i \in 0 .. n : Contents(c)[i] \in Seq(Bytes)
      /\ Contents(c)[0] = <<>>
      /\ \A i \in 1 .. n :
           /\ Contents(c)[i] = Contents(c)[i - 1] \o dump_line(c[i])
           /\ c[i] \in Lines /\ dump_line(c[i]) \in Seq(Bytes)
  BY <1>1, ContentsBytes
<1>3. n \in Nat /\ n >= 1
  BY <1>1, <1>2
<1>4. Len(lines) = n - 1 /\ \A i \in 1 .. n - 1 : lines[i] = c[i + 1]
  BY <1>3 DEF Entries
<1>5. \A i \in 0 .. n - 1 : Written(c)[i] = Contents(c)[i + 1]
  BY <1>4 DEF Written
<1> HIDE DEF lines, n
<1>6. \A i \in 0 .. n - 1 : i + 1 \in 0 .. n /\ i + 1 \in 1 .. n /\ (i + 1) - 1 = i
  BY <1>3
<1>7. Written(c)[n - 1] = Contents(c)[n]
  BY <1>3, <1>5
<1>8. Written(c)[0] = Magic \o <<PROM_VERSION>>
  <2>1. dump_line(c[1]) = dump_header(c[1].value)
    BY <1>1 DEF dump_line
  <2>2. dump_header(c[1].value) = Magic \o <<PROM_VERSION>>
    BY <1>1 DEF dump_header, DEFAULT_VERSION, PROM_VERSION
  <2>3. 1 \in 1 .. n /\ 1 - 1 = 0
    BY <1>3
  <2>4. Contents(c)[1] = <<>> \o (Magic \o <<PROM_VERSION>>)
    BY <1>2, <2>1, <2>2, <2>3, Zenon
  <2>5. Magic \o <<PROM_VERSION>> \in Seq(Bytes)
    BY HeaderBytes, PromAssumption DEF PROM_VERSION, Bytes
  <2>6. \A t \in Seq(Bytes) : <<>> \o t = t
    OBVIOUS
  <2>7. Written(c)[0] = Contents(c)[1]
    BY <1>3, <1>5
  <2> QED
    BY <2>4, <2>5, <2>6, <2>7, Zenon
<1>9. ASSUME NEW i \in 1 .. n - 1
      PROVE  /\ Written(c)[i] = Written(c)[i - 1] \o dump_line(lines[i])
             /\ lines[i] \in EntryLines /\ dump_line(lines[i]) \in Seq(Bytes)
             /\ Len(dump_line(lines[i])) - 2 \in Bytes
  <2>1. /\ i + 1 \in 1 .. n /\ i + 1 \in 2 .. n /\ (i + 1) - 1 = i /\ (i - 1) + 1 = i
        /\ i - 1 \in 0 .. n - 1 /\ i \in 0 .. n - 1
    BY <1>3
  <2>2. Written(c)[i] = Written(c)[i - 1] \o dump_line(lines[i])
    <3>1. Contents(c)[i + 1] = Contents(c)[i] \o dump_line(c[i + 1])
      BY <1>2, <2>1, Zenon
    <3>2. Written(c)[i - 1] = Contents(c)[i]
      BY <1>5, <2>1, Zenon
    <3> QED
      BY <1>4, <1>5, <2>1, <3>1, <3>2, Zenon
  <2>3. lines[i] \in EntryLines /\ dump_line(lines[i]) \in Seq(Bytes)
    BY <1>1, <1>2, <1>4, <2>1 DEF n, EntryLines
  <2>4. Len(dump_line(lines[i])) - 2 \in Bytes
    <3> DEFINE d == dump_line(lines[i])
    <3>1. d[2] = Len(d) - 2 /\ Len(d) = 2 + Len(Payload(lines[i])) /\ Len(Payload(lines[i])) \in Nat
      BY <2>3, Dumped
    <3>2. d \in Seq(Bytes)
      BY <2>3
    <3> HIDE DEF d
    <3>3. 2 \in 1 .. Len(d)
      BY <3>1
    <3>4. d[2] \in Bytes
      BY <3>2, <3>3
    <3> QED
      BY <3>1, <3>4 DEF d
  <2> QED
    BY <2>2, <2>3, <2>4
<1>10. ASSUME NEW i \in 0 .. n - 1
       PROVE  Written(c)[i] \in Seq(Bytes)
  BY <1>2, <1>5, <1>6
<1>11. Len(lines) \in Nat
  BY <1>3, <1>4
<1> QED
  BY <1>4, <1>7, <1>8, <1>9, <1>10, <1>11, Zenon DEF n, lines

\* Where line k ends in the image, and line k + 1 starts.
At(c, k) == Len(Written(c)[k])

\* How the bytes of one line follow those of the lines before.
LEMMA Lengths ==
    ASSUME NEW c \in Files
    PROVE  /\ Len(Entries(c)) \in Nat /\ \A k \in 0 .. Len(Entries(c)) : At(c, k) \in Nat
           /\ At(c, 0) = PROM_FIRST_ENTRY_OFFSET
           /\ \A k \in 1 .. Len(Entries(c)) :
                /\ Len(dump_line(Entries(c)[k])) - 2 \in Bytes
                /\ Len(dump_line(Entries(c)[k])) \in Nat /\ Len(dump_line(Entries(c)[k])) >= 2
                /\ At(c, k) = At(c, k - 1) + Len(dump_line(Entries(c)[k]))
<1>1. /\ Len(Entries(c)) \in Nat
      /\ \A k \in 0 .. Len(Entries(c)) : Written(c)[k] \in Seq(Bytes)
      /\ Written(c)[0] = Magic \o <<PROM_VERSION>>
      /\ \A k \in 1 .. Len(Entries(c)) :
           /\ Written(c)[k] = Written(c)[k - 1] \o dump_line(Entries(c)[k])
           /\ dump_line(Entries(c)[k]) \in Seq(Bytes)
           /\ Len(dump_line(Entries(c)[k])) - 2 \in Bytes
  BY WrittenBytes
<1>2. \A k \in 0 .. Len(Entries(c)) : At(c, k) \in Nat
  BY <1>1 DEF At
<1>3. At(c, 0) = PROM_FIRST_ENTRY_OFFSET
  <2>1. Len(Magic \o <<PROM_VERSION>>) = Len(Magic) + 1
    <3>1. Magic \in Seq(Nat) /\ <<PROM_VERSION>> \in Seq(Nat) /\ Len(<<PROM_VERSION>>) = 1
      BY HeaderBytes, PromAssumption DEF PROM_VERSION, Bytes
    <3> QED
      BY <3>1
  <2> QED
    BY <1>1, <2>1, Zenon DEF At, PROM_FIRST_ENTRY_OFFSET
<1>4. ASSUME NEW k \in 1 .. Len(Entries(c))
      PROVE  /\ Len(dump_line(Entries(c)[k])) \in Nat /\ Len(dump_line(Entries(c)[k])) >= 2
             /\ At(c, k) = At(c, k - 1) + Len(dump_line(Entries(c)[k]))
  <2>1. k - 1 \in 0 .. Len(Entries(c))
    BY <1>1
  <2>2. Written(c)[k - 1] \in Seq(Bytes) /\ dump_line(Entries(c)[k]) \in Seq(Bytes)
    BY <1>1, <2>1, Zenon
  <2>3. /\ Len(Written(c)[k]) = Len(Written(c)[k - 1]) + Len(dump_line(Entries(c)[k]))
        /\ Len(dump_line(Entries(c)[k])) \in Nat
    BY <1>1, <2>2, TwoParts, Zenon
  <2>4. Len(dump_line(Entries(c)[k])) - 2 \in Bytes
    BY <1>1
  <2>5. Len(dump_line(Entries(c)[k])) - 2 >= 0
    BY <2>4, PromAssumption DEF Bytes
  <2> QED
    BY <2>3, <2>5 DEF At
<1> QED
  BY <1>1, <1>2, <1>3, <1>4

\* What was written stays: the bytes behind it change nothing.
LEMMA Prefix ==
    ASSUME NEW c \in Files, NEW k \in 0 .. Len(Entries(c))
    PROVE  /\ At(c, k) <= At(c, Len(Entries(c)))
           /\ k < Len(Entries(c)) => At(c, k) + 2 <= At(c, Len(Entries(c)))
           /\ \A i \in 1 .. At(c, k) : Written(c)[Len(Entries(c))][i] = Written(c)[k][i]
<1> DEFINE n == Len(Entries(c))
           T == {d \in 0 .. n - k :
                   /\ At(c, k) <= At(c, k + d)
                   /\ d > 0 => At(c, k) + 2 <= At(c, k + d)
                   /\ \A i \in 1 .. At(c, k) : Written(c)[k + d][i] = Written(c)[k][i]}
<1>1. /\ n \in Nat
      /\ \A j \in 0 .. n : At(c, j) \in Nat
      /\ \A j \in 1 .. n : /\ Len(dump_line(Entries(c)[j])) \in Nat /\ Len(dump_line(Entries(c)[j])) >= 2
                           /\ At(c, j) = At(c, j - 1) + Len(dump_line(Entries(c)[j]))
  BY Lengths
<1>2. /\ \A j \in 0 .. n : Written(c)[j] \in Seq(Bytes)
      /\ \A j \in 1 .. n : /\ Written(c)[j] = Written(c)[j - 1] \o dump_line(Entries(c)[j])
                           /\ dump_line(Entries(c)[j]) \in Seq(Bytes)
  BY WrittenBytes
<1> HIDE DEF n
<1>3. 0 \in T
  <2>1. 0 \in 0 .. n - k /\ k + 0 = k /\ At(c, k) \in Nat
    BY <1>1 DEF n
  <2> QED
    BY <2>1
<1>4. ASSUME NEW d \in 1 .. n - k, d - 1 \in T
      PROVE  d \in T
  <2> DEFINE j == k + d
  <2>1. j \in 1 .. n /\ j - 1 = k + (d - 1) /\ j - 1 \in 0 .. n /\ k \in 0 .. n
    BY <1>1 DEF n
  <2>2. At(c, k) <= At(c, j - 1)
        /\ \A i \in 1 .. At(c, k) : Written(c)[j - 1][i] = Written(c)[k][i]
    BY <1>4, <2>1
  <2> HIDE DEF j
  <2>3. /\ At(c, j) = At(c, j - 1) + Len(dump_line(Entries(c)[j]))
        /\ Len(dump_line(Entries(c)[j])) \in Nat /\ Len(dump_line(Entries(c)[j])) >= 2
        /\ At(c, k) \in Nat /\ At(c, j - 1) \in Nat
    BY <1>1, <2>1
  <2>4. At(c, k) + 2 <= At(c, j) /\ At(c, k) <= At(c, j)
    BY <2>2, <2>3
  <2>5. ASSUME NEW i \in 1 .. At(c, k)
        PROVE  Written(c)[j][i] = Written(c)[k][i]
    <3>1. i \in 1 .. Len(Written(c)[j - 1])
      BY <2>2, <2>3 DEF At
    <3>2. Written(c)[j][i] = Written(c)[j - 1][i]
      <4>1. Written(c)[j - 1] \in Seq(Bytes) /\ dump_line(Entries(c)[j]) \in Seq(Bytes)
            /\ Written(c)[j] = Written(c)[j - 1] \o dump_line(Entries(c)[j])
        BY <1>2, <2>1
      <4>2. (Written(c)[j - 1] \o dump_line(Entries(c)[j]))[i] = Written(c)[j - 1][i]
        BY <3>1, <4>1, TwoParts, Zenon
      <4> QED
        BY <4>1, <4>2, Zenon
    <3> QED
      BY <2>2, <3>2
  <2>6. d \in 0 .. n - k
    BY <1>1 DEF n
  <2> QED
    BY <2>4, <2>5, <2>6 DEF j
<1>5. n - k \in Nat
  BY <1>1 DEF n
<1>6. \A d \in 0 .. n - k : d \in T
  <2> HIDE DEF T
  <2> QED
    BY <1>3, <1>4, <1>5, Induction
<1>7. n - k \in 0 .. n - k /\ k + (n - k) = n /\ (k < n => n - k > 0)
  BY <1>1, <1>5 DEF n
<1>8. n - k \in T
  BY <1>6, <1>7
<1> QED
  BY <1>7, <1>8 DEF n

\* The end entry is an entry of size 2 or 3, up to the even length of the
\* image; its last two bytes are the checksum of all bytes before.
LEMMA EndShape ==
    ASSUME NEW content \in Seq(Bytes), content # <<>>
    PROVE  LET image == content \o dump_end(content)
               at == Len(content)
           IN  \E s \in {2, 3}, h \in Nat, sum \in Int :
                 /\ Len(image) = at + s + 2 /\ Len(image) = 2 * (h + 1)
                 /\ image[at + 1] = 0 /\ image[at + 2] = s
                 /\ sum = calc_checksum16([i \in 0 .. 2*h - 1 |-> image[i + 1]], 2*h)
                 /\ image[2*h + 1] = Pack(sum, 2)[1] /\ image[2*h + 2] = Pack(sum, 2)[2]
                 /\ \A i \in 1 .. at : image[i] = content[i]
<1> DEFINE end == IF Len(content) % 2 = 1 THEN <<0, 3, 0>> ELSE <<0, 2>>
           all == content \o end
           b == [i \in 0 .. Len(all) - 1 |-> all[i + 1]]
           sum == calc_checksum16(b, Len(all))
           tail == Pack(sum, 2)
           at == Len(content)
           h == Len(all) \div 2
           image == content \o dump_end(content)
<1>1. dump_end(content) = end \o tail
  BY DEF dump_end
<1>2. at \in Nat
  OBVIOUS
<1>3. /\ end \in Seq(Bytes) /\ Len(end) \in {2, 3} /\ (at + Len(end)) % 2 = 0
      /\ end[1] = 0 /\ end[2] = Len(end)
  <2>0. {0, 2, 3} \subseteq Bytes
    BY PromAssumption DEF Bytes
  <2>1. CASE at % 2 = 1
    <3>1. end = <<0, 3, 0>>
      BY <2>1
    <3> HIDE DEF end
    <3>2. /\ end \in Seq(Bytes) /\ Len(end) = 3 /\ end[1] = 0 /\ end[2] = 3
      BY <2>0, <3>1
    <3>3. (at + 3) % 2 = 0
      BY <1>2, <2>1
    <3> QED
      BY <3>2, <3>3
  <2>2. CASE at % 2 # 1
    <3>1. end = <<0, 2>>
      BY <2>2
    <3> HIDE DEF end
    <3>2. /\ end \in Seq(Bytes) /\ Len(end) = 2 /\ end[1] = 0 /\ end[2] = 2
      BY <2>0, <3>1
    <3>3. (at + 2) % 2 = 0
      BY <1>2, <2>2
    <3> QED
      BY <3>2, <3>3
  <2> QED
    BY <2>1, <2>2
<1> HIDE DEF end
<1>4. all \in Seq(Bytes) /\ Len(all) = at + Len(end) /\ Len(all) \in Nat
  BY <1>3
<1>5. Len(all) = 2*h /\ h \in Nat
  BY <1>2, <1>3, <1>4
<1>6. sum \in Int
  <2>1. \A i \in 0 .. Len(all) - 1 : b[i] \in Bytes
    BY <1>4
  <2> HIDE DEF b, all
  <2> QED
    BY <1>4, <2>1, ChecksumNumber, Zenon
<1>7. tail \in Seq(Bytes) /\ Len(tail) = 2
  <2>1. 2 \in 0 .. ExtBytes + 1
    BY PromAssumption
  <2> HIDE DEF sum
  <2> QED
    BY <1>6, <2>1, PackBytes
<1> HIDE DEF tail
<1>8. image = content \o (end \o tail)
  BY <1>1, Zenon
<1> HIDE DEF image
<1>9. /\ image \in Seq(Bytes) /\ Len(image) = at + (Len(end) + 2)
      /\ \A i \in 1 .. at : image[i] = content[i]
      /\ \A i \in 1 .. Len(end) : image[at + i] = end[i]
      /\ \A i \in 1 .. 2 : image[at + Len(end) + i] = tail[i]
  <2>1. end \o tail \in Seq(Bytes) /\ Len(end \o tail) = Len(end) + 2
        /\ (\A i \in 1 .. Len(end) : (end \o tail)[i] = end[i])
        /\ (\A i \in 1 .. 2 : (end \o tail)[Len(end) + i] = tail[i])
    <3>1. /\ end \o tail \in Seq(Bytes) /\ Len(end \o tail) = Len(end) + Len(tail)
          /\ \A i \in 1 .. Len(end) : (end \o tail)[i] = end[i]
          /\ \A i \in 1 .. Len(tail) : (end \o tail)[Len(end) + i] = tail[i]
      BY <1>3, <1>7, TwoParts, Zenon
    <3> QED
      BY <1>7, <3>1, Zenon
  <2> DEFINE t == end \o tail
  <2>2. t \in Seq(Bytes) /\ Len(t) = Len(end) + 2 /\ Len(end) \in Nat
        /\ (\A i \in 1 .. Len(end) : t[i] = end[i])
        /\ (\A i \in 1 .. 2 : t[Len(end) + i] = tail[i])
        /\ image = content \o t
    BY <1>3, <1>8, <2>1
  <2> HIDE DEF t
  <2>3. image \in Seq(Bytes) /\ Len(image) = at + Len(t)
        /\ (\A i \in 1 .. at : image[i] = content[i])
        /\ (\A i \in 1 .. Len(t) : image[at + i] = t[i])
    BY <2>2, TwoParts, Zenon
  <2>4. \A i \in 1 .. Len(end) : i \in 1 .. Len(t)
    BY <2>2
  <2>5. \A i \in 1 .. 2 : Len(end) + i \in 1 .. Len(t) /\ at + Len(end) + i = at + (Len(end) + i)
    BY <1>2, <2>2
  <2> QED
    BY <2>2, <2>3, <2>4, <2>5
<1>10. b = [i \in 0 .. 2*h - 1 |-> image[i + 1]]
  <2>1. ASSUME NEW i \in 0 .. 2*h - 1
        PROVE  all[i + 1] = image[i + 1]
    <3>1. CASE i + 1 \in 1 .. at
      BY <1>3, <1>9, <3>1
    <3>2. CASE i + 1 \notin 1 .. at
      <4> DEFINE j == i + 1 - at
      <4>1. j \in 1 .. Len(end) /\ i + 1 = at + j
        BY <1>2, <1>3, <1>4, <1>5, <3>2
      <4> HIDE DEF j
      <4>2. all[at + j] = end[j]
        BY <1>3, <4>1
      <4> QED
        BY <1>9, <4>1, <4>2
    <3> QED
      BY <3>1, <3>2
  <2>2. 0 .. Len(all) - 1 = 0 .. 2*h - 1
    BY <1>5
  <2> QED
    BY <2>1, <2>2, Zenon
<1>11. sum = calc_checksum16([i \in 0 .. 2*h - 1 |-> image[i + 1]], 2*h)
  BY <1>5, <1>10, Zenon
<1>12. /\ Len(end) \in {2, 3} /\ Len(image) = at + Len(end) + 2 /\ Len(image) = 2 * (h + 1)
       /\ image[at + 1] = 0 /\ image[at + 2] = Len(end)
       /\ image[2*h + 1] = tail[1] /\ image[2*h + 2] = tail[2]
       /\ \A i \in 1 .. at : image[i] = content[i]
  <2>1. at + Len(end) + 1 = 2*h + 1 /\ at + Len(end) + 2 = 2*h + 2 /\ 2 * (h + 1) = 2*h + 2
    BY <1>2, <1>4, <1>5, <1>3
  <2>2. 1 \in 1 .. 2 /\ 2 \in 1 .. 2 /\ 1 \in 1 .. Len(end) /\ 2 \in 1 .. Len(end)
    BY <1>3
  <2>3. at + (Len(end) + 2) = at + Len(end) + 2
    BY <1>2, <1>3
  <2> QED
    BY <1>3, <1>9, <2>1, <2>2, <2>3
<1> HIDE DEF h, at, sum
<1>13. \E s \in {2, 3}, h_1 \in Nat, sum_1 \in Int :
                 /\ Len(image) = at + s + 2 /\ Len(image) = 2 * (h_1 + 1)
                 /\ image[at + 1] = 0 /\ image[at + 2] = s
                 /\ sum_1 = calc_checksum16([i \in 0 .. 2*h_1 - 1 |-> image[i + 1]], 2*h_1)
                 /\ image[2*h_1 + 1] = Pack(sum_1, 2)[1] /\ image[2*h_1 + 2] = Pack(sum_1, 2)[2]
                 /\ \A i \in 1 .. at : image[i] = content[i]
  BY <1>5, <1>6, <1>11, <1>12, Zenon DEF tail
<1> QED
  BY <1>13, Zenon DEF image, at

\* An image is what was written for the lines, and the end entry.
LEMMA ImageEnd ==
    ASSUME NEW c \in Files
    PROVE  LET image == process_config_file(c)
               at == At(c, Len(Entries(c)))
           IN  \E s \in {2, 3}, h \in Nat, sum \in Int :
                 /\ Len(image) = at + s + 2 /\ Len(image) = 2 * (h + 1)
                 /\ image[at + 1] = 0 /\ image[at + 2] = s
                 /\ sum = calc_checksum16([i \in 0 .. 2*h - 1 |-> image[i + 1]], 2*h)
                 /\ image[2*h + 1] = Pack(sum, 2)[1] /\ image[2*h + 2] = Pack(sum, 2)[2]
                 /\ \A i \in 1 .. at : image[i] = Written(c)[Len(Entries(c))][i]
<1> DEFINE content == Written(c)[Len(Entries(c))]
<1>1. content \in Seq(Bytes)
  <2>1. Len(Entries(c)) \in Nat /\ \A i \in 0 .. Len(Entries(c)) : Written(c)[i] \in Seq(Bytes)
    BY WrittenBytes
  <2>2. Len(Entries(c)) \in 0 .. Len(Entries(c))
    BY <2>1
  <2> QED
    BY <2>1, <2>2
<1>2. process_config_file(c) = content \o dump_end(content) /\ At(c, Len(Entries(c))) = Len(content)
  BY WrittenBytes, Zenon DEF process_config_file, At
<1>4. content # <<>>
  <2>1. At(c, 0) <= At(c, Len(Entries(c))) /\ At(c, 0) = Len(Magic) + 1
    <3>1. 0 \in 0 .. Len(Entries(c))
      BY Lengths
    <3> QED
      BY <3>1, Lengths, Prefix, Zenon DEF PROM_FIRST_ENTRY_OFFSET
  <2>2. Len(content) >= Len(Magic) + 1 /\ Len(Magic) \in Nat
    BY <1>1, <1>2, <2>1, HeaderBytes
  <2> QED
    BY <2>2
<1> HIDE DEF content
<1>3. LET image == content \o dump_end(content)
          at == Len(content)
      IN  \E s \in {2, 3}, h \in Nat, sum \in Int :
                 /\ Len(image) = at + s + 2 /\ Len(image) = 2 * (h + 1)
                 /\ image[at + 1] = 0 /\ image[at + 2] = s
                 /\ sum = calc_checksum16([i \in 0 .. 2*h - 1 |-> image[i + 1]], 2*h)
                 /\ image[2*h + 1] = Pack(sum, 2)[1] /\ image[2*h + 2] = Pack(sum, 2)[2]
                 /\ \A i \in 1 .. at : image[i] = content[i]
  BY <1>1, <1>4, EndShape
<1> QED
  BY <1>2, <1>3, Zenon DEF content

\* The bytes of the image, line by line.
LEMMA ImageLines ==
    ASSUME NEW c \in Files, NEW k \in 1 .. Len(Entries(c)), NEW j \in 1 .. Len(dump_line(Entries(c)[k]))
    PROVE  process_config_file(c)[At(c, k - 1) + j] = dump_line(Entries(c)[k])[j]
<1> DEFINE i == At(c, k - 1) + j
<1>1. k - 1 \in 0 .. Len(Entries(c)) /\ k \in 0 .. Len(Entries(c))
  BY Lengths
<1>2. /\ Written(c)[k - 1] \in Seq(Bytes) /\ dump_line(Entries(c)[k]) \in Seq(Bytes)
      /\ Written(c)[k] = Written(c)[k - 1] \o dump_line(Entries(c)[k])
  BY <1>1, WrittenBytes, Zenon
<1>3. Written(c)[k][i] = dump_line(Entries(c)[k])[j]
  <2>1. (Written(c)[k - 1] \o dump_line(Entries(c)[k]))[Len(Written(c)[k - 1]) + j] = dump_line(Entries(c)[k])[j]
    BY <1>2, TwoParts, Zenon
  <2> QED
    BY <1>2, <2>1, Zenon DEF At
<1>4. /\ At(c, k - 1) \in Nat /\ At(c, k) = At(c, k - 1) + Len(dump_line(Entries(c)[k]))
      /\ Len(dump_line(Entries(c)[k])) \in Nat /\ At(c, Len(Entries(c))) \in Nat
  <2>1. Len(Entries(c)) \in 0 .. Len(Entries(c))
    BY Lengths
  <2> QED
    BY <1>1, <2>1, Lengths, Zenon
<1>5. At(c, k) <= At(c, Len(Entries(c))) /\ \A m \in 1 .. At(c, k) : Written(c)[Len(Entries(c))][m] = Written(c)[k][m]
  BY <1>1, Prefix, Zenon
<1>6. i \in 1 .. At(c, k) /\ i \in 1 .. At(c, Len(Entries(c)))
  BY <1>4, <1>5
<1>7. process_config_file(c)[i] = Written(c)[Len(Entries(c))][i]
  <2> HIDE DEF i
  <2> QED
    BY <1>6, ImageEnd
<1> QED
  BY <1>3, <1>5, <1>6, <1>7, Zenon

\* The bytes in front of the lines.
LEMMA ImageStart ==
    ASSUME NEW c \in Files
    PROVE  /\ \A i \in 1 .. Len(Magic) : process_config_file(c)[i] = Magic[i]
           /\ process_config_file(c)[Len(Magic) + 1] = PROM_VERSION
<1> DEFINE ver == <<PROM_VERSION>>
<1>1. Magic \in Seq(Bytes) /\ ver \in Seq(Bytes) /\ Len(ver) = 1 /\ ver[1] = PROM_VERSION
  BY HeaderBytes, PromAssumption DEF PROM_VERSION, Bytes
<1> HIDE DEF ver
<1>2. /\ Len(Magic) \in Nat
      /\ \A i \in 1 .. Len(Magic) : (Magic \o ver)[i] = Magic[i]
      /\ \A i \in 1 .. Len(ver) : (Magic \o ver)[Len(Magic) + i] = ver[i]
  BY <1>1, TwoParts, Zenon
<1>3. Written(c)[0] = Magic \o ver
  BY WrittenBytes, Zenon DEF ver
<1>4. 0 \in 0 .. Len(Entries(c)) /\ Len(Entries(c)) \in 0 .. Len(Entries(c))
  BY Lengths
<1>5. /\ At(c, 0) = Len(Magic) + 1 /\ At(c, 0) <= At(c, Len(Entries(c))) /\ At(c, Len(Entries(c))) \in Nat
      /\ \A i \in 1 .. At(c, 0) : Written(c)[Len(Entries(c))][i] = Written(c)[0][i]
  BY <1>4, Lengths, Prefix, Zenon DEF PROM_FIRST_ENTRY_OFFSET
<1>6. \A i \in 1 .. At(c, Len(Entries(c))) : process_config_file(c)[i] = Written(c)[Len(Entries(c))][i]
  BY ImageEnd
<1>7. \A i \in 1 .. Len(Magic) + 1 : process_config_file(c)[i] = (Magic \o ver)[i]
  <2>1. \A i \in 1 .. Len(Magic) + 1 : i \in 1 .. At(c, 0) /\ i \in 1 .. At(c, Len(Entries(c)))
    BY <1>2, <1>5
  <2> QED
    BY <1>3, <1>5, <1>6, <2>1, Zenon
<1>8. Len(Magic) + 1 \in 1 .. Len(Magic) + 1 /\ \A i \in 1 .. Len(Magic) : i \in 1 .. Len(Magic) + 1
  BY <1>2
<1>9. (Magic \o ver)[Len(Magic) + 1] = PROM_VERSION
  <2>1. 1 \in 1 .. Len(ver)
    BY <1>1
  <2> QED
    BY <1>1, <1>2, <2>1, Zenon
<1> QED
  BY <1>2, <1>7, <1>8, <1>9, Zenon

\* The two bytes of a word.
LEMMA PackWord ==
    ASSUME NEW x \in 0 .. Word - 1
    PROVE  Pack(x, 2)[1] + Radix * Pack(x, 2)[2] = x
<1> DEFINE q == x \div Radix
           r == x % Radix
<1>1. Radix \in Nat \ {0} /\ Word = Radix * Radix /\ x \in Nat /\ x < Word
  BY WordFacts
<1>2. x = Radix * q + r /\ r \in 0 .. Radix - 1 /\ q \in Int
  BY <1>1, DivideBack
<1>3. Power[0] = 1 /\ Power[1] = Radix
  <2>1. 0 \in 0 .. ExtBytes /\ 1 \in 0 .. ExtBytes /\ 1 - 1 = 0 /\ Radix * 1 = Radix
    BY PromAssumption
  <2>2. Power[0] = 1
    BY <2>1, PowerFacts
  <2>3. Power[1] = Radix * Power[1 - 1]
    BY <2>1, PowerFacts
  <2> QED
    BY <2>1, <2>2, <2>3
<1>4. Pack(x, 2)[1] = (x \div Power[1 - 1]) % Radix /\ Pack(x, 2)[2] = (x \div Power[2 - 1]) % Radix
  BY DEF Pack
<1>5. x \div 1 = x
  BY <1>1
<1>6. Pack(x, 2)[1] = r /\ Pack(x, 2)[2] = q % Radix
  <2>1. 1 - 1 = 0 /\ 2 - 1 = 1
    OBVIOUS
  <2> QED
    BY <1>3, <1>4, <1>5, <2>1, Zenon
<1> HIDE DEF q, r
<1>7. q \in 0 .. Radix - 1
  <2>1. ASSUME q >= Radix PROVE FALSE
    <3>1. Radix * q >= Radix * Radix
      BY <1>1, <1>2, <2>1
    <3> QED
      BY <1>1, <1>2, <3>1
  <2>2. ASSUME q <= -1 PROVE FALSE
    <3>1. Radix * q <= -Radix
      BY <1>1, <1>2, <2>2
    <3> QED
      BY <1>1, <1>2, <3>1
  <2> QED
    BY <1>1, <1>2, <2>1, <2>2
<1>8. q % Radix = q
  <2>1. (Radix * 0 + q) % Radix = q
    BY <1>1, <1>7, QuotientIs
  <2>2. Radix * 0 + q = q
    BY <1>1, <1>7
  <2> QED
    BY <2>1, <2>2
<1>9. r + Radix * q = Radix * q + r
  BY <1>1, <1>2
<1> QED
  BY <1>2, <1>6, <1>8, <1>9, Zenon

\* The sum of an image is a multiple of Word - 1.
LEMMA ImageSum ==
    ASSUME NEW c \in Files, Len(process_config_file(c)) <= PROM_MAX_LENGTH
    PROVE  LET image == process_config_file(c)
           IN  \E h \in Nat \ {0} :
                 /\ h <= Word /\ Len(image) = 2*h
                 /\ \E g : /\ Sums([i \in 0 .. 2*h - 1 |-> image[i + 1]], h, g)
                           /\ \E q \in Nat \ {0} : g[h] = q * (Word - 1)
<1> DEFINE image == process_config_file(c)
<1>1. PICK h \in Nat, sum \in Int :
          /\ Len(image) = 2 * (h + 1)
          /\ sum = calc_checksum16([i \in 0 .. 2*h - 1 |-> image[i + 1]], 2*h)
          /\ image[2*h + 1] = Pack(sum, 2)[1] /\ image[2*h + 2] = Pack(sum, 2)[2]
  BY ImageEnd
<1>2. image \in Seq(Bytes)
  BY ImageBytes DEF Files
<1> HIDE DEF image
<1> DEFINE m == h + 1
           b == [i \in 0 .. 2*h - 1 |-> image[i + 1]]
           a == [i \in 0 .. 2*m - 1 |-> image[i + 1]]
<1>3. \A i \in 0 .. 2*m - 1 : a[i] \in Bytes /\ a[i] = image[i + 1]
  BY <1>1, <1>2
<1>4. \A i \in 0 .. 2*h - 1 : b[i] \in Bytes /\ a[i] = b[i]
  BY <1>3
<1>5. m \in Nat \ {0} /\ m <= Word
  <2>1. 2 * m <= Word
    BY <1>1, PromAssumption, LengthAssumption DEF image, Word
  <2> QED
    BY <2>1, WordFacts
<1>6. sum = calc_checksum16(b, 2*h)
  BY <1>1
<1>7. a[2*h] = Pack(sum, 2)[1] /\ a[2*h + 1] = Pack(sum, 2)[2]
  <2>1. 2*h \in 0 .. 2*m - 1 /\ 2*h + 1 \in 0 .. 2*m - 1 /\ (2*h + 1) + 1 = 2*h + 2
    OBVIOUS
  <2> QED
    BY <1>1, <1>3, <2>1
<1> HIDE DEF a, b
<1>8. PICK g : Sums(b, h, g) /\ calc_checksum16(b, 2*h) = Word - 1 - Fold(Fold(g[h]))
  BY <1>4, EvenChecksum, Zenon
<1>9. PICK f : Sums(a, m, f)
  <2> HIDE DEF m
  <2> QED
    BY <1>3, <1>5, EvenChecksum
<1>10. Sums(a, h, f)
  <2>1. \A i \in 0 .. h : i \in 0 .. m
    OBVIOUS
  <2>2. \A i \in 1 .. h : i \in 1 .. m
    OBVIOUS
  <2> QED
    BY <1>9, <2>1, <2>2, Zenon DEF Sums
<1>11. f[h] = g[h]
  BY <1>4, <1>8, <1>10, SumsAgree
<1>12. g[h] \in Nat /\ g[h] < Word * Word
  <2>1. h <= Word /\ h \in 0 .. h
    BY <1>5, WordFacts
  <2> QED
    BY <1>8, <2>1, SumBound
<1> DEFINE z == Fold(Fold(g[h]))
<1>13. z \in 0 .. Word - 1
  BY <1>12, FoldTwice
<1>14. PICK q \in Nat : g[h] = q * (Word - 1) + z
  BY <1>12, FoldTwice
<1> HIDE DEF z
<1>15. sum = Word - 1 - z /\ sum \in 0 .. Word - 1 /\ Word \in Nat /\ Word > 7
  BY <1>6, <1>8, <1>13, WordFacts DEF z
<1>16. Pack(sum, 2)[1] + Radix * Pack(sum, 2)[2] = sum
  BY <1>15, PackWord
<1>17. f[m] = a[2*m - 2] + Radix * a[2*m - 1] + f[m - 1]
  <2>1. m \in 1 .. m
    BY <1>5
  <2> HIDE DEF m
  <2> QED
    BY <1>9, <2>1 DEF Sums
<1>18. f[m] = sum + g[h]
  <2>1. 2*m - 2 = 2*h /\ 2*m - 1 = 2*h + 1 /\ m - 1 = h
    OBVIOUS
  <2> QED
    BY <1>7, <1>11, <1>16, <1>17, <2>1
<1>19. f[m] = (q + 1) * (Word - 1)
  <2> DEFINE d == Word - 1
  <2>1. d \in Nat /\ g[h] = q * d + z /\ sum = d - z /\ z \in Nat
    BY <1>13, <1>14, <1>15
  <2> HIDE DEF d
  <2>2. (q + 1) * d = q * d + d /\ q * d \in Nat
    BY <2>1
  <2>3. f[m] = (q + 1) * d
    BY <1>18, <2>1, <2>2
  <2> QED
    BY <2>3 DEF d
<1>20. q + 1 \in Nat \ {0} /\ Len(image) = 2*m
  BY <1>1
<1>21. \E g_1 : Sums(a, m, g_1) /\ \E q_1 \in Nat \ {0} : g_1[m] = q_1 * (Word - 1)
  BY <1>9, <1>19, <1>20, Zenon
<1> HIDE DEF m
<1> QED
  BY <1>5, <1>20, <1>21, Zenon DEF a, image

\* The loader finds the checksum of an intact image right.
LEMMA IntactChecksum ==
    ASSUME NEW c \in Files, Len(process_config_file(c)) <= PROM_MAX_LENGTH,
           NEW b, \A i \in 0 .. Len(process_config_file(c)) - 1 :
                     b[i] = process_config_file(c)[i + 1]
    PROVE  calc_checksum16(b, Len(process_config_file(c))) = 0
<1> DEFINE image == process_config_file(c)
<1>1. PICK h \in Nat \ {0} :
         /\ h <= Word /\ Len(image) = 2*h
         /\ \E g : /\ Sums([i \in 0 .. 2*h - 1 |-> image[i + 1]], h, g)
                   /\ \E q \in Nat \ {0} : g[h] = q * (Word - 1)
  BY ImageSum
<1>2. image \in Seq(Bytes)
  BY ImageBytes DEF Files
<1> HIDE DEF image
<1> DEFINE a == [i \in 0 .. 2*h - 1 |-> image[i + 1]]
<1>3. PICK g : Sums(a, h, g) /\ \E q \in Nat \ {0} : g[h] = q * (Word - 1)
  BY <1>1
<1>4. \A i \in 0 .. 2*h - 1 : b[i] \in Bytes /\ b[i] = a[i]
  BY <1>1, <1>2 DEF image
<1> HIDE DEF a
<1>5. PICK f : Sums(b, h, f) /\ calc_checksum16(b, 2*h) = Word - 1 - Fold(Fold(f[h]))
  BY <1>4, EvenChecksum, Zenon
<1>6. f[h] = g[h]
  BY <1>3, <1>4, <1>5, SumsAgree
<1>7. f[h] \in Nat /\ f[h] < Word * Word
  <2>1. h \in 0 .. h
    OBVIOUS
  <2> QED
    BY <1>1, <1>5, <2>1, SumBound
<1>8. PICK q \in Nat \ {0} : f[h] = q * (Word - 1)
  BY <1>3, <1>6
<1>9. q * (Word - 1) > 0
  BY WordFacts
<1>10. Word - 1 - Fold(Fold(f[h])) = 0
  BY <1>7, <1>8, <1>9, ZeroChecksum
<1> QED
  BY <1>1, <1>5, <1>10 DEF image

\* And wrong if one byte has another value.
LEMMA DamagedChecksum ==
    ASSUME NEW c \in Files, Len(process_config_file(c)) <= PROM_MAX_LENGTH,
           NEW b, \A i \in 0 .. Len(process_config_file(c)) - 1 : b[i] \in Bytes,
           NEW j \in 0 .. Len(process_config_file(c)) - 1,
           b[j] # process_config_file(c)[j + 1],
           \A i \in (0 .. Len(process_config_file(c)) - 1) \ {j} :
                     b[i] = process_config_file(c)[i + 1]
    PROVE  calc_checksum16(b, Len(process_config_file(c))) # 0
<1> DEFINE image == process_config_file(c)
<1>1. PICK h \in Nat \ {0} :
         /\ h <= Word /\ Len(image) = 2*h
         /\ \E g : /\ Sums([i \in 0 .. 2*h - 1 |-> image[i + 1]], h, g)
                   /\ \E q \in Nat \ {0} : g[h] = q * (Word - 1)
  BY ImageSum
<1>2. \A i \in 0 .. 2*h - 1 : b[i] \in Bytes
  BY <1>1
<1>3. /\ j \in 0 .. 2*h - 1 /\ b[j] # image[j + 1]
      /\ \A i \in (0 .. 2*h - 1) \ {j} : b[i] = image[i + 1]
  BY <1>1
<1> HIDE DEF image
<1> DEFINE a == [i \in 0 .. 2*h - 1 |-> image[i + 1]]
<1>4. PICK g : Sums(a, h, g) /\ \E q \in Nat \ {0} : g[h] = q * (Word - 1)
  BY <1>1
<1>5. b[j] # a[j] /\ \A i \in (0 .. 2*h - 1) \ {j} : b[i] = a[i]
  BY <1>3
<1> HIDE DEF a
<1>6. PICK f : Sums(b, h, f) /\ calc_checksum16(b, 2*h) = Word - 1 - Fold(Fold(f[h]))
  BY <1>2, EvenChecksum, Zenon
<1>7. f[h] # g[h] /\ f[h] - g[h] < Word - 1 /\ g[h] - f[h] < Word - 1
  BY <1>3, <1>4, <1>5, <1>6, SumsDiffer
<1>8. f[h] \in Nat /\ f[h] < Word * Word
  <2>1. h \in 0 .. h
    OBVIOUS
  <2> QED
    BY <1>1, <1>6, <2>1, SumBound
<1>9. PICK q \in Nat : g[h] = q * (Word - 1)
  BY <1>4
<1>10. ASSUME Word - 1 - Fold(Fold(f[h])) = 0
       PROVE  FALSE
  <2>1. PICK p \in Nat : f[h] = p * (Word - 1)
    BY <1>8, <1>10, ZeroChecksum
  <2> DEFINE d == Word - 1
             u == p - q
  <2>2. d \in Nat \ {0} /\ f[h] = p * d /\ g[h] = q * d
    BY <1>9, <2>1, WordFacts
  <2>3. f[h] # g[h] /\ f[h] - g[h] < d /\ g[h] - f[h] < d
    BY <1>7
  <2> HIDE DEF d
  <2>4. f[h] - g[h] = u * d
    BY <2>2
  <2>5. u \in Int /\ d \in Nat \ {0}
    BY <2>2
  <2>6. u # 0
    BY <2>2, <2>3
  <2> HIDE DEF u
  <2>7. f[h] \in Int /\ g[h] \in Int
    BY <2>2
  <2>8. CASE u >= 1
    <3>1. u * d >= d
      BY <2>5, <2>8
    <3>2. f[h] - g[h] >= d
      BY <2>4, <3>1, Zenon
    <3> QED
      BY <2>3, <2>5, <2>7, <3>2
  <2>9. CASE u <= -1
    <3>1. u * d <= -d
      BY <2>5, <2>9
    <3>2. f[h] - g[h] <= -d
      BY <2>4, <3>1, Zenon
    <3> QED
      BY <2>3, <2>5, <2>7, <3>2
  <2> QED
    BY <2>5, <2>6, <2>8, <2>9
<1> QED
  BY <1>1, <1>6, <1>10 DEF image

-----------------------------------------------------------------------------
(* The walk over an image. *)

\* The heads of the entries in a PROM p are those of the lines of c.
Laid(p, c) ==
    /\ \A i \in 1 .. Len(Magic) : p[i - 1] = Magic[i]
    /\ p[Len(Magic)] = PROM_VERSION
    /\ \A k \in 1 .. Len(Entries(c)) :
         /\ At(c, k - 1) < PROM_MAX_LENGTH => p[At(c, k - 1)] = dump_line(Entries(c)[k])[1]
         /\ At(c, k - 1) + 1 < PROM_MAX_LENGTH =>
                p[At(c, k - 1) + 1] = Len(dump_line(Entries(c)[k])) - 2
    /\ At(c, Len(Entries(c))) < PROM_MAX_LENGTH => p[At(c, Len(Entries(c)))] = PROM_END_TAG
    /\ At(c, Len(Entries(c))) + 1 < PROM_MAX_LENGTH =>
         /\ p[At(c, Len(Entries(c))) + 1] \in {2, 3}
         /\ At(c, Len(Entries(c))) + p[At(c, Len(Entries(c))) + 1] + 2 = Len(process_config_file(c))

\* An image that was burnt is laid out so.
LEMMA BurntIsLaid ==
    ASSUME NEW c \in Files, NEW p,
           \A i \in 0 .. Len(process_config_file(c)) - 1 :
              i < PROM_MAX_LENGTH => p[i] = process_config_file(c)[i + 1]
    PROVE  Laid(p, c)
<1> DEFINE image == process_config_file(c)
           at == At(c, Len(Entries(c)))
<1>1. PICK s \in {2, 3} : /\ Len(image) = at + s + 2
                          /\ image[at + 1] = 0 /\ image[at + 2] = s
  BY ImageEnd
<1>2. Len(Entries(c)) \in Nat /\ at \in Nat /\ At(c, 0) = Len(Magic) + 1 /\ At(c, 0) <= at
      /\ Len(Magic) \in Nat /\ Len(Magic) + 1 < PROM_MAX_LENGTH /\ PROM_MAX_LENGTH \in Nat
  <2>1. Len(Entries(c)) \in Nat
    BY Lengths
  <2>2. 0 \in 0 .. Len(Entries(c)) /\ Len(Entries(c)) \in 0 .. Len(Entries(c))
    BY <2>1
  <2> QED
    BY <2>1, <2>2, Lengths, Prefix, PromAssumption, HeaderBytes, Zenon DEF PROM_FIRST_ENTRY_OFFSET
<1>3. \A i \in 0 .. Len(image) - 1 : i < PROM_MAX_LENGTH => p[i] = image[i + 1]
  OBVIOUS
<1>4. (\A i \in 1 .. Len(Magic) : image[i] = Magic[i]) /\ image[Len(Magic) + 1] = PROM_VERSION
  BY ImageStart
<1>5. Len(image) \in Nat /\ Len(image) >= at + 4 /\ at \in Nat
  <2> HIDE DEF at, image
  <2> QED
    BY <1>1, <1>2
<1> HIDE DEF image
<1>6. \A i \in 1 .. Len(Magic) : p[i - 1] = Magic[i]
  <2> SUFFICES ASSUME NEW i \in 1 .. Len(Magic) PROVE p[i - 1] = Magic[i]
    OBVIOUS
  <2>1. i - 1 \in 0 .. Len(image) - 1 /\ i - 1 < PROM_MAX_LENGTH /\ (i - 1) + 1 = i
    BY <1>2, <1>5
  <2>2. p[i - 1] = image[(i - 1) + 1]
    BY <1>3, <2>1, Zenon
  <2> QED
    BY <1>4, <2>1, <2>2
<1>7. p[Len(Magic)] = PROM_VERSION
  <2>1. Len(Magic) \in 0 .. Len(image) - 1 /\ Len(Magic) < PROM_MAX_LENGTH
    BY <1>2, <1>5
  <2> QED
    BY <1>3, <1>4, <2>1
<1>8. ASSUME NEW k \in 1 .. Len(Entries(c))
      PROVE  /\ At(c, k - 1) < PROM_MAX_LENGTH => p[At(c, k - 1)] = dump_line(Entries(c)[k])[1]
             /\ At(c, k - 1) + 1 < PROM_MAX_LENGTH =>
                    p[At(c, k - 1) + 1] = Len(dump_line(Entries(c)[k])) - 2
  <2> DEFINE e == At(c, k - 1)
             d == dump_line(Entries(c)[k])
  <2>1. k - 1 \in 0 .. Len(Entries(c)) /\ k - 1 < Len(Entries(c))
    BY <1>2
  <2>2. /\ e \in Nat /\ e + 2 <= at /\ Len(d) \in Nat /\ Len(d) >= 2
    BY <2>1, Lengths, Prefix, Zenon
  <2>3. d[2] = Len(d) - 2
    <3>1. Entries(c)[k] \in EntryLines
      BY WrittenBytes
    <3> QED
      BY <3>1, Dumped
  <2>4. \A j \in 1 .. Len(d) : image[e + j] = d[j]
    BY ImageLines DEF image
  <2> HIDE DEF e, d
  <2>5. 1 \in 1 .. Len(d) /\ 2 \in 1 .. Len(d)
    BY <2>2
  <2>6. image[e + 1] = d[1] /\ image[e + 2] = d[2]
    BY <2>4, <2>5
  <2>7. e \in 0 .. Len(image) - 1 /\ e + 1 \in 0 .. Len(image) - 1 /\ (e + 1) + 1 = e + 2
    BY <1>5, <2>2
  <2>8. e < PROM_MAX_LENGTH => p[e] = image[e + 1]
    BY <1>3, <2>7, Zenon
  <2>9. e + 1 < PROM_MAX_LENGTH => p[e + 1] = image[(e + 1) + 1]
    BY <1>3, <2>7, Zenon
  <2>10. (e < PROM_MAX_LENGTH => p[e] = d[1]) /\ (e + 1 < PROM_MAX_LENGTH => p[e + 1] = Len(d) - 2)
    BY <2>3, <2>6, <2>7, <2>8, <2>9
  <2> QED
    BY <2>10 DEF e, d
<1>9. /\ at < PROM_MAX_LENGTH => p[at] = 0
      /\ at + 1 < PROM_MAX_LENGTH => p[at + 1] = s
  <2>1. at \in 0 .. Len(image) - 1 /\ at + 1 \in 0 .. Len(image) - 1 /\ (at + 1) + 1 = at + 2
    BY <1>5
  <2>2. at < PROM_MAX_LENGTH => p[at] = image[at + 1]
    BY <1>3, <2>1, Zenon
  <2>3. at + 1 < PROM_MAX_LENGTH => p[at + 1] = image[(at + 1) + 1]
    BY <1>3, <2>1, Zenon
  <2> QED
    BY <1>1, <2>1, <2>2, <2>3
<1> HIDE DEF at
<1>10. at + 1 < PROM_MAX_LENGTH =>
         p[at + 1] \in {2, 3} /\ at + p[at + 1] + 2 = Len(image)
  BY <1>1, <1>9
<1> QED
  BY <1>6, <1>7, <1>8, <1>9, <1>10, Zenon DEF Laid, at, image, PROM_END_TAG

\* The walk over it meets an entry for every line, and ends at the end entry,
\* unless the PROM ends before.
LEMMA ImageWalk ==
    ASSUME IsProm(prom), NEW c \in Files, Laid(prom, c),
           walk_end + 1 < PROM_MAX_LENGTH \/ At(c, Len(Entries(c))) + 1 < PROM_MAX_LENGTH
    PROVE  /\ buff = prom
           /\ Len(prom_for_each_entry) = Len(Entries(c))
           /\ walk_end = At(c, Len(Entries(c))) /\ walk_end + 1 < PROM_MAX_LENGTH
           /\ \A k \in 1 .. Len(Entries(c)) : prom_for_each_entry[k] = At(c, k - 1)
<1> DEFINE seen == prom_for_each_entry
           n == Len(Entries(c))
           at == At(c, n)
           M == PROM_MAX_LENGTH
           T == {k \in 0 .. n : k <= Len(seen) /\ Place(k + 1) = At(c, k)}
<1>1. buff = prom
  <2>1. DOMAIN Magic = 1 .. Len(Magic)
    BY HeaderBytes
  <2> QED
    BY <2>1, Zenon DEF Laid, check_magic, buff
<1>2. /\ Len(seen) \in Nat /\ Place(1) = PROM_FIRST_ENTRY_OFFSET
      /\ Place(Len(seen) + 1) = walk_end /\ walk_end \in 0 .. M + Radix
      /\ walk_end < M => tag(walk_end) = PROM_END_TAG
      /\ \A k \in 1 .. Len(seen) :
           /\ Place(k) = seen[k] /\ Place(k) \in 0 .. M - 1 /\ Place(k) < walk_end
           /\ tag(Place(k)) # PROM_END_TAG
           /\ Place(k + 1) = Place(k) + size(Place(k)) + 2
  BY Places
<1>3. n \in Nat /\ M \in Nat /\ Radix \in Nat /\ at \in Nat /\ At(c, 0) = PROM_FIRST_ENTRY_OFFSET
  <2>1. n \in Nat /\ At(c, 0) = PROM_FIRST_ENTRY_OFFSET
    BY Lengths
  <2>2. n \in 0 .. n
    BY <2>1
  <2> QED
    BY <2>1, <2>2, Lengths, PromAssumption, Zenon
<1> HIDE DEF seen
<1>4. 0 \in T
  <2>1. 0 + 1 = 1
    OBVIOUS
  <2> QED
    BY <1>2, <1>3, <2>1
<1>5. ASSUME NEW k \in 1 .. n, k - 1 \in T
      PROVE  k \in T
  <2> DEFINE e == At(c, k - 1)
             d == dump_line(Entries(c)[k])
  <2>1. k - 1 \in 0 .. n /\ k - 1 < n /\ (k - 1) + 1 = k /\ k \in 0 .. n
    BY <1>3
  <2>2. e \in Nat /\ e + 2 <= at /\ At(c, k) = e + Len(d) /\ Len(d) \in Nat
    BY <2>1, Lengths, Prefix, Zenon
  <2>3. k - 1 <= Len(seen) /\ Place(k) = e
    BY <1>5, <2>1
  <2>4. (e < M => buff[e] = d[1]) /\ (e + 1 < M => buff[e + 1] = Len(d) - 2)
    BY <1>1 DEF Laid
  <2>5. d[1] # PROM_END_TAG
    <3>1. Entries(c)[k] \in EntryLines
      BY WrittenBytes
    <3> QED
      BY <3>1, Dumped
  <2> HIDE DEF e, d
  <2>6. k \in 1 .. Len(seen)
    <3>1. ASSUME k - 1 = Len(seen) PROVE FALSE
      <4>1. walk_end = e
        BY <1>2, <2>1, <2>3, <3>1
      <4>2. e < M
        BY <1>2, <1>3, <2>2, <4>1
      <4> QED
        BY <1>2, <2>4, <2>5, <4>1, <4>2 DEF tag
    <3> QED
      BY <1>2, <2>1, <2>3, <3>1
  <2>7. e + 1 < M
    <3>1. e < walk_end
      BY <1>2, <2>3, <2>6
    <3> QED
      BY <1>2, <1>3, <2>2, <3>1
  <2>8. Place(k + 1) = e + (Len(d) - 2) + 2
    BY <1>2, <2>3, <2>4, <2>6, <2>7 DEF size
  <2>9. Place(k + 1) = At(c, k) /\ k <= Len(seen)
    BY <1>2, <2>2, <2>6, <2>8
  <2> QED
    BY <2>1, <2>9
<1>6. \A k \in 0 .. n : k \in T
  <2> HIDE DEF T, n
  <2> QED
    BY <1>3, <1>4, <1>5, Induction
<1>7. n <= Len(seen) /\ Place(n + 1) = at
  BY <1>3, <1>6
<1>8. n = Len(seen)
  <2>1. ASSUME n # Len(seen) PROVE FALSE
    <3>1. n + 1 \in 1 .. Len(seen)
      BY <1>2, <1>3, <1>7, <2>1
    <3>2. at < M /\ tag(at) # PROM_END_TAG
      BY <1>2, <1>3, <1>7, <3>1
    <3> QED
      BY <1>1, <3>2 DEF Laid, tag
  <2> QED
    BY <2>1
<1>9. walk_end = at
  BY <1>2, <1>7, <1>8
<1>10. ASSUME NEW k \in 1 .. n
       PROVE  seen[k] = At(c, k - 1)
  <2>1. k - 1 \in 0 .. n /\ (k - 1) + 1 = k
    BY <1>3
  <2>2. Place(k) = At(c, k - 1)
    BY <1>6, <2>1
  <2> QED
    BY <1>2, <1>8, <2>2
<1> QED
  BY <1>1, <1>8, <1>9, <1>10 DEF seen

-----------------------------------------------------------------------------
(* The inductive invariant for images of the creator. *)

\* The PROM holds the image, or the image with one byte changed.
Intact(image) == \A i \in 0 .. Len(image) - 1 : i < PROM_MAX_LENGTH => prom[i] = image[i + 1]

OneChanged(image) ==
    /\ Len(image) < PROM_MAX_LENGTH
    /\ \E j \in 0 .. Len(image) - 1 :
         /\ prom[j] # image[j + 1]
         /\ \A i \in (0 .. Len(image) - 1) \ {j} : prom[i] = image[i + 1]

ImageInv ==
    WellFormed(config) =>
        /\ Laid(prom, config)
        /\ ~ damaged => Intact(process_config_file(config))
        /\ damaged => OneChanged(process_config_file(config))

\* It is accepted just when it is intact and fits.
OutcomeInv ==
    /\ damaged \in BOOLEAN /\ (damaged => WellFormed(config))
    /\ WellFormed(config) /\ pc \in Accepted =>
           ~ damaged /\ Len(process_config_file(config)) < PROM_MAX_LENGTH
    /\ WellFormed(config) /\ pc = "rejected" =>
           damaged \/ Len(process_config_file(config)) >= PROM_MAX_LENGTH

-----------------------------------------------------------------------------
(* The image in the PROM. *)

\* At first it is intact.
LEMMA InitImage == Init => ImageInv /\ OutcomeInv
<1> SUFFICES ASSUME Init PROVE ImageInv /\ OutcomeInv
  OBVIOUS
<1>1. pc = "load" /\ damaged = FALSE
  BY DEF Init
<1>2. OutcomeInv
  BY <1>1 DEF OutcomeInv, Accepted
<1>3. ASSUME WellFormed(config)
      PROVE  Laid(prom, config) /\ Intact(process_config_file(config))
  <2>1. PICK fill \in Fill : config \in Configs /\ prom = Burn(process_config_file(config), fill)
    <3>1. config # <<>>
      BY <1>3 DEF WellFormed
    <3> QED
      BY <3>1 DEF Init
  <2>2. config \in Files
    BY <1>3, <2>1 DEF Files
  <2> DEFINE image == process_config_file(config)
  <2>3. Len(image) \in Nat /\ PROM_MAX_LENGTH \in Nat
    BY <2>2, ImageBytes, PromAssumption DEF Files
  <2>4. Intact(image)
    <3> HIDE DEF image
    <3> SUFFICES ASSUME NEW i \in 0 .. Len(image) - 1, i < PROM_MAX_LENGTH
                 PROVE  prom[i] = image[i + 1]
      BY DEF Intact
    <3>1. i \in 0 .. PROM_MAX_LENGTH /\ i # PROM_MAX_LENGTH /\ i < Len(image)
      BY <2>3
    <3> QED
      BY <2>1, <3>1 DEF Burn, image
  <2>5. Laid(prom, config)
    BY <2>2, <2>4, BurntIsLaid DEF Intact
  <2> QED
    BY <2>4, <2>5
<1> QED
  BY <1>1, <1>2, <1>3 DEF ImageInv

\* Damage changes one byte, and no head of an entry.
LEMMA DamageOne ==
    ASSUME IInv, ImageInv, Damage
    PROVE  ImageInv'
<1> DEFINE c == config
           image == process_config_file(c)
           n == Len(Entries(c))
           M == PROM_MAX_LENGTH
           first == PROM_FIRST_ENTRY_OFFSET
           seen == prom_for_each_entry
<1>1. /\ WellFormed(config) /\ damaged = FALSE /\ damaged' = TRUE /\ config' = config
      /\ Len(image) < M
  BY DEF Damage, ImageInv
<1>2. PICK i \in (first .. Len(image) - 1) \ Heads :
          \E b \in Bytes \ {prom[i]} : prom' = [prom EXCEPT ![i] = b]
  BY DEF Damage
<1>3. PICK b \in Bytes \ {prom[i]} : prom' = [prom EXCEPT ![i] = b]
  BY <1>2
<1>4. c \in Files /\ IsProm(prom) /\ Laid(prom, c) /\ Intact(image)
  BY <1>1, ConfigFile DEF IInv, PromInv, ImageInv
<1>5. /\ n \in Nat /\ At(c, n) \in Nat /\ M \in Nat /\ first \in Nat /\ first = Len(Magic) + 1
      /\ Len(Magic) \in Nat
  <2>1. n \in Nat
    BY <1>4, Lengths
  <2>2. n \in 0 .. n
    BY <2>1
  <2> QED
    BY <1>4, <2>1, <2>2, Lengths, PromAssumption, HeaderBytes DEF PROM_FIRST_ENTRY_OFFSET
<1>6. Len(image) \in Nat /\ At(c, n) + 1 < M
  <2>1. \E s \in {2, 3} : Len(image) = At(c, n) + s + 2
    BY <1>4, ImageEnd
  <2> HIDE DEF image, c
  <2> QED
    BY <1>1, <1>5, <2>1
<1>7. /\ Len(seen) = n /\ walk_end = At(c, n)
      /\ \A k \in 1 .. n : seen[k] = At(c, k - 1)
  BY <1>4, <1>6, ImageWalk
<1>8. DOMAIN seen = 1 .. n
  BY <1>4, <1>7, Places
<1>9. /\ \A k \in 1 .. n : i # At(c, k - 1) /\ i # At(c, k - 1) + 1
      /\ i # At(c, n) /\ i # At(c, n) + 1
  <2>1. \A k \in DOMAIN seen, d \in 0 .. 1 : seen[k] + d \in Heads
    BY DEF Heads
  <2>2. walk_end \in Heads /\ walk_end + 1 \in Heads
    BY DEF Heads
  <2>3. \A k \in 1 .. n : seen[k] + 0 \in Heads /\ seen[k] + 1 \in Heads
    BY <1>8, <2>1
  <2>4. ASSUME NEW k \in 1 .. n
        PROVE  At(c, k - 1) \in Heads /\ At(c, k - 1) + 1 \in Heads
    <3>1. k - 1 \in 0 .. n
      BY <1>5
    <3>2. At(c, k - 1) \in Nat
      BY <1>4, <3>1, Lengths
    <3>3. At(c, k - 1) + 0 = At(c, k - 1)
      BY <3>2
    <3> QED
      BY <1>7, <2>3, <3>3
  <2> QED
    BY <1>2, <1>7, <2>2, <2>4
<1>10. DOMAIN prom = 0 .. M
  BY <1>4 DEF IsProm
<1>11. i \in 0 .. Len(image) - 1 /\ i \in 0 .. M /\ i > Len(Magic)
  BY <1>1, <1>2, <1>5, <1>6
<1>12. prom'[i] = b /\ b # prom[i]
  BY <1>3, <1>10, <1>11
<1>13. \A j \in 0 .. M : j # i => prom'[j] = prom[j]
  BY <1>3, <1>10
<1>14. OneChanged(image)'
  <2>1. \A j \in 0 .. Len(image) - 1 : prom[j] = image[j + 1] /\ j \in 0 .. M
    <3>1. \A j \in 0 .. Len(image) - 1 : j < M /\ j \in 0 .. M
      BY <1>1, <1>5, <1>6
    <3> QED
      BY <1>4, <3>1 DEF Intact
  <2>2. prom'[i] # image[i + 1]
    BY <1>11, <1>12, <2>1
  <2>3. \A j \in (0 .. Len(image) - 1) \ {i} : prom'[j] = image[j + 1]
    BY <1>13, <2>1
  <2>4. image' = image
    BY <1>1, Zenon
  <2> HIDE DEF image
  <2> QED
    BY <1>1, <1>11, <2>2, <2>3, <2>4, Zenon DEF OneChanged
<1>15. Laid(prom', c)
  <2>1. \A k \in 1 .. Len(Magic) : k - 1 \in 0 .. M /\ k - 1 # i
    <3>1. Len(Magic) < M
      BY PromAssumption
    <3> QED
      BY <1>5, <1>11, <3>1
  <2>2. Len(Magic) \in 0 .. M /\ Len(Magic) # i
    BY <1>5, <1>11, PromAssumption
  <2>3. \A k \in 1 .. n : /\ At(c, k - 1) < M => At(c, k - 1) \in 0 .. M
                          /\ At(c, k - 1) + 1 < M => At(c, k - 1) + 1 \in 0 .. M
    <3> SUFFICES ASSUME NEW k \in 1 .. n
                 PROVE  /\ At(c, k - 1) < M => At(c, k - 1) \in 0 .. M
                        /\ At(c, k - 1) + 1 < M => At(c, k - 1) + 1 \in 0 .. M
      OBVIOUS
    <3>1. k - 1 \in 0 .. n
      BY <1>5
    <3>2. At(c, k - 1) \in Nat
      BY <1>4, <3>1, Lengths
    <3> QED
      BY <1>5, <3>2
  <2>4. At(c, n) \in 0 .. M /\ At(c, n) + 1 \in 0 .. M
    BY <1>5, <1>6
  <2> HIDE DEF M, c, n
  <2>5. \A k \in 1 .. Len(Magic) : prom'[k - 1] = prom[k - 1]
    BY <1>13, <2>1, Zenon
  <2>6. prom'[Len(Magic)] = prom[Len(Magic)]
    BY <1>13, <2>2, Zenon
  <2>7. \A k \in 1 .. n : /\ At(c, k - 1) < M => prom'[At(c, k - 1)] = prom[At(c, k - 1)]
                          /\ At(c, k - 1) + 1 < M =>
                               prom'[At(c, k - 1) + 1] = prom[At(c, k - 1) + 1]
    BY <1>9, <1>13, <2>3, Zenon
  <2>8. prom'[At(c, n)] = prom[At(c, n)] /\ prom'[At(c, n) + 1] = prom[At(c, n) + 1]
    BY <1>9, <1>13, <2>4, Zenon
  <2> QED
    BY <1>4, <2>5, <2>6, <2>7, <2>8, Zenon DEF Laid, M, n
<1> QED
  BY <1>1, <1>14, <1>15 DEF ImageInv

\* No other step writes the PROM.
LEMMA ImageKeeps ==
    ASSUME IInv, ImageInv, [Next]_vars
    PROVE  ImageInv'
<1>1. CASE Damage
  BY <1>1, DamageOne
<1>2. CASE UNCHANGED <<prom, config, damaged>>
  BY <1>2 DEF ImageInv, Intact, OneChanged
<1>3. Damage \/ UNCHANGED <<prom, config, damaged>>
  BY DEF Next, vars, load_prom, scan_entry, scan_end, initialise_board,
     create_device_nodes, device_create, nodes_created, amc_pci_open,
     destroy_device_nodes, promVars
<1> QED
  BY <1>1, <1>2, <1>3

-----------------------------------------------------------------------------
(* What the loader says to it. *)

\* The loader is at the end of the walk when it checks the end marker.
LEMMA AtWalkEnd ==
    ASSUME IInv, pc = "scan", AtEnd
    PROVE  ent_i = walk_end /\ walk_end \in Nat
<1> DEFINE seen == prom_for_each_entry
<1>1. nentries \in 0 .. Len(seen) /\ ent_i = Place(nentries + 1)
  BY DEF IInv, ScanInv
<1>2. /\ Len(seen) \in Nat /\ Place(Len(seen) + 1) = walk_end
      /\ walk_end \in 0 .. PROM_MAX_LENGTH + Radix
      /\ \A k \in 1 .. Len(seen) : /\ Place(k) \in 0 .. PROM_MAX_LENGTH - 1
                                   /\ tag(Place(k)) # PROM_END_TAG
  BY Places DEF IInv, PromInv
<1>3. nentries = Len(seen)
  <2>1. ASSUME nentries # Len(seen) PROVE FALSE
    <3>1. nentries + 1 \in 1 .. Len(seen)
      BY <1>1, <1>2, <2>1
    <3>2. ent_i < PROM_MAX_LENGTH /\ tag(ent_i) # PROM_END_TAG
      BY <1>1, <1>2, <3>1, PromAssumption
    <3> QED
      BY <3>2 DEF AtEnd
  <2> QED
    BY <2>1
<1> QED
  BY <1>1, <1>2, <1>3, PromAssumption

\* It accepts the image if and only if it is intact and fits.
LEMMA EndOutcome ==
    ASSUME IInv, ImageInv, OutcomeInv, scan_end
    PROVE  OutcomeInv'
<1> DEFINE c == config
           image == process_config_file(c)
           n == Len(Entries(c))
           M == PROM_MAX_LENGTH
<1>1. pc = "scan" /\ AtEnd /\ UNCHANGED <<prom, config, damaged>>
  BY DEF scan_end, promVars
<1>2. PICK s \in (IF ent_i < M THEN {size(ent_i)} ELSE Bytes) :
        /\ data_len' = ent_i + s + 2
        /\ pc' = IF /\ data_len' < M /\ tag(ent_i) = PROM_END_TAG
                    /\ s \in {PROM_CHECKSUM_SIZE, PROM_CHECKSUM_SIZE + 1}
                    /\ calc_checksum16(buff, data_len') = 0
                 THEN "loaded" ELSE "rejected"
  BY DEF scan_end
<1>3. ent_i = walk_end /\ walk_end \in Nat /\ M \in Nat
  BY <1>1, AtWalkEnd, PromAssumption
<1>4. s \in Nat
  <2>1. IsProm(buff)
    BY BuffIsProm DEF IInv, PromInv
  <2>2. ent_i < M => size(ent_i) \in Bytes
    BY <1>3, <2>1 DEF IsProm, size
  <2>3. Bytes \subseteq Nat
    BY PromAssumption DEF Bytes
  <2> QED
    BY <1>2, <2>2, <2>3
<1>5. damaged' \in BOOLEAN /\ (damaged' => WellFormed(config'))
  BY <1>1 DEF OutcomeInv
<1>6. CASE ~ WellFormed(config)
  BY <1>1, <1>5, <1>6 DEF OutcomeInv
<1>7. CASE WellFormed(config)
  <2>1. c \in Files /\ IsProm(prom) /\ Laid(prom, c) /\ damaged \in BOOLEAN
        /\ (~ damaged => Intact(image)) /\ (damaged => OneChanged(image))
    BY <1>7, ConfigFile DEF IInv, PromInv, ImageInv, OutcomeInv
  <2>2. At(c, n) \in Nat
    <3>1. n \in 0 .. n
      BY <2>1, Lengths
    <3> QED
      BY <2>1, <3>1, Lengths
  <2>3. image \in Seq(Bytes) /\ Len(image) \in Nat
    BY <2>1, ImageBytes DEF Files
  <2>4. ASSUME walk_end + 1 < M \/ At(c, n) + 1 < M
        PROVE  /\ buff = prom /\ ent_i < M /\ s \in {2, 3} /\ data_len' = Len(image)
               /\ tag(ent_i) = PROM_END_TAG
    <3>1. buff = prom /\ walk_end = At(c, n) /\ walk_end + 1 < M
      BY <2>1, <2>4, ImageWalk
    <3>2. ent_i < M /\ s = prom[At(c, n) + 1]
      BY <1>2, <1>3, <3>1 DEF size
    <3>3. prom[At(c, n) + 1] \in {2, 3} /\ At(c, n) + prom[At(c, n) + 1] + 2 = Len(image)
      BY <2>1, <3>1 DEF Laid
    <3>4. prom[At(c, n)] = PROM_END_TAG
      BY <1>3, <2>1, <3>1, <3>2 DEF Laid
    <3> QED
      BY <1>2, <1>3, <3>1, <3>2, <3>3, <3>4 DEF tag
  <2>5. CASE pc' = "loaded"
    <3>1. data_len' < M /\ calc_checksum16(buff, data_len') = 0
      BY <1>2, <2>5
    <3>2. walk_end + 1 < M
      BY <1>2, <1>3, <1>4, <3>1
    <3>3. buff = prom /\ data_len' = Len(image)
      BY <2>4, <3>2
    <3>4. Len(image) < M /\ calc_checksum16(prom, Len(image)) = 0
      BY <3>1, <3>3
    <3>5. ~ damaged
      <4> SUFFICES ASSUME damaged PROVE FALSE
        OBVIOUS
      <4>1. PICK j \in 0 .. Len(image) - 1 :
              /\ prom[j] # image[j + 1]
              /\ \A i \in (0 .. Len(image) - 1) \ {j} : prom[i] = image[i + 1]
        BY <2>1 DEF OneChanged
      <4>2. \A i \in 0 .. Len(image) - 1 : prom[i] \in Bytes
        <5>1. \A i \in 0 .. Len(image) - 1 : i \in 0 .. M
          BY <1>3, <2>3, <3>4
        <5> QED
          BY <2>1, <5>1 DEF IsProm
      <4>3. Len(image) <= M
        BY <1>3, <2>3, <3>4
      <4>4. calc_checksum16(prom, Len(image)) # 0
        BY <2>1, <4>1, <4>2, <4>3, DamagedChecksum, Zenon
      <4> QED
        BY <3>4, <4>4
    <3> QED
      BY <1>1, <1>5, <2>5, <3>4, <3>5 DEF OutcomeInv
  <2>6. CASE pc' = "rejected"
    <3> SUFFICES ASSUME ~ damaged, Len(image) < M PROVE FALSE
      BY <1>1, <1>3, <1>5, <2>3, <2>6 DEF OutcomeInv, Accepted
    <3>1. At(c, n) + 1 < M
      <4>1. \E t \in {2, 3} : Len(image) = At(c, n) + t + 2
        BY <2>1, ImageEnd
      <4> HIDE DEF image, c
      <4> QED
        BY <1>3, <2>2, <4>1
    <3>2. /\ buff = prom /\ s \in {2, 3} /\ data_len' = Len(image)
          /\ tag(ent_i) = PROM_END_TAG
      BY <2>4, <3>1
    <3>3. \A i \in 0 .. Len(image) - 1 : prom[i] = image[i + 1]
      <4>1. \A i \in 0 .. Len(image) - 1 : i < M
        BY <1>3, <2>3
      <4> QED
        BY <2>1, <4>1 DEF Intact
    <3>4. Len(image) <= M
      BY <1>3, <2>3
    <3>5. calc_checksum16(prom, Len(image)) = 0
      BY <2>1, <3>3, <3>4, IntactChecksum, Zenon
    <3>6. s \in {PROM_CHECKSUM_SIZE, PROM_CHECKSUM_SIZE + 1}
      BY <3>2 DEF PROM_CHECKSUM_SIZE
    <3> QED
      BY <1>2, <2>6, <3>2, <3>5, <3>6
  <2> QED
    BY <1>2, <2>5, <2>6
<1> QED
  BY <1>6, <1>7

\* The version is right, too.
LEMMA LoadOutcome ==
    ASSUME IInv, ImageInv, OutcomeInv, load_prom
    PROVE  OutcomeInv'
<1>1. pc' \in {"scan", "rejected"} /\ UNCHANGED <<prom, config, damaged>>
  BY DEF load_prom, promVars
<1>2. ASSUME WellFormed(config)
      PROVE  pc' # "rejected"
  <2>1. Laid(prom, config)
    BY <1>2 DEF ImageInv
  <2>2. DOMAIN Magic = 1 .. Len(Magic)
    BY HeaderBytes
  <2>3. buff = prom
    BY <2>1, <2>2, Zenon DEF Laid, check_magic, buff
  <2>4. buff[PROM_VERSION_OFFSET] = PROM_VERSION
    BY <2>1, <2>3 DEF Laid, PROM_VERSION_OFFSET
  <2> QED
    BY <2>4 DEF load_prom
<1> QED
  BY <1>1, <1>2 DEF OutcomeInv, Accepted

\* No other step decides anything about it.
LEMMA OutcomeKeeps ==
    ASSUME IInv, ImageInv, OutcomeInv, [Next]_vars
    PROVE  OutcomeInv'
<1>1. CASE Damage
  <2>1. pc' = "load" /\ damaged' = TRUE /\ WellFormed(config) /\ config' = config
    BY <1>1 DEF Damage
  <2> QED
    BY <2>1 DEF OutcomeInv, Accepted
<1>2. CASE load_prom
  BY <1>2, LoadOutcome
<1>3. CASE scan_end
  BY <1>3, EndOutcome
<1>4. CASE /\ UNCHANGED <<config, damaged>>
           /\ pc' = pc \/ {pc, pc'} \subseteq Accepted
  BY <1>4 DEF OutcomeInv, Accepted
<1>5. ASSUME ~ Damage, ~ load_prom, ~ scan_end
      PROVE  /\ UNCHANGED <<config, damaged>>
             /\ pc' = pc \/ {pc, pc'} \subseteq Accepted
  <2>1. CASE UNCHANGED vars
    BY <2>1 DEF vars
  <2>2. CASE scan_entry
    BY <2>2 DEF scan_entry, promVars
  <2>3. CASE initialise_board
    BY <2>3 DEF initialise_board, promVars, Accepted
  <2>4. CASE create_device_nodes
    BY <2>4 DEF create_device_nodes, promVars, Accepted
  <2>5. CASE device_create
    BY <2>5 DEF device_create, promVars, Accepted
  <2>6. CASE nodes_created
    BY <2>6 DEF nodes_created, promVars, Accepted
  <2>7. CASE destroy_device_nodes
    BY <2>7 DEF destroy_device_nodes, promVars, Accepted
  <2>8. CASE \E minor \in 0 .. MAX_MINORS_PER_BOARD - 1 :
               \E mode \in Modes : amc_pci_open(minor, mode)
    BY <2>8 DEF amc_pci_open, promVars
  <2> QED
    BY <1>5, <2>1, <2>2, <2>3, <2>4, <2>5, <2>6, <2>7, <2>8 DEF Next
<1> QED
  BY <1>1, <1>2, <1>3, <1>4, <1>5

\* An image of the creator stays as it was burnt but for one byte that was
\* damaged, and the loader accepts it if and only if it is intact and fits.
THEOREM ImageInductive == Spec => [](IInv /\ ImageInv /\ OutcomeInv)
<1> DEFINE Inv == IInv /\ ImageInv /\ OutcomeInv
<1>1. Init => Inv
  BY InitIInv, InitImage
<1>2. Inv /\ [Next]_vars => Inv'
  BY NextIInv, ImageKeeps, OutcomeKeeps
<1> QED
  BY <1>1, <1>2, PTL DEF Spec

\* The checksum refuses every image of the creator in which one byte of an
\* entry's contents or of the checksum has changed.
THEOREM DamageFound == Spec => []DamageDetected
<1>1. OutcomeInv => DamageDetected
  BY DEF OutcomeInv, DamageDetected
<1> QED
  BY <1>1, ImageInductive, PTL
=============================================================================

-------------------------- MODULE MemoryListProofs --------------------------
(* Proofs about MemoryList, for regions and slices of any size.             *)
EXTENDS MemoryList, SequenceTheorems, TLAPS

\* The time a leaf may take, which on a slow machine is more than the five seconds of the default.
USE SMTT(60)

\* What integer division gives.
LEMMA DivType ==
  ASSUME NEW a \in Nat, NEW r \in Nat \ {0}
  PROVE  a \div r \in Nat /\ (a \div r) * r <= a /\ a < ((a \div r) + 1) * r
OBVIOUS

\* What the remainder gives; below the modulus it is the number itself.
LEMMA ModType ==
  ASSUME NEW a \in Int, NEW r \in Nat \ {0}
  PROVE  a % r \in Nat /\ (0 <= a /\ a < r => a % r = a)
OBVIOUS

\* Multiples of a positive number are apart by at least that number.
LEMMA MultMonotone ==
  ASSUME NEW m \in Nat, NEW n \in Nat, NEW r \in Nat \ {0}, m < n
  PROVE  (m + 1) * r <= n * r
OBVIOUS

\* n rows that fit are at most the quotient.
LEMMA DivBound ==
  ASSUME NEW a \in Nat, NEW r \in Nat \ {0}, NEW n \in Nat, n * r <= a
  PROVE  n <= a \div r
<1> DEFINE q == a \div r
<1>1. q \in Nat /\ a < (q + 1) * r
  BY DivType
<1>2. ASSUME q < n PROVE FALSE
  <2>1. (q + 1) * r <= n * r
    BY <1>1, <1>2, MultMonotone
  <2> QED
    BY <1>1, <2>1
<1> QED
  BY <1>1, <1>2

\* Division of a multiple is exact.
LEMMA DivExact ==
  ASSUME NEW r \in Nat \ {0}, NEW n \in Nat
  PROVE  (n * r) \div r = n
OBVIOUS

-----------------------------------------------------------------------------
(* Sequences.                                                               *)
LEMMA ConsType ==
  ASSUME NEW id \in Slices, NEW s \in Seq(Slices)
  PROVE  /\ <<id>> \o s \in Seq(Slices) /\ Len(<<id>> \o s) = Len(s) + 1
         /\ (<<id>> \o s)[1] = id
         /\ \A i \in 2 .. Len(s) + 1 : (<<id>> \o s)[i] = s[i - 1]
<1>1. <<id>> \in Seq(Slices) /\ Len(<<id>>) = 1 /\ <<id>>[1] = id
  OBVIOUS
<1>2. /\ <<id>> \o s \in Seq(Slices) /\ Len(<<id>> \o s) = 1 + Len(s)
      /\ \A i \in 1 .. 1 + Len(s) :
           (<<id>> \o s)[i] = IF i <= 1 THEN id ELSE s[i - 1]
  BY <1>1, ConcatProperties
<1>3. Len(s) \in Nat
  BY LenProperties
<1> QED
  BY <1>2, <1>3

\* Length and elements of a list without its k-th.
LEMMA WithoutType ==
  ASSUME NEW s \in Seq(Slices), NEW k \in 1 .. Len(s)
  PROVE  /\ Without(s, k) \in Seq(Slices) /\ Len(Without(s, k)) = Len(s) - 1
         /\ \A i \in 1 .. Len(s) - 1 :
              Without(s, k)[i] = IF i < k THEN s[i] ELSE s[i + 1]
<1>1. Len(s) \in Nat /\ \A i \in 1 .. Len(s) : s[i] \in Slices
  BY LenProperties, ElementOfSeq
<1>2. \A i \in 1 .. Len(s) - 1 : (IF i < k THEN s[i] ELSE s[i + 1]) \in Slices
  BY <1>1
<1> QED
  BY <1>1, <1>2 DEF Without

-----------------------------------------------------------------------------
(* Linked lists.                                                            *)

(* A slice put in front of a list. *)
LEMMA LinkFront ==
  ASSUME NEW s \in Seq(Slices), NEW h, NEW f, NEW b, NEW f2, NEW b2,
         NEW id \in Slices,
         Linked(s, h, f, b),
         \A i \in 1 .. Len(s) : s[i] # id,
         f2[id] = h, b2[id] = kInvalidSliceId,
         \A i \in 1 .. Len(s) : /\ f2[s[i]] = f[s[i]]
                                /\ b2[s[i]] = IF i = 1 THEN id ELSE b[s[i]]
  PROVE  Linked(<<id>> \o s, id, f2, b2)
<1> DEFINE t == <<id>> \o s
<1>1. /\ t \in Seq(Slices) /\ Len(t) = Len(s) + 1 /\ t[1] = id
      /\ \A i \in 2 .. Len(s) + 1 : t[i] = s[i - 1]
  BY ConsType
<1>2. Len(s) \in Nat /\ t # <<>> /\ (s = <<>> <=> Len(s) = 0)
  BY <1>1, LenProperties, EmptySeq
<1> HIDE DEF t
<1>3. \A i, j \in 1 .. Len(t) : t[i] = t[j] => i = j
  <2>1. \A i \in 1 .. Len(t) : i = 1 \/ (i \in 2 .. Len(s) + 1 /\ i - 1 \in 1 .. Len(s))
    BY <1>1, <1>2
  <2> SUFFICES ASSUME NEW i \in 1 .. Len(t), NEW j \in 1 .. Len(t), t[i] = t[j]
               PROVE  i = j
    OBVIOUS
  <2>2. CASE i = 1 \/ j = 1
    <3>1. ASSUME NEW n \in 2 .. Len(s) + 1, n - 1 \in 1 .. Len(s) PROVE t[n] # t[1]
      <4>1. t[n] = s[n - 1] /\ s[n - 1] # id /\ t[1] = id
        BY <1>1, <3>1, Zenon
      <4> QED
        BY <4>1, Zenon
    <3> QED
      BY <2>1, <2>2, <3>1, Zenon
  <2>3. CASE i # 1 /\ j # 1
    <3>1. i - 1 \in 1 .. Len(s) /\ j - 1 \in 1 .. Len(s) /\ s[i - 1] = s[j - 1]
      BY <1>1, <2>1, <2>3, Zenon
    <3>2. i - 1 = j - 1
      BY <3>1, Zenon DEF Linked
    <3> QED
      BY <3>2
  <2> QED
    BY <2>2, <2>3
<1>4. ASSUME NEW i \in 1 .. Len(t)
      PROVE  f2[t[i]] = IF i = Len(t) THEN kInvalidSliceId ELSE t[i + 1]
  <2>1. CASE i = 1
    BY <1>1, <1>2, <2>1 DEF Linked
  <2>2. CASE i # 1
    BY <1>1, <1>2, <2>2 DEF Linked
  <2> QED
    BY <2>1, <2>2
<1>5. ASSUME NEW i \in 1 .. Len(t)
      PROVE  b2[t[i]] = IF i = 1 THEN kInvalidSliceId ELSE t[i - 1]
  <2>1. CASE i = 1
    BY <1>1, <2>1
  <2>2. CASE i = 2
    BY <1>1, <1>2, <2>2
  <2>3. CASE i > 2
    <3>1. /\ i - 1 \in 1 .. Len(s) /\ i - 1 # 1 /\ t[i] = s[i - 1]
          /\ t[i - 1] = s[(i - 1) - 1]
      BY <1>1, <1>2, <2>3
    <3>2. b2[s[i - 1]] = b[s[i - 1]] /\ b[s[i - 1]] = s[(i - 1) - 1]
      BY <3>1 DEF Linked
    <3> QED
      BY <2>3, <3>1, <3>2
  <2> QED
    BY <1>1, <1>2, <2>1, <2>2, <2>3
<1>6. id = IF t = <<>> THEN kInvalidSliceId ELSE t[1]
  BY <1>1, <1>2
<1>7. Linked(t, id, f2, b2)
  BY <1>3, <1>4, <1>5, <1>6 DEF Linked
<1> QED
  BY <1>7 DEF t

(* The k-th slice taken out of a list. *)
LEMMA LinkWithout ==
  ASSUME NEW s \in Seq(Slices), NEW h, NEW f, NEW b, NEW f2, NEW b2,
         NEW k \in 1 .. Len(s),
         Linked(s, h, f, b),
         \A i \in 1 .. Len(s) : i # k =>
           /\ f2[s[i]] = IF i = k - 1 THEN f[s[k]] ELSE f[s[i]]
           /\ b2[s[i]] = IF i = k + 1 THEN b[s[k]] ELSE b[s[i]]
  PROVE  Linked(Without(s, k), IF h = s[k] THEN f[s[k]] ELSE h, f2, b2)
<1> DEFINE t == Without(s, k)
<1>1. /\ t \in Seq(Slices) /\ Len(t) = Len(s) - 1
      /\ \A i \in 1 .. Len(s) - 1 : t[i] = IF i < k THEN s[i] ELSE s[i + 1]
  BY WithoutType
<1>2. Len(s) \in Nat /\ (t = <<>> <=> Len(t) = 0)
  BY <1>1, LenProperties, EmptySeq
<1> HIDE DEF t
<1>3. \A i, j \in 1 .. Len(t) : t[i] = t[j] => i = j
  BY <1>1, <1>2 DEF Linked
<1>4. ASSUME NEW i \in 1 .. Len(t)
      PROVE  f2[t[i]] = IF i = Len(t) THEN kInvalidSliceId ELSE t[i + 1]
  <2>1. CASE i < k - 1
    <3>1. i \in 1 .. Len(s) /\ i # k /\ i # k - 1 /\ i # Len(s) /\ i # Len(t)
      BY <1>1, <1>2, <2>1
    <3>2. t[i] = s[i] /\ t[i + 1] = s[i + 1]
      BY <1>1, <1>2, <2>1
    <3>3. f2[s[i]] = f[s[i]] /\ f[s[i]] = s[i + 1]
      BY <3>1 DEF Linked
    <3> QED
      BY <3>1, <3>2, <3>3
  <2>2. CASE i = k - 1
    <3>1. i \in 1 .. Len(s) /\ i # k /\ (i = Len(t) <=> k = Len(s))
      BY <1>1, <1>2, <2>2
    <3>2. t[i] = s[i] /\ (i # Len(t) => t[i + 1] = s[k + 1])
      BY <1>1, <1>2, <2>2
    <3>3. f2[s[i]] = f[s[k]] /\ f[s[k]] = IF k = Len(s) THEN kInvalidSliceId ELSE s[k + 1]
      BY <2>2, <3>1 DEF Linked
    <3> QED
      BY <3>1, <3>2, <3>3
  <2>3. CASE i > k - 1
    <3>1. i + 1 \in 1 .. Len(s) /\ i + 1 # k /\ i + 1 # k - 1 /\ (i = Len(t) <=> i + 1 = Len(s))
      BY <1>1, <1>2, <2>3
    <3>2. t[i] = s[i + 1]
      BY <1>1, <1>2, <2>3
    <3>4. ASSUME i # Len(t) PROVE t[i + 1] = s[(i + 1) + 1]
      <4>1. i + 1 \in 1 .. Len(s) - 1 /\ ~(i + 1 < k)
        BY <1>1, <1>2, <2>3, <3>4
      <4> QED
        BY <1>1, <4>1
    <3>3. /\ f2[s[i + 1]] = f[s[i + 1]]
          /\ f[s[i + 1]] = IF i + 1 = Len(s) THEN kInvalidSliceId ELSE s[(i + 1) + 1]
      BY <3>1 DEF Linked
    <3> QED
      BY <3>1, <3>2, <3>3, <3>4
  <2> QED
    BY <1>1, <1>2, <2>1, <2>2, <2>3
<1>5. ASSUME NEW i \in 1 .. Len(t)
      PROVE  b2[t[i]] = IF i = 1 THEN kInvalidSliceId ELSE t[i - 1]
  <2>1. CASE i < k
    <3>1. i \in 1 .. Len(s) /\ i # k /\ i # k + 1
      BY <1>1, <1>2, <2>1
    <3>2. t[i] = s[i] /\ (i # 1 => t[i - 1] = s[i - 1])
      <4>1. /\ i \in 1 .. Len(s) - 1
            /\ i # 1 => i - 1 \in 1 .. Len(s) - 1 /\ i - 1 < k
        BY <1>1, <1>2, <2>1
      <4> QED
        BY <1>1, <2>1, <4>1
    <3>3. b2[s[i]] = b[s[i]] /\ b[s[i]] = IF i = 1 THEN kInvalidSliceId ELSE s[i - 1]
      BY <3>1 DEF Linked
    <3> QED
      BY <3>2, <3>3
  <2>2. CASE i = k
    <3>1. k + 1 \in 1 .. Len(s) /\ k + 1 # k
      BY <1>1, <1>2, <2>2
    <3>2. t[i] = s[k + 1] /\ (i # 1 => t[i - 1] = s[k - 1])
      BY <1>1, <1>2, <2>2
    <3>3. b2[s[k + 1]] = b[s[k]] /\ b[s[k]] = IF k = 1 THEN kInvalidSliceId ELSE s[k - 1]
      BY <3>1 DEF Linked
    <3> QED
      BY <2>2, <3>2, <3>3
  <2>3. CASE i > k
    <3>1. i + 1 \in 1 .. Len(s) /\ i + 1 # k /\ i + 1 # k + 1 /\ i + 1 # 1 /\ i # 1
      BY <1>1, <1>2, <2>3
    <3>2. t[i] = s[i + 1] /\ t[i - 1] = s[(i + 1) - 1]
      <4>1. /\ i \in 1 .. Len(s) - 1 /\ ~(i < k) /\ i - 1 \in 1 .. Len(s) - 1 /\ ~(i - 1 < k)
            /\ (i - 1) + 1 = (i + 1) - 1
        BY <1>1, <1>2, <2>3
      <4> QED
        BY <1>1, <4>1
    <3>3. b2[s[i + 1]] = b[s[i + 1]] /\ b[s[i + 1]] = s[(i + 1) - 1]
      BY <3>1 DEF Linked
    <3> QED
      BY <3>1, <3>2, <3>3
  <2> QED
    BY <1>1, <1>2, <2>1, <2>2, <2>3
<1>6. (IF h = s[k] THEN f[s[k]] ELSE h) = IF t = <<>> THEN kInvalidSliceId ELSE t[1]
  <2>1. s # <<>> /\ h = s[1]
    BY <1>2, EmptySeq DEF Linked
  <2>2. CASE k = 1
    BY <1>1, <1>2, <2>1, <2>2 DEF Linked
  <2>3. CASE k # 1
    BY <1>1, <1>2, <2>1, <2>3 DEF Linked
  <2> QED
    BY <2>2, <2>3
<1>7. Linked(t, IF h = s[k] THEN f[s[k]] ELSE h, f2, b2)
  BY <1>3, <1>4, <1>5, <1>6 DEF Linked
<1> QED
  BY <1>7 DEF t

\* Taking the front is leaving out the first.
LEMMA TailIsWithout ==
  ASSUME NEW s \in Seq(Slices), s # <<>>
  PROVE  Tail(s) = Without(s, 1)
<1>1. Len(s) \in Nat \ {0}
  BY EmptySeq
<1>2. /\ Tail(s) \in Seq(Slices) /\ Len(Tail(s)) = Len(s) - 1
      /\ \A i \in 1 .. Len(Tail(s)) : Tail(s)[i] = s[i + 1]
  BY HeadTailProperties
<1>3. /\ Without(s, 1) \in Seq(Slices) /\ Len(Without(s, 1)) = Len(s) - 1
      /\ \A i \in 1 .. Len(s) - 1 : Without(s, 1)[i] = IF i < 1 THEN s[i] ELSE s[i + 1]
  BY <1>1, WithoutType
<1>4. \A i \in 1 .. Len(Tail(s)) : Tail(s)[i] = Without(s, 1)[i]
  BY <1>1, <1>2, <1>3
<1> QED
  BY <1>2, <1>3, <1>4, SeqEqual

-----------------------------------------------------------------------------
(* The inductive invariant: besides the lists, what relates the header, the *)
(* layout and the length that the process knows.                            *)
Sizes ==
  /\ attached => magic /\ len \in Lens /\ kHeaderSize <= len
  /\ magic => /\ made \in Lens /\ kHeaderSize <= made
              /\ padding = made - kHeaderSize - SlicesIn(made) * kSliceRealSize
              /\ \A i \in 1 .. Len(frees) : frees[i] < SlicesIn(made)
              /\ \A i \in 1 .. Len(useds) : useds[i] < SlicesIn(made)
  /\ attached /\ made <= len => SlicesIn(made) <= capacity_
  /\ attached /\ made = len => capacity_ = SlicesIn(made)

IInv == TypeOK /\ Lists /\ Sizes

\* The slices of a region of length l, and the padding they leave.
LEMMA SlicesInType ==
  ASSUME NEW l \in Lens
  PROVE  /\ l \in Nat /\ SlicesIn(l) \in 0 .. MaxSlices
         /\ l >= kHeaderSize =>
              /\ l - kHeaderSize - SlicesIn(l) * kSliceRealSize \in Nat
              /\ SlicesIn(l) * kSliceRealSize \in Nat
<1>1. l \in Nat /\ SlicesIn(l) <= MaxSlices
  BY SizeAssumption, LensAssumption
<1>2. CASE l < kHeaderSize
  BY <1>1, <1>2, SizeAssumption DEF SlicesIn
<1>3. CASE l >= kHeaderSize
  <2>1. l - kHeaderSize \in Nat
    BY <1>1, <1>3, SizeAssumption
  <2>2. SlicesIn(l) = (l - kHeaderSize) \div kSliceRealSize
    BY <1>1, <1>3, SizeAssumption DEF SlicesIn
  <2>3. /\ SlicesIn(l) \in Nat
        /\ SlicesIn(l) * kSliceRealSize <= l - kHeaderSize
    BY <2>1, <2>2, SizeAssumption, DivType
  <2>4. SlicesIn(l) * kSliceRealSize \in Nat
    BY <2>3, SizeAssumption
  <2> QED
    BY <1>1, <2>1, <2>3, <2>4, SizeAssumption
<1> QED
  BY <1>1, <1>2, <1>3, SizeAssumption

\* No process is attached and nothing is laid out.
LEMMA InitIInv == Init => IInv
<1>1. SUFFICES ASSUME Init PROVE IInv
  OBVIOUS
<1>2. TypeOK
  <2>1. <<>> \in Seq(Slices)
    BY EmptySeq
  <2>2. [s \in Slices |-> 0] \in [Slices -> Int]
    OBVIOUS
  <2>3. magic \in BOOLEAN /\ attached \in BOOLEAN
    BY <1>1, Zenon DEF Init
  <2>4. /\ buffer_length \in Nat /\ padding \in Nat /\ size \in Nat
        /\ free \in Int /\ used \in Int
        /\ len \in Nat /\ capacity_ \in Nat /\ made \in Nat
    BY <1>1 DEF Init
  <2>5. /\ next \in [Slices -> Int] /\ prev \in [Slices -> Int]
        /\ frees \in Seq(Slices) /\ useds \in Seq(Slices)
    BY <1>1, <2>1, <2>2 DEF Init
  <2> QED
    BY <2>3, <2>4, <2>5 DEF TypeOK
<1>3. Lists /\ Sizes
  BY <1>1 DEF Init, Lists, Sizes
<1> QED
  BY <1>2, <1>3 DEF IInv

(* Laying the slices out again establishes the lists, whatever was there. *)
LEMMA MakeIInv ==
  ASSUME TypeOK, NEW l \in Lens, l >= kHeaderSize, MakeSliceList(l),
         attached', magic', size' = 0, len' = l, buffer_length' \in Nat
  PROVE  IInv'
<1> DEFINE n == SlicesIn(l)
<1>1. /\ l \in Nat /\ n \in 0 .. MaxSlices /\ n \in Nat
      /\ l - kHeaderSize - n * kSliceRealSize \in Nat
  BY SlicesInType, SizeAssumption
<1> HIDE DEF n
<1>2. /\ used' = kInvalidSliceId /\ free' = (IF n = 0 THEN kInvalidSliceId ELSE 0)
      /\ capacity_' = n /\ made' = l /\ useds' = <<>>
      /\ padding' = l - kHeaderSize - n * kSliceRealSize
      /\ frees' = [i \in 1 .. n |-> i - 1]
      /\ next' = [s \in Slices |-> IF s = n - 1 THEN kInvalidSliceId
                                   ELSE IF s < n THEN s + 1 ELSE next[s]]
      /\ prev' = [s \in Slices |-> IF s < n THEN s - 1 ELSE prev[s]]
  BY DEF MakeSliceList, n
<1>3. \A i \in 1 .. n : i - 1 \in Slices
  BY <1>1, SizeAssumption DEF Slices
<1>4. /\ frees' \in Seq(Slices) /\ Len(frees') = n
      /\ \A i \in 1 .. n : frees'[i] = i - 1
  BY <1>1, <1>2, <1>3
<1>5. useds' \in Seq(Slices) /\ Len(useds') = 0
  BY <1>2, EmptySeq
<1>6. next' \in [Slices -> Int] /\ prev' \in [Slices -> Int]
  BY <1>1, <1>2, SizeAssumption DEF TypeOK, Slices, kInvalidSliceId
<1>7. TypeOK'
  BY <1>1, <1>2, <1>4, <1>5, <1>6 DEF TypeOK, kInvalidSliceId
<1>8. Linked(frees, free, next, prev)'
  <2>1. \A i, j \in 1 .. n : frees'[i] = frees'[j] => i = j
    BY <1>1, <1>4
  <2>2. free' = IF frees' = <<>> THEN kInvalidSliceId ELSE frees'[1]
    <3>1. frees' = <<>> <=> n = 0
      BY <1>4, EmptySeq
    <3>2. n # 0 => frees'[1] = 0
      BY <1>1, <1>4
    <3> QED
      BY <1>2, <3>1, <3>2
  <2>3. ASSUME NEW i \in 1 .. n
        PROVE  /\ next'[frees'[i]] = IF i = n THEN kInvalidSliceId ELSE frees'[i + 1]
               /\ prev'[frees'[i]] = IF i = 1 THEN kInvalidSliceId ELSE frees'[i - 1]
    <3>1. frees'[i] = i - 1 /\ i - 1 \in Slices
      BY <1>3, <1>4
    <3>2. next'[i - 1] = (IF i = n THEN kInvalidSliceId ELSE i) /\ prev'[i - 1] = i - 2
      BY <1>1, <1>2, <3>1
    <3>3. (i # n => frees'[i + 1] = i) /\ (i # 1 => frees'[i - 1] = i - 2)
      BY <1>1, <1>4
    <3> QED
      BY <3>1, <3>2, <3>3 DEF kInvalidSliceId
  <2> QED
    BY <1>4, <2>1, <2>2, <2>3 DEF Linked
<1>9. Linked(useds, used, next, prev)'
  BY <1>2, <1>5 DEF Linked
<1>10. Lists'
  <2>1. SlicesIn(made') = n
    BY <1>2 DEF n
  <2>2. \A s \in 0 .. n - 1 : \E i \in 1 .. n : frees'[i] = s
    <3>1. SUFFICES ASSUME NEW s \in 0 .. n - 1 PROVE \E i \in 1 .. n : frees'[i] = s
      OBVIOUS
    <3>2. s + 1 \in 1 .. n /\ frees'[s + 1] = s
      BY <1>1, <1>4
    <3> QED
      BY <3>2
  <2> QED
    BY <1>1, <1>4, <1>5, <1>8, <1>9, <2>1, <2>2 DEF Lists, SlicesIn
<1>11. Sizes'
  BY <1>1, <1>2, <1>4, <1>5 DEF Sizes, SlicesIn, n
<1> QED
  BY <1>7, <1>10, <1>11 DEF IInv

\* A call that returns early changes nothing.
LEMMA StutterIInv ==
  ASSUME IInv, UNCHANGED mlVars
  PROVE  IInv'
<1>1. TypeOK'
  BY DEF mlVars, header, IInv, TypeOK
<1>2. Lists'
  BY DEF mlVars, header, IInv, Lists, Linked, SlicesIn
<1>3. Sizes'
  BY DEF mlVars, header, IInv, Sizes, SlicesIn
<1> QED
  BY <1>1, <1>2, <1>3 DEF IInv

\* CreateFrom lays out the slices.
LEMMA CreateIInv ==
  ASSUME IInv, NEW l \in Lens, CreateFrom(l)
  PROVE  IInv'
<1>1. CASE UNCHANGED mlVars
  BY <1>1, StutterIInv
<1>2. CASE ~UNCHANGED mlVars
  <2>1. /\ l >= kHeaderSize /\ buffer_length' = l /\ magic' /\ size' = 0
        /\ MakeSliceList(l) /\ attached' /\ len' = l
    BY Zenon, <1>2 DEF CreateFrom
  <2>2. l \in Nat /\ TypeOK
    BY SlicesInType DEF IInv
  <2>3. buffer_length' \in Nat
    BY <2>1, <2>2
  <2> QED
    BY <2>1, <2>2, <2>3, MakeIInv
<1> QED
  BY <1>1, <1>2

\* clear lays out the slices again.
LEMMA ClearIInv ==
  ASSUME IInv, clear
  PROVE  IInv'
<1>1. /\ attached /\ len \in Lens /\ len >= kHeaderSize /\ magic /\ TypeOK
      /\ buffer_length \in Nat /\ len \in Nat
  BY SizeAssumption DEF IInv, Sizes, TypeOK, clear, Usable
<1>2. /\ MakeSliceList(len) /\ size' = 0 /\ len' = len /\ magic' = magic
      /\ attached' = attached /\ buffer_length' = buffer_length
  BY DEF clear
<1> QED
  BY <1>1, <1>2, MakeIInv

\* A process ends; the region stays.
LEMMA ExitIInv ==
  ASSUME IInv, Exit
  PROVE  IInv'
<1>1. TypeOK'
  BY Zenon DEF Exit, header, IInv, TypeOK
<1>2. Lists'
  BY DEF Exit, header, IInv, Lists, Linked, SlicesIn
<1>3. Sizes'
  BY DEF Exit, header, IInv, Sizes, SlicesIn
<1> QED
  BY <1>1, <1>2, <1>3 DEF IInv

\* RestoreFrom attaches to what a process before it laid out.
LEMMA RestoreIInv ==
  ASSUME IInv, NEW l \in Lens, RestoreFrom(l)
  PROVE  IInv'
<1>1. CASE UNCHANGED mlVars
  BY <1>1, StutterIInv
<1>2. CASE ~UNCHANGED mlVars
  <2> DEFINE room == l - padding - kHeaderSize
             n == SlicesIn(made)
  <2>1. /\ CanRestore(l) /\ attached' = TRUE /\ len' = l
        /\ capacity_' = (room % SizeMod) \div kSliceRealSize
        /\ UNCHANGED <<header, next, prev, frees, useds, made>>
    BY Zenon, <1>2 DEF RestoreFrom
  <2>2. /\ magic /\ l \in Nat /\ l >= kHeaderSize /\ l < SizeMod
        /\ padding \in Nat /\ made \in Lens /\ made \in Nat /\ kHeaderSize <= made
        /\ padding = made - kHeaderSize - n * kSliceRealSize
    BY <2>1, SizeAssumption, LensAssumption DEF CanRestore, IInv, TypeOK, Sizes
  <2>3. n \in Nat /\ n * kSliceRealSize \in Nat
    BY <2>2, SlicesInType
  <2>4. room \in Int /\ room = l - made + n * kSliceRealSize
    BY <2>2, <2>3, SizeAssumption
  <2>5. room % SizeMod \in Nat /\ (0 <= room /\ room < SizeMod => room % SizeMod = room)
    BY <2>4, SizeAssumption, ModType
  <2>6. capacity_' \in Nat
    BY <2>1, <2>5, SizeAssumption, DivType
  <2>7. made <= l => n <= capacity_'
    <3>1. SUFFICES ASSUME made <= l PROVE n <= capacity_'
      OBVIOUS
    <3>2. n * kSliceRealSize <= room /\ room < SizeMod /\ room \in Nat
      BY <2>2, <2>3, <2>4, <3>1, SizeAssumption
    <3>3. capacity_' = room \div kSliceRealSize
      BY <2>1, <2>5, <3>2
    <3> HIDE DEF room, n
    <3> QED
      BY <2>3, <3>2, <3>3, DivBound, SizeAssumption
  <2>8. made = l => capacity_' = n
    <3>1. SUFFICES ASSUME made = l PROVE capacity_' = n
      OBVIOUS
    <3>2. room = n * kSliceRealSize /\ room < SizeMod
      BY <2>2, <2>3, <2>4, <3>1, SizeAssumption
    <3>3. capacity_' = (n * kSliceRealSize) \div kSliceRealSize
      BY <2>1, <2>3, <2>5, <3>2
    <3> HIDE DEF room, n
    <3> QED
      BY <2>3, <3>3, DivExact, SizeAssumption
  <2>9. TypeOK'
    BY <2>1, <2>2, <2>6 DEF IInv, TypeOK, header
  <2>10. Lists'
    BY <2>1 DEF IInv, Lists, Linked, SlicesIn, header
  <2>11. Sizes'
    BY <2>1, <2>2, <2>7, <2>8 DEF IInv, Sizes, SlicesIn, header
  <2> QED
    BY <2>9, <2>10, <2>11 DEF IInv
<1> QED
  BY <1>1, <1>2

(* What the invariant says of the two lists while there are any. *)
LEMMA ListFacts ==
  ASSUME IInv, magic
  PROVE  /\ frees \in Seq(Slices) /\ Len(frees) \in Nat
         /\ useds \in Seq(Slices) /\ Len(useds) \in Nat
         /\ \A i \in 1 .. Len(frees) : frees[i] \in Slices /\ frees[i] # kInvalidSliceId
         /\ \A i \in 1 .. Len(useds) : useds[i] \in Slices /\ useds[i] # kInvalidSliceId
         /\ Linked(frees, free, next, prev) /\ Linked(useds, used, next, prev)
         /\ free = IF Len(frees) = 0 THEN kInvalidSliceId ELSE frees[1]
         /\ used = IF Len(useds) = 0 THEN kInvalidSliceId ELSE useds[1]
         /\ \A i, j \in 1 .. Len(frees) : frees[i] = frees[j] => i = j
         /\ \A i, j \in 1 .. Len(useds) : useds[i] = useds[j] => i = j
         /\ \A i \in 1 .. Len(frees), j \in 1 .. Len(useds) : frees[i] # useds[j]
         /\ \A i \in 1 .. Len(frees) : frees[i] < SlicesIn(made)
         /\ \A i \in 1 .. Len(useds) : useds[i] < SlicesIn(made)
         /\ size = Len(useds) /\ Len(frees) + Len(useds) = SlicesIn(made)
<1>1. frees \in Seq(Slices) /\ useds \in Seq(Slices)
  BY DEF IInv, TypeOK
<1>2. /\ Len(frees) \in Nat /\ Len(useds) \in Nat
      /\ (frees = <<>> <=> Len(frees) = 0) /\ (useds = <<>> <=> Len(useds) = 0)
  BY <1>1, LenProperties, EmptySeq
<1>3. /\ \A i \in 1 .. Len(frees) : frees[i] \in Slices
      /\ \A i \in 1 .. Len(useds) : useds[i] \in Slices
  BY <1>1, ElementOfSeq
<1>4. kInvalidSliceId \notin Slices
  BY SizeAssumption DEF kInvalidSliceId, Slices
<1>5. Linked(frees, free, next, prev) /\ Linked(useds, used, next, prev)
  BY DEF IInv, Lists
<1>6. /\ free = IF Len(frees) = 0 THEN kInvalidSliceId ELSE frees[1]
      /\ used = IF Len(useds) = 0 THEN kInvalidSliceId ELSE useds[1]
      /\ \A i, j \in 1 .. Len(frees) : frees[i] = frees[j] => i = j
      /\ \A i, j \in 1 .. Len(useds) : useds[i] = useds[j] => i = j
  BY <1>2, <1>5 DEF Linked
<1>7. /\ \A i \in 1 .. Len(frees), j \in 1 .. Len(useds) : frees[i] # useds[j]
      /\ \A i \in 1 .. Len(frees) : frees[i] < SlicesIn(made)
      /\ \A i \in 1 .. Len(useds) : useds[i] < SlicesIn(made)
      /\ size = Len(useds) /\ Len(frees) + Len(useds) = SlicesIn(made)
  BY DEF IInv, Lists, Sizes
<1> QED
  BY <1>1, <1>2, <1>3, <1>4, <1>5, <1>6, <1>7

\* GetSlice moves the first free slice to the front of the used ones.
LEMMA TakeIInv ==
  ASSUME IInv, GetSlice, free # kInvalidSliceId
  PROVE  IInv'
<1> DEFINE n == SlicesIn(made)
<1>1. magic /\ attached
  BY DEF IInv, Sizes, GetSlice, Usable
<1>2. Take(free) /\ UNCHANGED <<magic, buffer_length, padding, attached, len, capacity_, made>>
  BY DEF GetSlice
<1>3. /\ Len(frees) \in Nat \ {0} /\ free = frees[1] /\ free \in Slices
      /\ frees # <<>> /\ frees \in Seq(Slices) /\ useds \in Seq(Slices) /\ Len(useds) \in Nat
  BY <1>1, ListFacts, EmptySeq
<1>4. /\ frees' = Without(frees, 1) /\ useds' = <<free>> \o useds
      /\ free' = next[free] /\ used' = free /\ size' = size + 1
  BY <1>2, <1>3, TailIsWithout DEF Take
<1>5. /\ frees' \in Seq(Slices) /\ Len(frees') = Len(frees) - 1
      /\ \A i \in 1 .. Len(frees) - 1 : frees'[i] = frees[i + 1]
  <2>1. 1 \in 1 .. Len(frees)
    BY <1>3
  <2>2. /\ frees' \in Seq(Slices) /\ Len(frees') = Len(frees) - 1
        /\ \A i \in 1 .. Len(frees) - 1 :
             frees'[i] = IF i < 1 THEN frees[i] ELSE frees[i + 1]
    BY Zenon, <1>3, <1>4, <2>1, WithoutType
  <2> QED
    BY <1>3, <2>2
<1>6. /\ useds' \in Seq(Slices) /\ Len(useds') = Len(useds) + 1 /\ useds'[1] = free
      /\ \A i \in 2 .. Len(useds) + 1 : useds'[i] = useds[i - 1]
  BY <1>3, <1>4, ConsType
<1>7. /\ next[free] = IF Len(frees) = 1 THEN kInvalidSliceId ELSE frees[2]
      /\ prev[free] = kInvalidSliceId
  <2>1. Linked(frees, free, next, prev) /\ 1 \in 1 .. Len(frees)
    BY <1>1, <1>3, ListFacts
  <2>2. /\ next[frees[1]] = IF 1 = Len(frees) THEN kInvalidSliceId ELSE frees[1 + 1]
        /\ prev[frees[1]] = IF 1 = 1 THEN kInvalidSliceId ELSE frees[1 - 1]
    BY Zenon, <2>1 DEF Linked
  <2> QED
    BY <1>3, <2>2
<1>8. /\ next' = [next EXCEPT ![free] = used]
      /\ prev' = [s \in Slices |-> IF s = used THEN free
                                   ELSE IF s \in {free, next[free]} THEN kInvalidSliceId
                                   ELSE prev[s]]
      /\ next \in [Slices -> Int] /\ prev \in [Slices -> Int] /\ used \in Int
      /\ size \in Nat /\ next[free] \in Int
  BY <1>2, <1>3 DEF Take, IInv, TypeOK
<1>9. next' \in [Slices -> Int] /\ prev' \in [Slices -> Int]
  <2>1. next' \in [Slices -> Int]
    BY <1>3, <1>8
  <2>2. free \in Int /\ kInvalidSliceId \in Int
    BY <1>3, SizeAssumption DEF Slices, kInvalidSliceId
  <2>3. \A s \in Slices : prev[s] \in Int
    BY <1>8
  <2>4. prev' \in [Slices -> Int]
    BY <1>8, <2>2, <2>3
  <2> QED
    BY <2>1, <2>4
<1>10. TypeOK'
  <2>1. /\ magic' \in BOOLEAN /\ buffer_length' \in Nat /\ padding' \in Nat
        /\ attached' \in BOOLEAN /\ len' \in Nat /\ capacity_' \in Nat /\ made' \in Nat
    BY <1>2 DEF IInv, TypeOK
  <2>2. size' \in Nat /\ free' \in Int /\ used' \in Int
    BY <1>3, <1>4, <1>8, SizeAssumption DEF Slices
  <2> QED
    BY Zenon, <1>5, <1>6, <1>9, <2>1, <2>2 DEF TypeOK
<1>11. free # used
  BY <1>1, <1>3, ListFacts
<1>12. Linked(frees, free, next, prev)'
  <2>1. ASSUME NEW i \in 1 .. Len(frees), i # 1
        PROVE  /\ next'[frees[i]] = IF i = 1 - 1 THEN next[frees[1]] ELSE next[frees[i]]
               /\ prev'[frees[i]] = IF i = 1 + 1 THEN prev[frees[1]] ELSE prev[frees[i]]
    <3>1. frees[i] \in Slices /\ frees[i] # free /\ frees[i] # used
      BY <1>1, <1>3, <2>1, ListFacts
    <3>2. next'[frees[i]] = next[frees[i]]
      BY <1>3, <1>8, <3>1
    <3>3. i # 2 => frees[i] # next[free]
      BY <1>1, <1>3, <1>7, <2>1, ListFacts
    <3>4. i = 2 => frees[i] = next[free]
      BY <1>3, <1>7
    <3>5. prev'[frees[i]] = IF i = 2 THEN kInvalidSliceId ELSE prev[frees[i]]
      BY <1>8, <3>1, <3>3, <3>4
    <3> QED
      BY <1>3, <1>7, <2>1, <3>2, <3>5
  <2>2. Linked(frees, free, next, prev) /\ 1 \in 1 .. Len(frees)
    BY <1>1, <1>3, ListFacts
  <2>3. Linked(Without(frees, 1), IF free = frees[1] THEN next[frees[1]] ELSE free, next', prev')
    BY <1>3, <2>1, <2>2, LinkWithout
  <2> QED
    BY <1>3, <1>4, <2>3
<1>13. Linked(useds, used, next, prev)'
  <2>1. ASSUME NEW i \in 1 .. Len(useds)
        PROVE  /\ useds[i] # free
               /\ next'[useds[i]] = next[useds[i]]
               /\ prev'[useds[i]] = IF i = 1 THEN free ELSE prev[useds[i]]
    <3>1. /\ useds[i] \in Slices /\ useds[i] # kInvalidSliceId
          /\ useds[i] = used <=> i = 1
      BY <1>1, <2>1, ListFacts
    <3>2. useds[i] # free /\ useds[i] # next[free]
      <4>1. \A j \in 1 .. Len(frees) : frees[j] # useds[i]
        BY <1>1, <2>1, ListFacts
      <4>2. free # useds[i] /\ (Len(frees) # 1 => frees[2] # useds[i])
        <5>1. 1 \in 1 .. Len(frees) /\ (Len(frees) # 1 => 2 \in 1 .. Len(frees))
          <6>1. \A m \in Nat \ {0} : 1 \in 1 .. m /\ (m # 1 => 2 \in 1 .. m)
            OBVIOUS
          <6>2. Len(frees) \in Nat \ {0}
            BY <1>3
          <6> QED
            BY Zenon, <6>1, <6>2
        <5>2. frees[1] # useds[i]
          BY <4>1, <5>1
        <5>3. Len(frees) # 1 => frees[2] # useds[i]
          BY <4>1, <5>1
        <5> QED
          BY <1>3, <5>2, <5>3
      <4> QED
        BY <1>7, <3>1, <4>2
    <3>3. next'[useds[i]] = next[useds[i]]
      BY <1>3, <1>8, <3>1, <3>2
    <3>4. prev'[useds[i]] = IF i = 1 THEN free ELSE prev[useds[i]]
      BY <1>8, <3>1, <3>2
    <3> QED
      BY <3>2, <3>3, <3>4
  <2>2. next'[free] = used /\ prev'[free] = kInvalidSliceId
    BY <1>3, <1>8, <1>11
  <2>3. Linked(useds, used, next, prev)
    BY Zenon, <1>1, ListFacts
  <2>4. Linked(<<free>> \o useds, free, next', prev')
    BY <1>3, <2>1, <2>2, <2>3, LinkFront
  <2> QED
    BY <1>4, <2>4
<1>14. \A i \in 1 .. Len(frees'), j \in 1 .. Len(useds') : frees'[i] # useds'[j]
  <2>1. SUFFICES ASSUME NEW i \in 1 .. Len(frees'), NEW j \in 1 .. Len(useds')
                 PROVE  frees'[i] # useds'[j]
    OBVIOUS
  <2>2. i + 1 \in 1 .. Len(frees) /\ i + 1 # 1 /\ frees'[i] = frees[i + 1]
    BY <1>3, <1>5
  <2>3. frees[i + 1] # free
    BY <1>1, <1>3, <2>2, ListFacts
  <2>4. CASE j = 1
    BY <1>6, <2>2, <2>3, <2>4
  <2>5. CASE j # 1
    <3>1. j - 1 \in 1 .. Len(useds) /\ useds'[j] = useds[j - 1]
      BY <1>3, <1>6, <2>5
    <3> QED
      BY <1>1, <2>2, <3>1, ListFacts
  <2> QED
    BY <2>4, <2>5
<1>15. ASSUME NEW s \in 0 .. n - 1
       PROVE  \/ \E i \in 1 .. Len(frees') : frees'[i] = s
              \/ \E j \in 1 .. Len(useds') : useds'[j] = s
  <2>1. \/ \E i \in 1 .. Len(frees) : frees[i] = s
        \/ \E j \in 1 .. Len(useds) : useds[j] = s
    BY <1>1, <1>15 DEF IInv, Lists
  <2>2. CASE s = free
    <3>1. 1 \in 1 .. Len(useds') /\ useds'[1] = s
      BY <1>3, <1>6, <2>2
    <3> QED
      BY <3>1
  <2>3. ASSUME NEW i \in 1 .. Len(frees), frees[i] = s, s # free
        PROVE  \E k \in 1 .. Len(frees') : frees'[k] = s
    <3>1. i - 1 \in 1 .. Len(frees')
      BY <1>3, <1>5, <2>3
    <3>2. frees'[i - 1] = s
      BY <1>3, <1>5, <2>3, <3>1
    <3> QED
      BY <3>1, <3>2
  <2>4. ASSUME NEW j \in 1 .. Len(useds), useds[j] = s
        PROVE  \E k \in 1 .. Len(useds') : useds'[k] = s
    <3>1. j + 1 \in 1 .. Len(useds') /\ j + 1 \in 2 .. Len(useds) + 1
      BY <1>3, <1>6, <2>4
    <3>2. useds'[j + 1] = s
      BY <1>3, <1>6, <2>4, <3>1
    <3> QED
      BY <3>1, <3>2
  <2> QED
    BY <2>1, <2>2, <2>3, <2>4
<1>16. /\ size' = Len(useds') /\ Len(frees') + Len(useds') = n
       /\ \A i \in 1 .. Len(frees') : frees'[i] < n
       /\ \A i \in 1 .. Len(useds') : useds'[i] < n
  <2>1. size' = Len(useds') /\ Len(frees') + Len(useds') = n
    <3>1. size = Len(useds) /\ Len(frees) + Len(useds) = n
      BY <1>1, ListFacts
    <3> HIDE DEF n
    <3> QED
      <4>1. /\ size' = size + 1 /\ Len(useds') = Len(useds) + 1
            /\ Len(frees') = Len(frees) - 1
            /\ Len(frees) \in Nat /\ Len(useds) \in Nat
        BY <1>3, <1>4, <1>5, <1>6
      <4>2. size' = Len(useds')
        BY <3>1, <4>1
      <4>3. (Len(frees) - 1) + (Len(useds) + 1) = Len(frees) + Len(useds)
        BY <4>1
      <4> QED
        BY <3>1, <4>1, <4>2, <4>3
  <2>2. \A i \in 1 .. Len(frees) : frees[i] < n
    BY <1>1, ListFacts
  <2>3. \A i \in 1 .. Len(useds) : useds[i] < n
    BY <1>1, ListFacts
  <2> HIDE DEF n
  <2>4. \A i \in 1 .. Len(frees') : frees'[i] < n
    BY <1>3, <1>5, <2>2
  <2>5. \A i \in 1 .. Len(useds') : useds'[i] < n
    <3>1. free < n
      BY <1>3, <2>2
    <3> QED
      BY <1>3, <1>6, <2>3, <3>1
  <2> QED
    BY <2>1, <2>4, <2>5
<1>17. n = SlicesIn(made)'
  BY <1>2 DEF SlicesIn
<1> HIDE DEF n
<1>18. Lists'
  BY <1>12, <1>13, <1>14, <1>15, <1>16, <1>17 DEF Lists
<1>19. Sizes'
  BY <1>2, <1>16, <1>17 DEF IInv, Sizes, n
<1> QED
  BY <1>10, <1>18, <1>19 DEF IInv

\* GetSlice, also when no slice is free.
LEMMA GetIInv ==
  ASSUME IInv, GetSlice
  PROVE  IInv'
<1>1. CASE free = kInvalidSliceId
  <2>1. UNCHANGED mlVars
    BY <1>1 DEF GetSlice
  <2> QED
    BY <2>1, StutterIInv
<1>2. CASE free # kInvalidSliceId
  BY <1>2, TakeIInv
<1> QED
  BY <1>1, <1>2

\* FreeSlice moves a used slice to the front of the free ones.
LEMMA FreeIInv ==
  ASSUME IInv, NEW k \in 1 .. Len(useds), FreeSlice(k)
  PROVE  IInv'
<1> DEFINE n == SlicesIn(made)
           id == useds[k]
<1>1. magic /\ attached
  BY DEF IInv, Sizes, FreeSlice, Usable
<1>2. /\ Unlink(id) /\ frees' = <<id>> \o frees /\ useds' = Without(useds, k)
      /\ UNCHANGED <<magic, buffer_length, padding, attached, len, capacity_, made>>
  BY DEF FreeSlice
<1>3. /\ frees \in Seq(Slices) /\ Len(frees) \in Nat
      /\ useds \in Seq(Slices) /\ Len(useds) \in Nat /\ k \in Nat
      /\ id \in Slices /\ id # kInvalidSliceId
  BY <1>1, ListFacts
<1>4. /\ \A i \in 1 .. Len(frees) : frees[i] # id
      /\ \A i \in 1 .. Len(useds) : i # k => useds[i] # id
      /\ free # id
  BY <1>1, <1>3, ListFacts
<1>5. /\ useds' \in Seq(Slices) /\ Len(useds') = Len(useds) - 1
      /\ \A i \in 1 .. Len(useds) - 1 : useds'[i] = IF i < k THEN useds[i] ELSE useds[i + 1]
  BY Zenon, <1>2, <1>3, WithoutType
<1>6. /\ frees' \in Seq(Slices) /\ Len(frees') = Len(frees) + 1 /\ frees'[1] = id
      /\ \A i \in 2 .. Len(frees) + 1 : frees'[i] = frees[i - 1]
  BY <1>2, <1>3, ConsType
<1>7. /\ next[id] = IF k = Len(useds) THEN kInvalidSliceId ELSE useds[k + 1]
      /\ prev[id] = IF k = 1 THEN kInvalidSliceId ELSE useds[k - 1]
  <2>1. Linked(useds, used, next, prev)
    BY <1>1, ListFacts
  <2> QED
    BY <2>1 DEF Linked
<1>8. /\ next' = [s \in Slices |-> IF s = id THEN free
                                   ELSE IF s = prev[id] THEN next[id] ELSE next[s]]
      /\ prev' = [s \in Slices |-> IF s = free THEN id
                                   ELSE IF s = id THEN kInvalidSliceId
                                   ELSE IF s = next[id] THEN prev[id] ELSE prev[s]]
      /\ used' = (IF used = id THEN next[id] ELSE used)
      /\ free' = id /\ size' = size - 1
      /\ next \in [Slices -> Int] /\ prev \in [Slices -> Int] /\ used \in Int /\ free \in Int
      /\ size = Len(useds)
  BY Zenon, <1>1, <1>2, ListFacts DEF Unlink, IInv, TypeOK
<1> HIDE DEF id
<1>9. next[id] \in Int /\ prev[id] \in Int /\ id \in Int
  BY <1>3, <1>8, SizeAssumption DEF Slices
<1>10. next' \in [Slices -> Int] /\ prev' \in [Slices -> Int]
  BY <1>8, <1>9 DEF kInvalidSliceId
<1>11. TypeOK'
  <2>1. /\ magic' \in BOOLEAN /\ buffer_length' \in Nat /\ padding' \in Nat
        /\ attached' \in BOOLEAN /\ len' \in Nat /\ capacity_' \in Nat /\ made' \in Nat
    BY <1>2 DEF IInv, TypeOK
  <2>2. size' \in Nat /\ free' \in Int /\ used' \in Int
    BY <1>3, <1>8, <1>9
  <2> QED
    BY ZenonT(30), <1>5, <1>6, <1>10, <2>1, <2>2 DEF TypeOK
<1>12. Linked(useds, used, next, prev)'
  <2>1. ASSUME NEW i \in 1 .. Len(useds), i # k
        PROVE  /\ next'[useds[i]] = IF i = k - 1 THEN next[useds[k]] ELSE next[useds[i]]
               /\ prev'[useds[i]] = IF i = k + 1 THEN prev[useds[k]] ELSE prev[useds[i]]
    <3>1. /\ useds[i] \in Slices /\ useds[i] # kInvalidSliceId
          /\ \A j \in 1 .. Len(useds) : useds[i] = useds[j] => i = j
          /\ useds[i] # free
      BY <1>1, <2>1, ListFacts
    <3>2. useds[i] # id
      BY <1>4, <2>1
    <3>3. useds[i] = prev[id] <=> i = k - 1
      <4>1. CASE k = 1
        BY <1>7, <2>1, <3>1, <4>1
      <4>2. CASE k # 1
        <5>1. k - 1 \in 1 .. Len(useds) /\ prev[id] = useds[k - 1]
          BY <1>3, <1>7, <4>2
        <5> QED
          BY <3>1, <5>1
      <4> QED
        BY <4>1, <4>2
    <3>4. useds[i] = next[id] <=> i = k + 1
      <4>1. CASE k = Len(useds)
        BY <1>7, <2>1, <3>1, <4>1
      <4>2. CASE k # Len(useds)
        <5>1. k + 1 \in 1 .. Len(useds) /\ next[id] = useds[k + 1]
          BY <1>3, <1>7, <4>2
        <5> QED
          BY <3>1, <5>1
      <4> QED
        BY <4>1, <4>2
    <3>5. next'[useds[i]] = IF useds[i] = prev[id] THEN next[id] ELSE next[useds[i]]
      BY <1>8, <3>1, <3>2
    <3>6. prev'[useds[i]] = IF useds[i] = next[id] THEN prev[id] ELSE prev[useds[i]]
      BY Zenon, <1>8, <3>1, <3>2
    <3> QED
      BY <3>3, <3>4, <3>5, <3>6 DEF id
  <2>2. Linked(useds, used, next, prev)
    BY <1>1, ListFacts
  <2>3. Linked(Without(useds, k), IF used = useds[k] THEN next[useds[k]] ELSE used, next', prev')
    BY Zenon, <1>3, <2>1, <2>2, LinkWithout
  <2> QED
    BY Zenon, <1>2, <1>8, <2>3 DEF id
<1>13. Linked(frees, free, next, prev)'
  <2>1. ASSUME NEW i \in 1 .. Len(frees)
        PROVE  /\ next'[frees[i]] = next[frees[i]]
               /\ prev'[frees[i]] = IF i = 1 THEN id ELSE prev[frees[i]]
    <3>1. /\ frees[i] \in Slices /\ frees[i] # kInvalidSliceId
          /\ frees[i] = free <=> i = 1
          /\ \A j \in 1 .. Len(useds) : frees[i] # useds[j]
      BY <1>1, <2>1, ListFacts
    <3>2. frees[i] # id
      BY <1>4, <2>1
    <3>3. frees[i] # prev[id]
      <4>1. k # 1 => k - 1 \in 1 .. Len(useds)
        BY <1>3
      <4> QED
        BY <1>7, <3>1, <4>1
    <3>4. frees[i] # next[id]
      <4>1. k # Len(useds) => k + 1 \in 1 .. Len(useds)
        BY <1>3
      <4> QED
        BY <1>7, <3>1, <4>1
    <3>5. next'[frees[i]] = next[frees[i]]
      BY <1>8, <3>1, <3>2, <3>3
    <3>6. prev'[frees[i]] = IF i = 1 THEN id ELSE prev[frees[i]]
      BY Zenon, <1>8, <3>1, <3>2, <3>4
    <3> QED
      BY <3>5, <3>6
  <2>2. next'[id] = free /\ prev'[id] = kInvalidSliceId
    BY <1>3, <1>4, <1>8
  <2>3. Linked(frees, free, next, prev)
    BY Zenon, <1>1, ListFacts
  <2>4. Linked(<<id>> \o frees, id, next', prev')
    BY Zenon, <1>3, <1>4, <2>1, <2>2, <2>3, LinkFront
  <2> QED
    BY <1>2, <1>8, <2>4
<1>14. ASSUME NEW i \in 1 .. Len(useds')
       PROVE  \E j \in 1 .. Len(useds) : j # k /\ useds'[i] = useds[j]
  <2>1. i \in 1 .. Len(useds) - 1
    BY <1>5
  <2>2. CASE i < k
    <3>1. i \in 1 .. Len(useds) /\ i # k /\ useds'[i] = useds[i]
      BY <1>3, <1>5, <2>1, <2>2
    <3> QED
      BY <3>1
  <2>3. CASE ~(i < k)
    <3>1. i + 1 \in 1 .. Len(useds) /\ i + 1 # k
      BY <1>3, <2>1, <2>3
    <3>2. useds'[i] = useds[i + 1]
      BY <1>5, <2>1, <2>3
    <3> QED
      BY <3>1, <3>2
  <2> QED
    BY <2>2, <2>3
<1>15. ASSUME NEW i \in 1 .. Len(frees')
       PROVE  frees'[i] = id \/ \E j \in 1 .. Len(frees) : frees'[i] = frees[j]
  <2>1. CASE i = 1
    BY <1>6, <2>1
  <2>2. CASE i # 1
    <3>1. i - 1 \in 1 .. Len(frees) /\ i \in 2 .. Len(frees) + 1
      BY <1>3, <1>6, <2>2
    <3>2. frees'[i] = frees[i - 1]
      BY <1>6, <3>1
    <3> QED
      BY <3>1, <3>2
  <2> QED
    BY <2>1, <2>2
<1>16. \A i \in 1 .. Len(frees'), j \in 1 .. Len(useds') : frees'[i] # useds'[j]
  <2>1. \A i \in 1 .. Len(frees), j \in 1 .. Len(useds) : frees[i] # useds[j]
    BY Zenon, <1>1, ListFacts
  <2> SUFFICES ASSUME NEW i \in 1 .. Len(frees'), NEW j \in 1 .. Len(useds') PROVE frees'[i] # useds'[j]
    BY Zenon
  <2>2. PICK b \in 1 .. Len(useds) : b # k /\ useds'[j] = useds[b]
    BY Zenon, <1>14
  <2>3. CASE frees'[i] = id
    BY <1>4, <2>2, <2>3
  <2>4. CASE \E a \in 1 .. Len(frees) : frees'[i] = frees[a]
    BY Zenon, <2>1, <2>2, <2>4
  <2> QED
    BY Zenon, <1>15, <2>3, <2>4
<1>17. ASSUME NEW s \in 0 .. n - 1
       PROVE  \/ \E i \in 1 .. Len(frees') : frees'[i] = s
              \/ \E j \in 1 .. Len(useds') : useds'[j] = s
  <2>1. \/ \E i \in 1 .. Len(frees) : frees[i] = s
        \/ \E j \in 1 .. Len(useds) : useds[j] = s
    BY Zenon, <1>1, <1>17 DEF IInv, Lists
  <2>2. CASE s = id
    <3>1. 1 \in 1 .. Len(frees') /\ frees'[1] = s
      BY <1>3, <1>6, <2>2
    <3> QED
      BY <3>1
  <2>3. ASSUME NEW i \in 1 .. Len(frees), frees[i] = s
        PROVE  \E j \in 1 .. Len(frees') : frees'[j] = s
    <3>1. i + 1 \in 1 .. Len(frees') /\ i + 1 \in 2 .. Len(frees) + 1
      BY <1>3, <1>6, <2>3
    <3>2. frees'[i + 1] = s
      BY <1>3, <1>6, <2>3, <3>1
    <3> QED
      BY <3>1, <3>2
  <2>4. ASSUME NEW j \in 1 .. Len(useds), useds[j] = s, s # id
        PROVE  \E i \in 1 .. Len(useds') : useds'[i] = s
    <3>1. CASE j < k
      <4>1. j \in 1 .. Len(useds) - 1 /\ j \in 1 .. Len(useds')
        BY <1>3, <1>5, <3>1
      <4>2. useds'[j] = s
        BY <1>5, <2>4, <3>1, <4>1
      <4> QED
        BY <4>1, <4>2
    <3>2. CASE ~(j < k)
      <4>1. /\ j - 1 \in 1 .. Len(useds) - 1 /\ j - 1 \in 1 .. Len(useds')
            /\ ~(j - 1 < k)
        BY <1>3, <1>5, <2>4, <3>2 DEF id
      <4>2. useds'[j - 1] = useds[(j - 1) + 1]
        BY <1>5, <4>1
      <4>3. (j - 1) + 1 = j
        OBVIOUS
      <4> QED
        BY <2>4, <4>1, <4>2, <4>3
    <3> QED
      BY <3>1, <3>2
  <2> QED
    BY <2>1, <2>2, <2>3, <2>4
<1>18. size' = Len(useds') /\ Len(frees') + Len(useds') = n
  <2>1. Len(frees) + Len(useds) = n
    BY <1>1, ListFacts
  <2>2. /\ size' = Len(useds) - 1 /\ Len(useds') = Len(useds) - 1
        /\ Len(frees') = Len(frees) + 1
    BY <1>5, <1>6, <1>8
  <2>3. (Len(frees) + 1) + (Len(useds) - 1) = Len(frees) + Len(useds)
    BY <1>3
  <2> QED
    BY <2>1, <2>2, <2>3
<1>19. /\ \A i \in 1 .. Len(frees') : frees'[i] < n
       /\ \A i \in 1 .. Len(useds') : useds'[i] < n
  <2>1. /\ \A i \in 1 .. Len(frees) : frees[i] < n
        /\ \A i \in 1 .. Len(useds) : useds[i] < n
    BY <1>1, ListFacts
  <2>2. id < n
    BY <2>1 DEF id
  <2> HIDE DEF n
  <2> QED
    BY Zenon, <1>14, <1>15, <2>1, <2>2
<1>20. n = SlicesIn(made)'
  BY <1>2 DEF SlicesIn
<1> HIDE DEF n
<1>21. Lists'
  BY Zenon, <1>12, <1>13, <1>16, <1>17, <1>18, <1>20 DEF Lists
<1>22. Sizes'
  BY <1>2, <1>19, <1>20 DEF IInv, Sizes, n
<1> QED
  BY <1>11, <1>21, <1>22 DEF IInv

\* Every call keeps the invariant.
LEMMA NextIInv == IInv /\ [Next]_vars => IInv'
<1>1. SUFFICES ASSUME IInv, [Next]_vars PROVE IInv'
  OBVIOUS
<1>2. CASE UNCHANGED vars
  BY <1>1, <1>2, StutterIInv DEF vars
<1>3. ASSUME NEW l \in Lens, CreateFrom(l) PROVE IInv'
  BY <1>1, <1>3, CreateIInv
<1>4. ASSUME NEW l \in Lens, RestoreFrom(l) PROVE IInv'
  BY <1>1, <1>4, RestoreIInv
<1>5. CASE Exit
  BY <1>1, <1>5, ExitIInv
<1>6. CASE GetSlice
  BY <1>1, <1>6, GetIInv
<1>7. CASE clear
  BY <1>1, <1>7, ClearIInv
<1>8. ASSUME NEW k \in 1 .. Len(useds), FreeSlice(k) PROVE IInv'
  BY <1>1, <1>8, FreeIInv
<1> QED
  BY <1>1, <1>2, <1>3, <1>4, <1>5, <1>6, <1>7, <1>8 DEF Next

\* The invariant of MemoryList holds in every reachable state.
LEMMA Inductive == Spec => []IInv
BY InitIInv, NextIInv, PTL DEF Spec

-----------------------------------------------------------------------------
(* The variables of the region and of the process keep their types. *)
THEOREM TypeCorrect == Spec => []TypeOK
<1>1. IInv => TypeOK
  BY DEF IInv
<1> QED
  BY <1>1, Inductive, PTL

(* The links of the region describe a free list and a used list that share   *)
(* no slice and lose none, after any calls of CreateFrom, RestoreFrom,       *)
(* GetSlice, FreeSlice and clear, and whatever the sizes are.                *)
THEOREM ListsCorrect == Spec => []Lists
<1>1. IInv => Lists
  BY DEF IInv
<1> QED
  BY <1>1, Inductive, PTL

(* No assertion of FreeSlice fails for a slice that a caller holds. *)
THEOREM FreeNeverAsserts == Spec => []FreeAsserts
<1>1. IInv => FreeAsserts
  <2>1. SUFFICES ASSUME IInv, Usable, NEW k \in 1 .. Len(useds)
                 PROVE  /\ useds[k] < capacity_
                        /\ used = useds[k] => prev[useds[k]] = kInvalidSliceId
    BY DEF FreeAsserts
  <2>2. /\ magic /\ SlicesIn(made) <= capacity_ /\ made \in Lens
        /\ capacity_ \in Nat
    BY <2>1 DEF IInv, Sizes, Usable, TypeOK
  <2>3. useds[k] < SlicesIn(made) /\ useds[k] \in Int
    BY <2>1, <2>2, ListFacts, SizeAssumption DEF Slices
  <2>4. SlicesIn(made) \in Int
    BY <2>2, SlicesInType, SizeAssumption
  <2>5. useds[k] < capacity_
    BY <2>2, <2>3, <2>4
  <2>6. used = useds[k] => k = 1
    <3>1. Len(useds) \in Nat \ {0} /\ 1 \in 1 .. Len(useds)
      BY <2>1, <2>2, ListFacts
    <3>2. used = useds[1]
      BY <2>1, <2>2, <3>1, ListFacts
    <3> QED
      BY Zenon, <2>1, <2>2, <3>1, <3>2, ListFacts
  <2>7. Linked(useds, used, next, prev)
    BY <2>1, <2>2, ListFacts
  <2>8. k = 1 => prev[useds[k]] = kInvalidSliceId
    BY <2>7 DEF Linked
  <2> QED
    BY <2>5, <2>6, <2>8
<1> QED
  BY <1>1, Inductive, PTL

(* GetSlice finds nothing exactly when the list is full(), while the region  *)
(* has the length in which MakeSliceList laid the slices out.                *)
THEOREM FullIsExhausted == Spec => []FullWhenMade
<1>1. IInv => FullWhenMade
  <2>1. SUFFICES ASSUME IInv, Usable, len = made
                 PROVE  free = kInvalidSliceId <=> size = capacity_
    BY DEF FullWhenMade, full
  <2>2. magic /\ capacity_ = SlicesIn(made)
    BY <2>1 DEF IInv, Sizes, Usable
  <2>3. /\ Len(frees) \in Nat /\ Len(useds) \in Nat
        /\ size = Len(useds) /\ Len(frees) + Len(useds) = capacity_
        /\ free = (IF Len(frees) = 0 THEN kInvalidSliceId ELSE frees[1])
        /\ \A i \in 1 .. Len(frees) : frees[i] # kInvalidSliceId
    BY <2>1, <2>2, ListFacts
  <2>4. CASE Len(frees) = 0
    BY <2>3, <2>4
  <2>5. CASE Len(frees) # 0
    <3>1. 1 \in 1 .. Len(frees)
      BY <2>3, <2>5
    <3>2. free # kInvalidSliceId
      BY <2>3, <2>5, <3>1
    <3>3. size # capacity_
      BY <2>3, <2>5
    <3> QED
      BY <3>2, <3>3
  <2> QED
    BY <2>4, <2>5
<1> QED
  BY <1>1, Inductive, PTL

-----------------------------------------------------------------------------
(* The elements of a list. *)
Elems(s) == {s[k] : k \in 1 .. Len(s)}

\* The slices of a list with one in front.
LEMMA ElemsCons ==
  ASSUME NEW id \in Slices, NEW s \in Seq(Slices)
  PROVE  Elems(<<id>> \o s) = Elems(s) \cup {id}
<1> DEFINE t == <<id>> \o s
<1>1. /\ Len(t) = Len(s) + 1 /\ t[1] = id /\ Len(s) \in Nat
      /\ \A i \in 2 .. Len(s) + 1 : t[i] = s[i - 1]
  BY ConsType, LenProperties
<1> HIDE DEF t
<1>2. ASSUME NEW i \in 1 .. Len(t) PROVE t[i] \in Elems(s) \cup {id}
  <2>1. CASE i = 1
    BY <1>1, <2>1
  <2>2. CASE i # 1
    <3>1. i \in 2 .. Len(s) + 1 /\ i - 1 \in 1 .. Len(s)
      BY <1>1, <2>2
    <3>2. t[i] = s[i - 1]
      BY <1>1, <3>1
    <3> QED
      BY <3>1, <3>2 DEF Elems
  <2> QED
    BY <2>1, <2>2
<1>3. ASSUME NEW i \in 1 .. Len(s) PROVE s[i] \in Elems(t)
  <2>1. i + 1 \in 2 .. Len(s) + 1 /\ i + 1 \in 1 .. Len(t)
    BY <1>1
  <2>2. t[i + 1] = s[(i + 1) - 1] /\ (i + 1) - 1 = i
    BY <1>1, <2>1
  <2> QED
    BY <2>1, <2>2 DEF Elems
<1>4. id \in Elems(t)
  <2>1. 1 \in 1 .. Len(t)
    BY <1>1
  <2> QED
    BY <1>1, <2>1 DEF Elems
<1>5. Elems(t) = Elems(s) \cup {id}
  BY Zenon, <1>2, <1>3, <1>4 DEF Elems
<1> QED
  BY <1>5 DEF t

\* The slices of a list without its k-th.
LEMMA ElemsWithout ==
  ASSUME NEW s \in Seq(Slices), NEW k \in 1 .. Len(s),
         \A i, j \in 1 .. Len(s) : s[i] = s[j] => i = j
  PROVE  Elems(Without(s, k)) = Elems(s) \ {s[k]}
<1> DEFINE t == Without(s, k)
<1>1. /\ Len(t) = Len(s) - 1 /\ Len(s) \in Nat /\ k \in Nat
      /\ \A i \in 1 .. Len(s) - 1 : t[i] = IF i < k THEN s[i] ELSE s[i + 1]
  <2>1. Len(s) \in Nat
    BY LenProperties
  <2>2. k \in Nat
    BY <2>1
  <2>3. /\ Len(t) = Len(s) - 1
        /\ \A i \in 1 .. Len(s) - 1 : t[i] = IF i < k THEN s[i] ELSE s[i + 1]
    BY WithoutType
  <2> QED
    BY <2>1, <2>2, <2>3
<1> HIDE DEF t
<1>2. ASSUME NEW i \in 1 .. Len(t) PROVE t[i] \in Elems(s) \ {s[k]}
  <2>1. i \in 1 .. Len(s) - 1
    BY <1>1
  <2>2. PICK j \in 1 .. Len(s) : j # k /\ t[i] = s[j]
    <3>1. CASE i < k
      <4>1. i \in 1 .. Len(s) /\ i # k /\ t[i] = s[i]
        BY <1>1, <2>1, <3>1
      <4> QED
        BY <4>1
    <3>2. CASE ~(i < k)
      <4>1. i + 1 \in 1 .. Len(s) /\ i + 1 # k
        BY <1>1, <2>1, <3>2
      <4>2. t[i] = s[i + 1]
        BY <1>1, <2>1, <3>2
      <4> QED
        BY <4>1, <4>2
    <3> QED
      BY <3>1, <3>2
  <2> QED
    BY <2>2 DEF Elems
<1>3. ASSUME NEW j \in 1 .. Len(s), j # k PROVE s[j] \in Elems(t)
  <2>1. CASE j < k
    <3>1. j \in 1 .. Len(s) - 1 /\ j \in 1 .. Len(t)
      BY <1>1, <2>1
    <3>2. t[j] = s[j]
      BY <1>1, <2>1, <3>1
    <3> QED
      BY <3>1, <3>2 DEF Elems
  <2>2. CASE ~(j < k)
    <3>1. j - 1 \in 1 .. Len(s) - 1 /\ j - 1 \in 1 .. Len(t) /\ ~(j - 1 < k)
      BY <1>1, <1>3, <2>2
    <3>2. t[j - 1] = s[(j - 1) + 1] /\ (j - 1) + 1 = j
      BY <1>1, <3>1
    <3> QED
      BY <3>1, <3>2 DEF Elems
  <2> QED
    BY <2>1, <2>2
<1>4. Elems(t) = Elems(s) \ {s[k]}
  <2>1. Elems(t) \subseteq Elems(s) \ {s[k]}
    BY <1>2 DEF Elems
  <2>2. Elems(s) \ {s[k]} \subseteq Elems(t)
    <3>1. SUFFICES ASSUME NEW x \in Elems(s), x # s[k] PROVE x \in Elems(t)
      OBVIOUS
    <3>2. PICK j \in 1 .. Len(s) : x = s[j]
      BY DEF Elems
    <3>3. j # k
      BY <3>1, <3>2
    <3> QED
      BY <1>3, <3>2, <3>3
  <2> QED
    BY <2>1, <2>2
<1> QED
  BY <1>4 DEF t

(* The slices that are held and the slices that there are, as the abstract   *)
(* allocator sees them.                                                      *)
LEMMA MakeRefines ==
  ASSUME NEW l \in Lens, MakeSliceList(l)
  PROVE  /\ Elems(useds') = {}
         /\ \E n \in 0 .. MaxSlices : Elems(useds') \cup Elems(frees') = 0 .. n - 1
<1> DEFINE n == SlicesIn(l)
<1>1. n \in 0 .. MaxSlices /\ n \in Nat
  BY SlicesInType, SizeAssumption
<1>2. useds' = <<>> /\ frees' = [i \in 1 .. n |-> i - 1]
  BY DEF MakeSliceList
<1> HIDE DEF n
<1>3. Elems(useds') = {}
  BY <1>2 DEF Elems
<1>4. Len(frees') = n /\ \A i \in 1 .. n : frees'[i] = i - 1
  BY <1>1, <1>2
<1>5. ASSUME NEW s \in 0 .. n - 1 PROVE s \in Elems(frees')
  <2>1. s + 1 \in 1 .. n /\ frees'[s + 1] = s
    BY <1>1, <1>4
  <2> QED
    BY <1>4, <2>1 DEF Elems
<1>6. \A i \in 1 .. n : frees'[i] \in 0 .. n - 1
  BY <1>1, <1>4
<1>7. Elems(frees') = 0 .. n - 1
  <2>1. Elems(frees') = {frees'[i] : i \in 1 .. n}
    BY <1>4 DEF Elems
  <2>2. Elems(frees') \subseteq 0 .. n - 1
    BY <1>6, <2>1
  <2> QED
    BY Zenon, <1>5, <2>2
<1> QED
  BY <1>1, <1>3, <1>7

(* Through the slices in its two lists, MemoryList is an allocator that      *)
(* gives away only what nobody holds, refuses only when everything is held,  *)
(* and keeps what is held through every restart.                             *)
THEOREM ListIsAllocator == Spec => AllocatorSpec
<1> DEFINE H == {useds[k] : k \in 1 .. Len(useds)}
           F == {frees[k] : k \in 1 .. Len(frees)}
<1>1. Init => Allocator!Init
  <2>1. SUFFICES ASSUME Init PROVE H = {} /\ H \cup F = {} /\ ret = <<"Exit">>
    BY Zenon DEF Allocator!Init
  <2> QED
    BY <2>1 DEF Init
<1>2. IInv /\ [Next]_vars => [Allocator!Next]_(Allocator!vars)
  <2> SUFFICES ASSUME IInv, [Next]_vars PROVE [Allocator!Next]_(Allocator!vars)
    OBVIOUS
  <2>0. H = Elems(useds) /\ F = Elems(frees) /\ H' = Elems(useds') /\ F' = Elems(frees')
    BY DEF Elems
  <2>1. ASSUME useds' = useds, frees' = frees
        PROVE  H' = H /\ (H \cup F)' = H \cup F
    BY <2>1
  <2> HIDE DEF H, F
  <2>2. ASSUME NEW l \in Lens, CreateFrom(l) PROVE Allocator!Next
    <3>1. CASE UNCHANGED mlVars /\ ret' = <<"CreateFrom", FALSE>>
      <4>1. UNCHANGED <<H, H \cup F>>
        BY <2>1, <3>1 DEF mlVars
      <4>2. ret' \in {"CreateFrom", "RestoreFrom"} \X BOOLEAN
        BY Zenon, <3>1
      <4> QED
        BY Zenon, <4>1, <4>2 DEF Allocator!Next, Allocator!Attach, H, F
    <3>2. CASE MakeSliceList(l) /\ ret' = <<"CreateFrom", TRUE>>
      <4>1. /\ H' = {} /\ \E n \in 0 .. MaxSlices : H' \cup F' = 0 .. n - 1
            /\ ret' = <<"CreateFrom", TRUE>>
        BY <2>0, <3>2, MakeRefines
      <4> QED
        BY Zenon, <4>1 DEF Allocator!Next, Allocator!Make, H, F
    <3> QED
      BY Zenon, <2>2, <3>1, <3>2 DEF CreateFrom
  <2>3. ASSUME NEW l \in Lens, RestoreFrom(l) PROVE Allocator!Next
    <3>1. useds' = useds /\ frees' = frees
      BY Zenon, <2>3 DEF RestoreFrom, mlVars
    <3>2. UNCHANGED <<H, H \cup F>>
      BY <2>1, <3>1
    <3>3. ret' \in {"CreateFrom", "RestoreFrom"} \X BOOLEAN
      <4>1. ret' = <<"RestoreFrom", FALSE>> \/ ret' = <<"RestoreFrom", TRUE>>
        BY <2>3, Zenon DEF RestoreFrom
      <4>2. CASE ret' = <<"RestoreFrom", FALSE>>
        BY Zenon, <4>2
      <4>3. CASE ret' = <<"RestoreFrom", TRUE>>
        BY Zenon, <4>3
      <4> QED
        BY Zenon, <4>1, <4>2, <4>3
    <3> QED
      BY Zenon, <3>2, <3>3 DEF Allocator!Next, Allocator!Attach, H, F
  <2>4. CASE Exit
    <3>1. UNCHANGED <<H, H \cup F>>
      BY <2>1, <2>4 DEF Exit
    <3>2. ret' = <<"Exit">>
      BY <2>4 DEF Exit
    <3> QED
      BY Zenon, <3>1, <3>2 DEF Allocator!Next, Allocator!Attach, H, F
  <2>5. CASE clear
    <3>1. len \in Lens /\ MakeSliceList(len) /\ ret' = <<"clear">>
      BY <2>5 DEF clear, Usable, IInv, Sizes
    <3>2. Allocator!Next
      <4>1. /\ H' = {} /\ \E n \in 0 .. MaxSlices : H' \cup F' = 0 .. n - 1
            /\ ret' = <<"clear">>
        BY <2>0, <3>1, MakeRefines
      <4> QED
        BY Zenon, <4>1 DEF Allocator!Next, Allocator!Make, H, F
    <3> QED
      BY <3>2
  <2>6. CASE GetSlice
    <3>1. magic
      BY <2>6 DEF GetSlice, Usable, IInv, Sizes
    <3>2. CASE free = kInvalidSliceId
      <4>1. UNCHANGED <<H, H \cup F>>
        BY <2>1, <2>6, <3>2 DEF GetSlice, mlVars
      <4>2. Len(frees) = 0
        <5>1. Len(frees) # 0 => 1 \in 1 .. Len(frees)
          BY <3>1, ListFacts
        <5>2. Len(frees) # 0 => free # kInvalidSliceId
          BY <3>1, <5>1, ListFacts
        <5> QED
          BY <3>2, <5>2
      <4>3. H \cup F \subseteq H
        BY <2>0, <4>2 DEF Elems
      <4>4. ret' = <<"GetSlice", -1>>
        BY <2>6, <3>2 DEF GetSlice, kInvalidSliceId
      <4> QED
        BY Zenon, <4>1, <4>3, <4>4 DEF Allocator!Next, Allocator!GetSlice, H, F
    <3>3. CASE free # kInvalidSliceId
      <4>1. Take(free) /\ ret' = <<"GetSlice", free>>
        BY <2>6, <3>3 DEF GetSlice
      <4>2. /\ Len(frees) \in Nat \ {0} /\ free = frees[1] /\ free \in Slices
            /\ frees # <<>> /\ frees \in Seq(Slices) /\ useds \in Seq(Slices)
            /\ \A i, j \in 1 .. Len(frees) : frees[i] = frees[j] => i = j
        BY <3>1, <3>3, ListFacts, EmptySeq
      <4>3. 1 \in 1 .. Len(frees)
        BY <4>2
      <4>4. frees' = Without(frees, 1) /\ useds' = <<free>> \o useds
        BY <4>1, <4>2, TailIsWithout DEF Take
      <4>5. F' = F \ {free}
        BY <2>0, <4>2, <4>3, <4>4, ElemsWithout
      <4>6. H' = H \cup {free}
        BY <2>0, <4>2, <4>4, ElemsCons
      <4>7. free \in F
        BY <2>0, <4>2, <4>3 DEF Elems
      <4>8. free \notin H
        <5>1. \A j \in 1 .. Len(useds) : frees[1] # useds[j]
          BY <3>1, <4>3, ListFacts
        <5> QED
          BY <2>0, <4>2, <5>1 DEF Elems
      <4>9. /\ H' \cup F' = H \cup F
            /\ \E s \in (H \cup F) \ H : H' = H \cup {s} /\ ret' = <<"GetSlice", s>>
        BY <4>1, <4>5, <4>6, <4>7, <4>8
      <4> QED
        BY Zenon, <4>9 DEF Allocator!Next, Allocator!GetSlice, H, F
    <3> QED
      BY <3>2, <3>3
  <2>7. ASSUME NEW k \in 1 .. Len(useds), FreeSlice(k) PROVE Allocator!Next
    <3>1. magic
      BY <2>7 DEF FreeSlice, Usable, IInv, Sizes
    <3>2. /\ frees' = <<useds[k]>> \o frees /\ useds' = Without(useds, k)
          /\ ret' = <<"FreeSlice", useds[k]>>
      BY <2>7 DEF FreeSlice
    <3>3. /\ frees \in Seq(Slices) /\ useds \in Seq(Slices) /\ useds[k] \in Slices
          /\ \A i, j \in 1 .. Len(useds) : useds[i] = useds[j] => i = j
      BY <3>1, ListFacts
    <3>4. H' = H \ {useds[k]}
      BY Zenon, <2>0, <3>2, <3>3, ElemsWithout
    <3>5. F' = F \cup {useds[k]}
      BY <2>0, <3>2, <3>3, ElemsCons
    <3>6. useds[k] \in H
      BY Zenon, <2>0 DEF Elems
    <3>7. /\ H' \cup F' = H \cup F
          /\ \E s \in H : H' = H \ {s} /\ ret' = <<"FreeSlice", s>>
      BY <3>2, <3>4, <3>5, <3>6
    <3> QED
      BY Zenon, <3>7 DEF Allocator!Next, Allocator!FreeSlice, H, F
  <2>8. CASE UNCHANGED vars
    <3>1. UNCHANGED <<H, H \cup F, ret>>
      BY <2>1, <2>8 DEF vars, mlVars
    <3> QED
      BY Zenon, <3>1 DEF Allocator!vars, H, F
  <2> QED
    BY <2>2, <2>3, <2>4, <2>5, <2>6, <2>7, <2>8 DEF Next
<1> QED
  BY <1>1, <1>2, Inductive, PTL DEF Spec, AllocatorSpec, Allocator!Spec
=============================================================================

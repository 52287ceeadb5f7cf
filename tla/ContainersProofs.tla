--------------------------- MODULE ContainersProofs ---------------------------
(***************************************************************************)
(* The containers of the module Containers keep what the calls left, for   *)
(* every capacity, every length of memory and all sizes.                   *)
(***************************************************************************)
EXTENDS Containers, Sequences, TLAPS, WellFoundedInduction

\* The time a leaf may take, which on a slow machine is more than the five seconds of the default.
USE SMTT(60)

\* A set of natural numbers that is not empty has a least element.
LEMMA Least == ASSUME NEW T \in SUBSET Nat, T # {} PROVE \E m \in T : \A k \in T : m <= k
<1> DEFINE R == OpToRel(<, Nat)
<1>0. \A x, y \in Nat : y < x => <<y, x>> \in R
  BY Zenon DEF OpToRel
<1>1. \E x \in T : \A y \in T : ~ (<<y, x>> \in R)
  BY NatLessThanWellFounded, WFMin, Zenon
<1> HIDE DEF R
<1>2. \E x \in T : \A y \in T : ~ (y < x)
  BY <1>1, <1>0, Zenon
<1> QED
  BY <1>2

\* Domain and elements of a sequence, and the numbers before one of its indices.
LEMMA SeqFacts == ASSUME NEW S, NEW s \in Seq(S) PROVE DOMAIN s = 1 .. Len(s) /\ \A i \in 1 .. Len(s) : s[i] \in S
  OBVIOUS

LEMMA Predecessor == \A n, c \in Nat : \A k \in 1 .. n : n - 1 \in Nat /\ (n <= c => n - 1 <= c)
  OBVIOUS

\* Length and elements of a prefix.
LEMMA PrefixFacts ==
  ASSUME NEW S, NEW s \in Seq(S), NEW k \in 0 .. Len(s)
  PROVE /\ SubSeq(s, 1, k) \in Seq(S) /\ Len(SubSeq(s, 1, k)) = k
        /\ \A i \in 1 .. k : SubSeq(s, 1, k)[i] = s[i]
<1>1. SubSeq(s, 1, k) \in Seq(S)
  OBVIOUS
<1>2. Len(SubSeq(s, 1, k)) = k
  OBVIOUS
<1>3. \A i \in 1 .. k : SubSeq(s, 1, k)[i] = s[i]
  OBVIOUS
<1> QED
  BY <1>1, <1>2, <1>3

\* t is a followed by b.
Joined(t, a, b) ==
  /\ Len(t) = Len(a) + Len(b)
  /\ \A i \in 1 .. Len(a) + Len(b) : t[i] = IF i <= Len(a) THEN a[i] ELSE b[i - Len(a)]

\* Length and elements of a concatenation.
LEMMA ConcatFacts == ASSUME NEW S, NEW a \in Seq(S), NEW b \in Seq(S) PROVE a \o b \in Seq(S) /\ Joined(a \o b, a, b)
<1>1. a \o b \in Seq(S) /\ Len(a \o b) = Len(a) + Len(b)
  OBVIOUS
<1>2. \A i \in 1 .. Len(a) + Len(b) : (a \o b)[i] = IF i <= Len(a) THEN a[i] ELSE b[i - Len(a)]
  OBVIOUS
<1> QED
  BY <1>1, <1>2, Zenon DEF Joined

\* t is s without its elements from the i-th to before the j-th.
Gap(t, s, i, j) ==
  /\ Len(t) = Len(s) - (j - i)
  /\ \A x \in 1 .. Len(s) - (j - i) : t[x] = IF x < i THEN s[x] ELSE s[x + (j - i)]

\* What is before and what is behind the gap, put together.
LEMMA GapJoined ==
  ASSUME NEW S, NEW s \in Seq(S), NEW i \in 1 .. Len(s) + 1, NEW j \in i .. Len(s) + 1, NEW a, NEW b, NEW t,
         Len(a) = i - 1, \A x \in 1 .. i - 1 : a[x] = s[x],
         Len(b) = Len(s) - j + 1, \A x \in 1 .. Len(s) - j + 1 : b[x] = s[(j + x) - 1], Joined(t, a, b)
  PROVE Gap(t, s, i, j)
<1>0. Len(s) \in Nat /\ i \in Nat /\ j \in Nat
  OBVIOUS
<1>1. Len(t) = Len(a) + Len(b) /\ \A x \in 1 .. Len(a) + Len(b) : t[x] = IF x <= Len(a) THEN a[x] ELSE b[x - Len(a)]
  BY Zenon DEF Joined
<1>2. Len(t) = Len(s) - (j - i) /\ Len(a) + Len(b) = Len(s) - (j - i)
  BY <1>0, <1>1
<1> SUFFICES ASSUME NEW x \in 1 .. Len(s) - (j - i) PROVE t[x] = IF x < i THEN s[x] ELSE s[x + (j - i)]
  BY <1>2, Zenon DEF Gap
<1>3. CASE x < i
  <2>1. x \in 1 .. i - 1 /\ x <= Len(a) /\ x \in 1 .. Len(a) + Len(b)
    BY <1>0, <1>2, <1>3
  <2> QED
    BY <1>1, <1>3, <2>1
<1>4. CASE ~(x < i)
  <2> DEFINE y == x - Len(a)
  <2>1. x \in 1 .. Len(a) + Len(b) /\ ~(x <= Len(a))
    BY <1>0, <1>2, <1>4
  <2>2. y \in 1 .. Len(s) - j + 1 /\ (j + y) - 1 = x + (j - i)
    BY <1>0, <1>4
  <2> HIDE DEF y
  <2>3. t[x] = b[y]
    BY <1>1, <2>1 DEF y
  <2>4. b[y] = s[(j + y) - 1]
    BY <2>2
  <2> QED
    BY <1>4, <2>2, <2>3, <2>4
<1> QED
  BY <1>3, <1>4

\* What is left before and behind the gap.
LEMMA CutFacts ==
  ASSUME NEW S, NEW s \in Seq(S), NEW i \in 1 .. Len(s) + 1, NEW j \in i .. Len(s) + 1,
         NEW t, t = SubSeq(s, 1, i - 1) \o SubSeq(s, j, Len(s))
  PROVE t \in Seq(S) /\ Gap(t, s, i, j)
<1> DEFINE a == SubSeq(s, 1, i - 1)
           b == SubSeq(s, j, Len(s))
<1>1. a \in Seq(S) /\ Len(a) = i - 1 /\ \A x \in 1 .. i - 1 : a[x] = s[x]
  OBVIOUS
<1>2. b \in Seq(S) /\ Len(b) = Len(s) - j + 1 /\ \A x \in 1 .. Len(s) - j + 1 : b[x] = s[(j + x) - 1]
  OBVIOUS
<1> HIDE DEF a, b
<1>3. a \o b \in Seq(S) /\ Joined(a \o b, a, b)
  BY <1>1, <1>2, ConcatFacts
<1>4. t = a \o b
  BY DEF a, b
<1>5. t \in Seq(S) /\ Joined(t, a, b)
  BY Zenon, <1>3, <1>4
<1>6. Gap(t, s, i, j)
  BY <1>1, <1>2, <1>5, GapJoined, Zenon
<1> QED
  BY <1>5, <1>6
-----------------------------------------------------------------------------
(***************************************************************************)
(* List. Every slice is in the list or free and none is in both, so that a *)
(* slice from GetSlice is none that the links lead to; the links are those *)
(* of the sequence.                                                        *)
(***************************************************************************)

Cells == L!Ids
Ends == Cells \cup {L!Nil}

CellSeqs == Seq(Cells)
CellLinks == [prev : Ends, next : Ends]
ListState == [head : Ends, tail : Ends, size : Nat, node : [Cells -> CellLinks], free : CellSeqs, ok : BOOLEAN]

Distinct(s) == \A i, j \in 1 .. Len(s) : s[i] = s[j] => i = j
Apart(s, t) == \A i \in 1 .. Len(s), j \in 1 .. Len(t) : s[i] # t[j]
Covers(s, t) == \A id \in Cells : (\E i \in 1 .. Len(s) : s[i] = id) \/ (\E j \in 1 .. Len(t) : t[j] = id)
Shared(s, t) == Distinct(s) /\ Distinct(t) /\ Apart(s, t) /\ Covers(s, t)

ListOk(o, s) ==
  /\ o \in ListState /\ s \in CellSeqs
  /\ Shared(s, o.free) /\ Len(s) + Len(o.free) = ListCapacity
  /\ o.ok /\ o.size = Len(s) /\ L!Linked(o, s)

\* t is s without its k-th element.
Cut(t, s, k) ==
  /\ s \in CellSeqs /\ t \in CellSeqs /\ k \in 1 .. Len(s) /\ Len(t) = Len(s) - 1
  /\ \A i \in 1 .. Len(s) - 1 : t[i] = IF i < k THEN s[i] ELSE s[i + 1]

\* What the property states follows from the invariant of the list.
LEMMA ListAgrees == ListOk(obj, ref) => L!Agrees
<1> SUFFICES ASSUME ListOk(obj, ref) PROVE L!Agrees
  OBVIOUS
<1>1. obj.free \in Seq(Cells) /\ ref \in Seq(Cells)
  BY DEF ListOk, ListState, CellSeqs
<1>2. DOMAIN obj.free = 1 .. Len(obj.free) /\ DOMAIN ref = 1 .. Len(ref)
  BY <1>1
<1>3. \A id \in L!Ids : (\E i \in DOMAIN ref : ref[i] = id) \/ (\E i \in DOMAIN obj.free : obj.free[i] = id)
  BY <1>2 DEF ListOk, Shared, Covers, Cells
<1> QED
  BY <1>3 DEF ListOk, L!Agrees

\* Sharing is symmetric.
LEMMA SharedBoth == ASSUME NEW s, NEW t, Shared(s, t) PROVE Shared(t, s)
BY DEF Shared, Apart, Covers

\* Where the elements of s without its k-th come from, and go to.
Places(t, s, k) ==
  /\ \A i \in 1 .. Len(t) : \E m \in 1 .. Len(s) : m # k /\ t[i] = s[m] /\ m = IF i < k THEN i ELSE i + 1
  /\ \A m \in 1 .. Len(s) : m # k => \E i \in 1 .. Len(t) : t[i] = s[m] /\ m = IF i < k THEN i ELSE i + 1

\* Every other element is in its place.
LEMMA CutPlaces == ASSUME NEW s, NEW t, NEW k, Cut(t, s, k) PROVE Places(t, s, k)
<1>1. Len(s) \in Nat /\ Len(t) = Len(s) - 1 /\ k \in 1 .. Len(s)
  BY DEF Cut, CellSeqs
<1>2. \A i \in 1 .. Len(t) : \E m \in 1 .. Len(s) : m # k /\ t[i] = s[m] /\ m = IF i < k THEN i ELSE i + 1
  BY <1>1 DEF Cut
<1>3. ASSUME NEW m \in 1 .. Len(s), m # k PROVE \E i \in 1 .. Len(t) : t[i] = s[m] /\ m = IF i < k THEN i ELSE i + 1
  <2>1. CASE m < k
    <3>1. m \in 1 .. Len(t) /\ t[m] = s[m]
      BY <1>1, <2>1 DEF Cut
    <3> QED
      BY <2>1, <3>1
  <2>2. CASE m > k
    <3>1. m - 1 \in 1 .. Len(t) /\ t[m - 1] = s[m - 1 + 1] /\ m - 1 + 1 = m /\ ~(m - 1 < k)
      BY <1>1, <2>2 DEF Cut
    <3> QED
      BY <3>1
  <2> QED
    BY <1>1, <1>3, <2>1, <2>2
<1> QED
  BY <1>2, <1>3, Zenon DEF Places

\* An element that goes from anywhere in one sequence to anywhere in the other.
LEMMA SharedMove ==
  ASSUME NEW s, NEW t, Shared(s, t), NEW a, NEW b, NEW k, NEW p, Cut(a, s, k), Cut(t, b, p), b[p] = s[k]
  PROVE Shared(a, b)
<1>1. k \in 1 .. Len(s) /\ p \in 1 .. Len(b) /\ Len(s) \in Nat /\ Len(b) \in Nat /\ Len(a) \in Nat /\ Len(t) \in Nat
  BY DEF Cut, CellSeqs
<1>0. Places(a, s, k) /\ Places(t, b, p)
  BY CutPlaces
<1>2. \A i \in 1 .. Len(a) : \E m \in 1 .. Len(s) : m # k /\ a[i] = s[m] /\ m = IF i < k THEN i ELSE i + 1
  BY <1>0, Zenon DEF Places
<1>3. \A m \in 1 .. Len(s) : m # k => \E i \in 1 .. Len(a) : a[i] = s[m]
  BY <1>0, Zenon DEF Places
<1>4. \A i \in 1 .. Len(t) : \E m \in 1 .. Len(b) : b[m] = t[i]
  BY <1>0, Zenon DEF Places
<1>5. \A m \in 1 .. Len(b) : m # p => \E i \in 1 .. Len(t) : b[m] = t[i] /\ m = IF i < p THEN i ELSE i + 1
  BY <1>0, Zenon DEF Places
<1>6. Distinct(a)
  <2> SUFFICES ASSUME NEW i \in 1 .. Len(a), NEW j \in 1 .. Len(a), a[i] = a[j] PROVE i = j
    BY DEF Distinct
  <2>1. PICK m \in 1 .. Len(s) : a[i] = s[m] /\ m = IF i < k THEN i ELSE i + 1
    BY <1>2
  <2>2. PICK n \in 1 .. Len(s) : a[j] = s[n] /\ n = IF j < k THEN j ELSE j + 1
    BY <1>2
  <2>3. m = n
    BY Zenon, <2>1, <2>2 DEF Shared, Distinct
  <2>4. i \in Nat /\ j \in Nat /\ k \in Nat
    BY <1>1
  <2> QED
    BY <2>1, <2>2, <2>3, <2>4
<1>7. \A m \in 1 .. Len(t) : t[m] # s[k]
  BY <1>1 DEF Shared, Apart
<1>8. Distinct(b)
  <2> SUFFICES ASSUME NEW i \in 1 .. Len(b), NEW j \in 1 .. Len(b), b[i] = b[j] PROVE i = j
    BY DEF Distinct
  <2>1. CASE i # p /\ j # p
    <3>1. PICK m \in 1 .. Len(t) : b[i] = t[m] /\ i = IF m < p THEN m ELSE m + 1
      BY <1>5, <2>1
    <3>2. PICK n \in 1 .. Len(t) : b[j] = t[n] /\ j = IF n < p THEN n ELSE n + 1
      BY <1>5, <2>1
    <3>3. m = n
      BY ZenonT(60), <3>1, <3>2 DEF Shared, Distinct
    <3> QED
      BY <3>1, <3>2, <3>3
  <2> QED
    BY <1>5, <1>7, <2>1
<1>9. Apart(a, b)
  <2> SUFFICES ASSUME NEW i \in 1 .. Len(a), NEW j \in 1 .. Len(b) PROVE a[i] # b[j]
    BY DEF Apart
  <2>1. PICK m \in 1 .. Len(s) : m # k /\ a[i] = s[m]
    BY <1>2
  <2>2. s[m] # s[k] /\ \A n \in 1 .. Len(t) : s[m] # t[n]
    BY <1>1, <2>1 DEF Shared, Distinct, Apart
  <2> QED
    BY <1>5, <2>1, <2>2
<1>10. Covers(a, b)
  <2> SUFFICES ASSUME NEW id \in Cells
               PROVE (\E i \in 1 .. Len(a) : a[i] = id) \/ (\E j \in 1 .. Len(b) : b[j] = id)
    BY DEF Covers
  <2>1. CASE \E m \in 1 .. Len(s) : s[m] = id
    BY Zenon, <1>1, <1>3, <2>1
  <2>2. CASE \E m \in 1 .. Len(t) : t[m] = id
    BY <1>4, <2>2
  <2> QED
    BY <2>1, <2>2 DEF Shared, Covers
<1> QED
  BY <1>6, <1>8, <1>9, <1>10 DEF Shared

\* Unlink, field by field.
Unlinked(q, o, id) ==
  LET p == o.node[id].prev
      n == o.node[id].next
  IN /\ q \in ListState
     /\ q.head = (IF p = L!Nil THEN n ELSE o.head) /\ q.tail = (IF n = L!Nil THEN p ELSE o.tail)
     /\ q.size = o.size - 1 /\ q.free = <<id>> \o o.free /\ q.ok = o.ok
     /\ \A x \in Cells : x # id =>
          q.node[x] = [prev |-> IF x = n THEN p ELSE o.node[x].prev, next |-> IF x = p THEN n ELSE o.node[x].next]

\* Unlink changes the neighbours, size and the free slices, and nothing else.
LEMMA UnlinkFields ==
  ASSUME NEW o \in ListState, NEW id \in Cells, o.size > 0
  PROVE Unlinked(L!Unlink(o, id), o, id)
<1> DEFINE p == o.node[id].prev
           n == o.node[id].next
           a == IF p # L!Nil THEN [o EXCEPT !.node[p].next = n] ELSE [o EXCEPT !.head = n]
           b == IF n # L!Nil THEN [a EXCEPT !.node[n].prev = p] ELSE [a EXCEPT !.tail = p]
           less == o.size - 1
           free == <<id>> \o o.free
           q == [b EXCEPT !.size = @ - 1, !.node[id] = L!Unused, !.free = <<id>> \o @]
<1>0. L!Unlink(o, id) = q
  BY DEF L!Unlink
<1>1. p \in Ends /\ n \in Ends /\ L!Nil \notin Cells /\ o.node \in [Cells -> CellLinks] /\ less \in Nat
  <2>1. L!Nil \notin Cells
    BY ListAssumption DEF Cells, L!Ids, L!Nil
  <2> QED
    BY <2>1 DEF ListState, CellLinks
<1>2. free \in CellSeqs
  BY DEF ListState, CellSeqs
<1> HIDE DEF p, n
<1>3. /\ a \in ListState /\ a.head = (IF p = L!Nil THEN n ELSE o.head) /\ a.tail = o.tail
      /\ a.size = o.size /\ a.free = o.free /\ a.ok = o.ok
      /\ \A x \in Cells : a.node[x] = [prev |-> o.node[x].prev, next |-> IF x = p THEN n ELSE o.node[x].next]
  <2>1. CASE p = L!Nil
    BY <1>1, <2>1 DEF ListState, CellLinks
  <2>2. CASE p # L!Nil
    <3>1. p \in Cells
      BY <1>1, <2>2 DEF Ends
    <3>2. [o.node EXCEPT ![p].next = n] \in [Cells -> CellLinks]
      BY <1>1, <3>1 DEF CellLinks
    <3>3. a = [o EXCEPT !.node = [o.node EXCEPT ![p].next = n]]
      BY <2>2 DEF ListState
    <3>4. \A x \in Cells : [o.node EXCEPT ![p].next = n][x] = [prev |-> o.node[x].prev, next |-> IF x = p THEN n ELSE o.node[x].next]
      BY <1>1, <3>1 DEF CellLinks
    <3> HIDE DEF a
    <3> QED
      BY <2>2, <3>2, <3>3, <3>4 DEF ListState
  <2> QED
    BY <2>1, <2>2
<1> HIDE DEF a
<1>4. /\ b \in ListState /\ b.head = a.head /\ b.tail = (IF n = L!Nil THEN p ELSE o.tail)
      /\ b.size = o.size /\ b.free = o.free /\ b.ok = o.ok
      /\ \A x \in Cells : b.node[x] = [prev |-> IF x = n THEN p ELSE a.node[x].prev, next |-> a.node[x].next]
  <2>1. CASE n = L!Nil
    BY <1>1, <1>3, <2>1 DEF ListState, CellLinks
  <2>2. CASE n # L!Nil
    <3>1. n \in Cells /\ a.node \in [Cells -> CellLinks]
      BY <1>1, <1>3, <2>2 DEF Ends, ListState
    <3>2. [a.node EXCEPT ![n].prev = p] \in [Cells -> CellLinks]
      BY <1>1, <3>1 DEF CellLinks
    <3>3. b = [a EXCEPT !.node = [a.node EXCEPT ![n].prev = p]]
      BY <1>3, <2>2 DEF ListState
    <3>4. \A x \in Cells : [a.node EXCEPT ![n].prev = p][x] = [prev |-> IF x = n THEN p ELSE a.node[x].prev, next |-> a.node[x].next]
      BY <1>1, <3>1 DEF CellLinks
    <3> HIDE DEF b
    <3> QED
      BY Zenon, <1>3, <2>2, <3>2, <3>3, <3>4 DEF ListState
  <2> QED
    BY <2>1, <2>2
<1> HIDE DEF b
<1>5. L!Unused \in CellLinks
  BY DEF L!Unused, CellLinks, Ends
<1>6. /\ q \in ListState /\ q.head = b.head /\ q.tail = b.tail /\ q.size = less /\ q.free = free /\ q.ok = b.ok
      /\ \A x \in Cells : x # id => q.node[x] = b.node[x]
  <2>1. b.node \in [Cells -> CellLinks] /\ [b.node EXCEPT ![id] = L!Unused] \in [Cells -> CellLinks]
    BY <1>4, <1>5 DEF ListState
  <2>2. q = [[b EXCEPT !.size = less, !.free = free] EXCEPT !.node = [b.node EXCEPT ![id] = L!Unused]]
    BY Zenon, <1>4 DEF ListState
  <2> HIDE DEF less, free, q
  <2>3. [b EXCEPT !.size = less, !.free = free] \in ListState
    BY Zenon, <1>1, <1>2, <1>4 DEF ListState
  <2> QED
    BY Zenon, <1>4, <2>1, <2>2, <2>3 DEF ListState
<1>7. \A x \in Cells : x # id =>
        q.node[x] = [prev |-> IF x = n THEN p ELSE o.node[x].prev, next |-> IF x = p THEN n ELSE o.node[x].next]
  <2> HIDE DEF q
  <2> TAKE x \in Cells
  <2>1. HAVE x # id
  <2>2. q.node[x] = b.node[x]
    BY <1>6, <2>1
  <2>3. b.node[x] = [prev |-> IF x = n THEN p ELSE a.node[x].prev, next |-> a.node[x].next]
    BY <1>4, Zenon
  <2>4. a.node[x] = [prev |-> o.node[x].prev, next |-> IF x = p THEN n ELSE o.node[x].next]
    BY <1>3, Zenon
  <2>5. a.node[x].prev = o.node[x].prev /\ a.node[x].next = IF x = p THEN n ELSE o.node[x].next
    BY <2>4
  <2> QED
    BY <2>2, <2>3, <2>5
<1> HIDE DEF q
<1> QED
  BY <1>0, <1>3, <1>4, <1>6, <1>7 DEF Unlinked, p, n, less, free

\* The neighbours in a sequence that lost its k-th element.
LEMMA AtCut ==
  ASSUME NEW s, NEW t, NEW k, Cut(t, s, k), NEW i \in 0 .. Len(s)
  PROVE L!At(t, i) = IF i < k THEN L!At(s, i) ELSE L!At(s, i + 1)
<1>1. Len(s) \in Nat /\ Len(t) = Len(s) - 1 /\ k \in 1 .. Len(s)
  BY DEF Cut, CellSeqs
<1>2. \A j \in 1 .. Len(s) - 1 : t[j] = IF j < k THEN s[j] ELSE s[j + 1]
  BY DEF Cut
<1> QED
  BY <1>1, <1>2 DEF L!At

\* An element has one place.
LEMMA AtOnce ==
  ASSUME NEW s \in CellSeqs, Distinct(s), NEW m \in 1 .. Len(s), NEW i \in Int
  PROVE (L!At(s, i) = s[m] <=> i = m) /\ (L!At(s, i) = L!Nil <=> i \notin 1 .. Len(s)) /\ s[m] \in Cells
<1>1. \A j \in 1 .. Len(s) : s[j] \in Cells
  BY DEF CellSeqs
<1>2. L!Nil \notin Cells
  BY ListAssumption DEF Cells, L!Ids, L!Nil
<1>3. CASE i \in 1 .. Len(s)
  <2>1. L!At(s, i) = s[i]
    BY <1>3 DEF L!At
  <2> QED
    BY <1>1, <1>2, <1>3, <2>1 DEF Distinct
<1>4. CASE i \notin 1 .. Len(s)
  <2>1. L!At(s, i) = L!Nil
    BY <1>4 DEF L!At
  <2> QED
    BY <1>1, <1>2, <1>4, <2>1
<1> QED
  BY <1>3, <1>4

\* The links after a node is unlinked are those of the sequence without it.
LEMMA UnlinkLinks ==
  ASSUME NEW o, NEW s, ListOk(o, s), NEW t, NEW k, Cut(t, s, k), NEW q, Unlinked(q, o, s[k])
  PROVE L!Linked(q, t)
<1> DEFINE p == L!At(s, k - 1)
           n == L!At(s, k + 1)
<1>1. s \in CellSeqs /\ Distinct(s) /\ k \in 1 .. Len(s) /\ Len(s) \in Nat /\ Len(t) = Len(s) - 1
  BY DEF ListOk, Shared, Cut, CellSeqs
<1>2. k \in Nat /\ k - 1 \in Int /\ k + 1 \in Int
  BY <1>1
<1>3. o.head = L!At(s, 1) /\ o.tail = L!At(s, Len(s))
  BY DEF ListOk, L!Linked
<1>4. \A m \in 1 .. Len(s) : o.node[s[m]] = [prev |-> L!At(s, m - 1), next |-> L!At(s, m + 1)]
  BY DEF ListOk, L!Linked
<1>5. o.node[s[k]].prev = p /\ o.node[s[k]].next = n
  <2>1. o.node[s[k]] = [prev |-> p, next |-> n]
    BY <1>1, <1>4, Zenon
  <2> QED
    BY <2>1
<1>6. p = L!Nil <=> k = 1
  BY <1>1, <1>2, AtOnce
<1>7. n = L!Nil <=> k = Len(s)
  BY <1>1, <1>2, AtOnce
<1>8. \A i \in 0 .. Len(s) : L!At(t, i) = IF i < k THEN L!At(s, i) ELSE L!At(s, i + 1)
  BY AtCut
<1>9. q.head = (IF p = L!Nil THEN n ELSE o.head) /\ q.tail = (IF n = L!Nil THEN p ELSE o.tail)
  BY <1>5 DEF Unlinked
<1>10. \A x \in Cells : x # s[k] =>
         q.node[x] = [prev |-> IF x = n THEN p ELSE o.node[x].prev, next |-> IF x = p THEN n ELSE o.node[x].next]
  BY <1>5 DEF Unlinked
<1>11. q.head = L!At(t, 1)
  BY <1>1, <1>3, <1>6, <1>8, <1>9
<1>12. q.tail = L!At(t, Len(t))
  BY <1>1, <1>3, <1>7, <1>8, <1>9
<1>13. ASSUME NEW i \in 1 .. Len(t)
       PROVE q.node[t[i]] = [prev |-> L!At(t, i - 1), next |-> L!At(t, i + 1)]
  <2> DEFINE m == IF i < k THEN i ELSE i + 1
  <2>1. m \in 1 .. Len(s) /\ m # k /\ t[i] = s[m]
    BY <1>1 DEF Cut
  <2>2. s[m] \in Cells /\ s[m] # s[k]
    BY <1>1, <2>1 DEF Distinct, CellSeqs
  <2>3. s[m] = n <=> m = k + 1
    BY <1>1, <1>2, <2>1, AtOnce
  <2>4. s[m] = p <=> m = k - 1
    BY <1>1, <1>2, <2>1, AtOnce
  <2>5. o.node[s[m]].prev = L!At(s, m - 1) /\ o.node[s[m]].next = L!At(s, m + 1)
    <3> HIDE DEF m
    <3>1. o.node[s[m]] = [prev |-> L!At(s, m - 1), next |-> L!At(s, m + 1)]
      BY <1>4, <2>1, Zenon
    <3> QED
      BY <3>1
  <2>6. L!At(t, i - 1) = IF m = k + 1 THEN p ELSE L!At(s, m - 1)
    BY <1>1, <1>8
  <2>7. L!At(t, i + 1) = IF m = k - 1 THEN n ELSE L!At(s, m + 1)
    BY <1>1, <1>8
  <2> HIDE DEF m, p, n
  <2>8. q.node[s[m]] = [prev |-> IF m = k + 1 THEN p ELSE L!At(s, m - 1), next |-> IF m = k - 1 THEN n ELSE L!At(s, m + 1)]
    BY <1>10, <2>2, <2>3, <2>4, <2>5
  <2> QED
    BY <2>1, <2>6, <2>7, <2>8
<1> QED
  BY <1>11, <1>12, <1>13 DEF L!Linked

\* A sequence with x in front.
LEMMA ConsCut ==
  ASSUME NEW x \in Cells, NEW f \in CellSeqs
  PROVE Cut(f, <<x>> \o f, 1) /\ Len(<<x>> \o f) = Len(f) + 1 /\ (<<x>> \o f)[1] = x
<1> DEFINE t == <<x>> \o f
<1>0. f \in Seq(Cells) /\ Len(f) \in Nat
  BY DEF CellSeqs
<1>1. t \in Seq(Cells) /\ Len(t) = Len(f) + 1
  BY <1>0
<1>2. t[1] = x
  BY <1>0
<1>3. \A i \in 1 .. Len(f) : t[i + 1] = f[i]
  BY <1>0
<1> HIDE DEF t
<1>4. Len(t) - 1 = Len(f) /\ 1 \in 1 .. Len(t)
  BY <1>0, <1>1
<1>5. \A i \in 1 .. Len(f) : f[i] = IF i < 1 THEN t[i] ELSE t[i + 1]
  BY <1>0, <1>3
<1>6. Cut(f, t, 1)
  BY <1>0, <1>1, <1>4, <1>5 DEF Cut, CellSeqs
<1> QED
  BY <1>1, <1>2, <1>6 DEF t

\* Unlink takes one element out of the list: pop_front, pop_back and erase.
LEMMA UnlinkOk ==
  ASSUME NEW o, NEW s, ListOk(o, s), NEW t, NEW k, Cut(t, s, k)
  PROVE ListOk(L!Unlink(o, s[k]), t)
<1> DEFINE q == L!Unlink(o, s[k])
<1>1. /\ o \in ListState /\ o.size = Len(s) /\ Len(s) \in Nat /\ k \in 1 .. Len(s) /\ s[k] \in Cells /\ t \in CellSeqs
      /\ Shared(s, o.free) /\ o.ok /\ Len(s) + Len(o.free) = ListCapacity /\ Len(t) = Len(s) - 1
  BY DEF ListOk, Cut, CellSeqs
<1>2. Unlinked(q, o, s[k])
  BY <1>1, UnlinkFields
<1> HIDE DEF q
<1>3. L!Linked(q, t)
  BY Zenon, <1>2, UnlinkLinks
<1>4. q \in ListState /\ q.size = Len(t) /\ q.ok /\ q.free = <<s[k]>> \o o.free
  BY <1>1, <1>2 DEF Unlinked
<1>5. o.free \in CellSeqs
  BY Zenon, <1>1 DEF ListState
<1>6. Cut(o.free, q.free, 1) /\ Len(q.free) = Len(o.free) + 1 /\ q.free[1] = s[k]
  BY <1>1, <1>4, <1>5, ConsCut
<1>7. Len(o.free) \in Nat
  BY <1>5 DEF CellSeqs
<1>8. Shared(t, q.free)
  BY <1>1, <1>6, <1>7, SharedMove
<1> QED
  BY <1>1, <1>3, <1>4, <1>6, <1>8 DEF ListOk, q

\* push_front and push_back, field by field: the slice in front of the free ones goes between
\* p and n.
Inserted(q, o, id, p, n) ==
  /\ q \in ListState /\ q.head = (IF p = L!Nil THEN id ELSE o.head) /\ q.tail = (IF n = L!Nil THEN id ELSE o.tail)
  /\ q.size = o.size + 1 /\ q.free = Tail(o.free) /\ q.ok
  /\ q.node[id] = [prev |-> p, next |-> n]
  /\ \A x \in Cells : x # id =>
       q.node[x] = [prev |-> IF x = n THEN id ELSE o.node[x].prev, next |-> IF x = p THEN id ELSE o.node[x].next]

\* The list is empty exactly when head is Nil, and when tail is.
LEMMA BothEnds ==
  ASSUME NEW o, NEW s, ListOk(o, s)
  PROVE (o.head = L!Nil <=> Len(s) = 0) /\ (o.tail = L!Nil <=> Len(s) = 0)
<1>1. o.head = L!At(s, 1) /\ o.tail = L!At(s, Len(s)) /\ s \in CellSeqs /\ Distinct(s) /\ Len(s) \in Nat
  BY DEF ListOk, L!Linked, Shared, CellSeqs
<1>2. CASE Len(s) = 0
  BY <1>1, <1>2 DEF L!At
<1>3. CASE Len(s) # 0
  <2>1. 1 \in 1 .. Len(s) /\ Len(s) \in 1 .. Len(s)
    BY <1>1, <1>3
  <2> QED
    BY <1>1, <1>3, <2>1, AtOnce
<1> QED
  BY <1>2, <1>3

\* What push_front does.
LEMMA PushFrontFields ==
  ASSUME NEW o, NEW s, ListOk(o, s), NEW id \in Cells, Len(o.free) > 0
  PROVE Inserted(L!PushFrontImpl(o, id), o, id, L!Nil, o.head)
<1> DEFINE more == o.size + 1
           rest == Tail(o.free)
           a == [o EXCEPT !.free = rest, !.size = more, !.head = id]
           q == L!PushFrontImpl(o, id)
<1>1. o \in ListState /\ o.ok = TRUE /\ o.head \in Ends /\ o.node \in [Cells -> CellLinks] /\ L!Nil \notin Cells /\ L!Nil \in Ends /\ more \in Nat
  BY ListAssumption DEF ListOk, ListState, Ends, Cells, L!Ids, L!Nil
<1>2. rest \in CellSeqs
  BY <1>1 DEF ListState, CellSeqs
<1>3. o.head = L!Nil => o.tail = L!Nil
  BY BothEnds
<1>4. L!Unused = [prev |-> L!Nil, next |-> L!Nil]
  BY DEF L!Unused
<1>5. q = IF o.head = L!Nil
          THEN [a EXCEPT !.tail = id, !.node[id] = L!Unused, !.ok = @ /\ o.tail = L!Nil]
          ELSE [a EXCEPT !.node[o.head].prev = id, !.node[id] = [prev |-> L!Nil, next |-> o.head]]
  BY <1>1 DEF L!PushFrontImpl, ListState
<1> SUFFICES Inserted(q, o, id, L!Nil, o.head)
  OBVIOUS
<1> HIDE DEF more, rest, q
<1>6. /\ a \in ListState /\ a.head = id /\ a.tail = o.tail /\ a.size = more /\ a.free = rest
      /\ a.ok = TRUE /\ a.node = o.node
  BY Zenon, <1>1, <1>2 DEF ListState, Ends
<1> HIDE DEF a
<1>7. CASE o.head = L!Nil
  <2> DEFINE node == [o.node EXCEPT ![id] = L!Unused]
  <2>1. node \in [Cells -> CellLinks] /\ node[id] = [prev |-> L!Nil, next |-> o.head]
    BY <1>1, <1>4, <1>7 DEF CellLinks
  <2>2. \A x \in Cells : x # id =>
          node[x] = [prev |-> IF x = o.head THEN id ELSE o.node[x].prev, next |-> IF x = L!Nil THEN id ELSE o.node[x].next]
    BY <1>1, <1>7 DEF CellLinks
  <2>3. q = [a EXCEPT !.tail = id, !.node = node, !.ok = TRUE]
    BY Zenon, <1>3, <1>5, <1>6, <1>7 DEF ListState
  <2> HIDE DEF node
  <2>4. q \in ListState /\ q.head = id /\ q.tail = id /\ q.size = more /\ q.free = rest /\ q.ok = TRUE /\ q.node = node
    BY Zenon, <1>6, <2>1, <2>3 DEF ListState, Ends
  <2> QED
    BY <1>7, <2>1, <2>2, <2>4 DEF Inserted, more, rest
<1>8. CASE o.head # L!Nil
  <2> DEFINE side == [o.node EXCEPT ![o.head].prev = id]
             node == [side EXCEPT ![id] = [prev |-> L!Nil, next |-> o.head]]
  <2>1. o.head \in Cells
    BY <1>1, <1>8 DEF Ends
  <2>2. side \in [Cells -> CellLinks]
    BY <1>1, <2>1 DEF CellLinks, Ends
  <2>3. \A x \in Cells : side[x] = [prev |-> IF x = o.head THEN id ELSE o.node[x].prev, next |-> o.node[x].next]
    BY <1>1, <2>1 DEF CellLinks
  <2>4. q = [a EXCEPT !.node = node]
    BY Zenon, <1>5, <1>6, <1>8 DEF ListState
  <2> HIDE DEF side
  <2>5. node \in [Cells -> CellLinks] /\ node[id] = [prev |-> L!Nil, next |-> o.head]
    BY <1>1, <2>2 DEF CellLinks
  <2>6. \A x \in Cells : x # id =>
          node[x] = [prev |-> IF x = o.head THEN id ELSE o.node[x].prev, next |-> IF x = L!Nil THEN id ELSE o.node[x].next]
    BY <1>1, <2>2, <2>3
  <2> HIDE DEF node
  <2>7. q \in ListState /\ q.head = id /\ q.tail = o.tail /\ q.size = more /\ q.free = rest /\ q.ok = TRUE /\ q.node = node
    BY <1>6, <2>4, <2>5 DEF ListState
  <2> QED
    BY <1>8, <2>5, <2>6, <2>7 DEF Inserted, more, rest
<1> QED
  BY <1>7, <1>8

\* What push_back does.
LEMMA PushBackFields ==
  ASSUME NEW o, NEW s, ListOk(o, s), NEW id \in Cells, Len(o.free) > 0
  PROVE Inserted(L!PushBackImpl(o, id), o, id, o.tail, L!Nil)
<1> DEFINE more == o.size + 1
           rest == Tail(o.free)
           a == [o EXCEPT !.free = rest, !.size = more, !.tail = id]
           q == L!PushBackImpl(o, id)
<1>1. o \in ListState /\ o.ok = TRUE /\ o.tail \in Ends /\ o.node \in [Cells -> CellLinks] /\ L!Nil \notin Cells /\ L!Nil \in Ends /\ more \in Nat
  BY ListAssumption DEF ListOk, ListState, Ends, Cells, L!Ids, L!Nil
<1>2. rest \in CellSeqs
  BY <1>1 DEF ListState, CellSeqs
<1>3. o.tail = L!Nil => o.head = L!Nil
  BY BothEnds
<1>4. L!Unused = [prev |-> L!Nil, next |-> L!Nil]
  BY DEF L!Unused
<1>5. q = IF o.tail = L!Nil
          THEN [a EXCEPT !.head = id, !.node[id] = L!Unused, !.ok = @ /\ o.head = L!Nil]
          ELSE [a EXCEPT !.node[o.tail].next = id, !.node[id] = [prev |-> o.tail, next |-> L!Nil]]
  BY <1>1 DEF L!PushBackImpl, ListState
<1> SUFFICES Inserted(q, o, id, o.tail, L!Nil)
  OBVIOUS
<1> HIDE DEF more, rest, q
<1>6. /\ a \in ListState /\ a.tail = id /\ a.head = o.head /\ a.size = more /\ a.free = rest
      /\ a.ok = TRUE /\ a.node = o.node
  BY Zenon, <1>1, <1>2 DEF ListState, Ends
<1> HIDE DEF a
<1>7. CASE o.tail = L!Nil
  <2> DEFINE node == [o.node EXCEPT ![id] = L!Unused]
  <2>1. node \in [Cells -> CellLinks] /\ node[id] = [prev |-> o.tail, next |-> L!Nil]
    BY <1>1, <1>4, <1>7 DEF CellLinks
  <2>2. \A x \in Cells : x # id =>
          node[x] = [prev |-> IF x = L!Nil THEN id ELSE o.node[x].prev, next |-> IF x = o.tail THEN id ELSE o.node[x].next]
    BY <1>1, <1>7 DEF CellLinks
  <2>3. q = [a EXCEPT !.head = id, !.node = node, !.ok = TRUE]
    BY Zenon, <1>3, <1>5, <1>6, <1>7 DEF ListState
  <2> HIDE DEF node
  <2>4. q \in ListState /\ q.head = id /\ q.tail = id /\ q.size = more /\ q.free = rest /\ q.ok = TRUE /\ q.node = node
    BY Zenon, <1>6, <2>1, <2>3 DEF ListState, Ends
  <2> QED
    BY <1>7, <2>1, <2>2, <2>4 DEF Inserted, more, rest
<1>8. CASE o.tail # L!Nil
  <2> DEFINE side == [o.node EXCEPT ![o.tail].next = id]
             node == [side EXCEPT ![id] = [prev |-> o.tail, next |-> L!Nil]]
  <2>1. o.tail \in Cells
    BY <1>1, <1>8 DEF Ends
  <2>2. side \in [Cells -> CellLinks]
    BY <1>1, <2>1 DEF CellLinks, Ends
  <2>3. \A x \in Cells : side[x] = [prev |-> o.node[x].prev, next |-> IF x = o.tail THEN id ELSE o.node[x].next]
    BY <1>1, <2>1 DEF CellLinks
  <2>4. q = [a EXCEPT !.node = node]
    BY Zenon, <1>5, <1>6, <1>8 DEF ListState
  <2> HIDE DEF side
  <2>5. node \in [Cells -> CellLinks] /\ node[id] = [prev |-> o.tail, next |-> L!Nil]
    BY <1>1, <2>2 DEF CellLinks
  <2>6. \A x \in Cells : x # id =>
          node[x] = [prev |-> IF x = L!Nil THEN id ELSE o.node[x].prev, next |-> IF x = o.tail THEN id ELSE o.node[x].next]
    BY <1>1, <2>2, <2>3
  <2> HIDE DEF node
  <2>7. q \in ListState /\ q.head = o.head /\ q.tail = id /\ q.size = more /\ q.free = rest /\ q.ok = TRUE /\ q.node = node
    BY <1>6, <2>4, <2>5 DEF ListState
  <2> QED
    BY <1>8, <2>5, <2>6, <2>7 DEF Inserted, more, rest
<1> QED
  BY <1>7, <1>8

\* A slice put between two neighbours is linked there, and the rest stay as they were.
LEMMA InsertOk ==
  ASSUME NEW o, NEW s, ListOk(o, s), Len(o.free) > 0, NEW t, NEW k, Cut(s, t, k), t[k] = o.free[1],
         NEW q, Inserted(q, o, t[k], L!At(t, k - 1), L!At(t, k + 1))
  PROVE ListOk(q, t)
<1> DEFINE id == t[k]
           p == L!At(t, k - 1)
           n == L!At(t, k + 1)
<1>1. /\ o \in ListState /\ o.size = Len(s) /\ Len(s) \in Nat /\ Len(t) = Len(s) + 1 /\ k \in 1 .. Len(t) /\ t \in CellSeqs
      /\ Shared(s, o.free) /\ Len(s) + Len(o.free) = ListCapacity /\ o.free \in CellSeqs /\ Len(o.free) \in Nat
  <2>1. o \in ListState /\ s \in Seq(Cells) /\ t \in Seq(Cells) /\ o.free \in Seq(Cells)
    BY DEF ListOk, Cut, ListState, CellSeqs
  <2>2. Len(s) \in Nat /\ Len(t) \in Nat /\ Len(o.free) \in Nat /\ Len(s) = Len(t) - 1
    BY <2>1 DEF Cut
  <2> QED
    BY <2>1, <2>2 DEF ListOk, Cut, CellSeqs
<1>2. q.free = Tail(o.free) /\ q \in ListState /\ q.size = o.size + 1 /\ q.ok
  BY DEF Inserted
<1>3. q.free \in CellSeqs /\ Len(q.free) = Len(o.free) - 1 /\ \A i \in 1 .. Len(o.free) - 1 : q.free[i] = o.free[i + 1]
  BY <1>1, <1>2 DEF CellSeqs
<1>4. Cut(q.free, o.free, 1)
  <2>1. \A i \in 1 .. Len(o.free) - 1 : q.free[i] = IF i < 1 THEN o.free[i] ELSE o.free[i + 1]
    BY <1>1, <1>3
  <2>2. 1 \in 1 .. Len(o.free)
    BY <1>1
  <2> QED
    BY <1>1, <1>3, <2>1, <2>2, Zenon DEF Cut
<1>5. Shared(t, q.free)
  BY <1>1, <1>4, SharedBoth, SharedMove
<1>6. Distinct(t) /\ id \in Cells
  BY <1>1, <1>5 DEF Shared, CellSeqs
<1>7. o.head = L!At(s, 1) /\ o.tail = L!At(s, Len(s))
  BY DEF ListOk, L!Linked
<1>8. \A m \in 1 .. Len(s) : o.node[s[m]] = [prev |-> L!At(s, m - 1), next |-> L!At(s, m + 1)]
  BY DEF ListOk, L!Linked
<1>9. \A i \in 0 .. Len(t) : L!At(s, i) = IF i < k THEN L!At(t, i) ELSE L!At(t, i + 1)
  BY AtCut
<1>10. k \in Int /\ k - 1 \in Int /\ k + 1 \in Int /\ L!At(t, k) = id
  BY <1>1 DEF L!At
<1>11. (p = L!Nil <=> k = 1) /\ (n = L!Nil <=> k = Len(t))
  <2>1. p = L!Nil <=> k - 1 \notin 1 .. Len(t)
    BY <1>1, <1>6, <1>10, AtOnce
  <2>2. n = L!Nil <=> k + 1 \notin 1 .. Len(t)
    BY <1>1, <1>6, <1>10, AtOnce
  <2> QED
    BY <1>1, <2>1, <2>2
<1>12. q.head = L!At(t, 1)
  <2>1. q.head = IF p = L!Nil THEN id ELSE o.head
    BY DEF Inserted
  <2> QED
    BY <1>1, <1>7, <1>9, <1>10, <1>11, <2>1
<1>13. q.tail = L!At(t, Len(t))
  <2>1. q.tail = IF n = L!Nil THEN id ELSE o.tail
    BY DEF Inserted
  <2> QED
    BY <1>1, <1>7, <1>9, <1>10, <1>11, <2>1
<1>14. ASSUME NEW i \in 1 .. Len(t), i # k
       PROVE q.node[t[i]] = [prev |-> L!At(t, i - 1), next |-> L!At(t, i + 1)]
  <2> DEFINE m == IF i < k THEN i ELSE i - 1
  <2>1. m \in 1 .. Len(s) /\ t[i] = s[m]
    BY <1>1, <1>14 DEF Cut
  <2>2. t[i] \in Cells /\ t[i] # id
    BY <1>1, <1>6, <1>14 DEF Distinct, CellSeqs
  <2>3. t[i] = n <=> i = k + 1
    BY <1>1, <1>6, <1>10, AtOnce
  <2>4. t[i] = p <=> i = k - 1
    BY <1>1, <1>6, <1>10, AtOnce
  <2>5. o.node[t[i]].prev = L!At(s, m - 1) /\ o.node[t[i]].next = L!At(s, m + 1)
    <3> HIDE DEF m
    <3>1. o.node[s[m]] = [prev |-> L!At(s, m - 1), next |-> L!At(s, m + 1)]
      BY <1>8, <2>1, Zenon
    <3> QED
      BY <2>1, <3>1
  <2>6. L!At(t, i - 1) = IF i = k + 1 THEN id ELSE L!At(s, m - 1)
    BY <1>1, <1>9, <1>10, <1>14
  <2>7. L!At(t, i + 1) = IF i = k - 1 THEN id ELSE L!At(s, m + 1)
    BY <1>1, <1>9, <1>10, <1>14
  <2> HIDE DEF m, p, n, id
  <2>8. q.node[t[i]] = [prev |-> IF t[i] = n THEN id ELSE o.node[t[i]].prev, next |-> IF t[i] = p THEN id ELSE o.node[t[i]].next]
    BY <2>2 DEF Inserted, p, n, id
  <2> QED
    BY <2>3, <2>4, <2>5, <2>6, <2>7, <2>8
<1>15. q.node[t[k]] = [prev |-> L!At(t, k - 1), next |-> L!At(t, k + 1)]
  BY DEF Inserted
<1>16. L!Linked(q, t)
  BY Zenon, <1>12, <1>13, <1>14, <1>15 DEF L!Linked
<1>17. q.size = Len(t) /\ Len(t) + Len(q.free) = ListCapacity
  <2>1. Len(q.free) = Len(o.free) - 1
    BY <1>3
  <2>2. q.size = Len(t)
    BY <1>1, <1>2
  <2> DEFINE a == Len(s)
             b == Len(o.free)
  <2>3. a \in Nat /\ b \in Nat /\ a + b = ListCapacity /\ Len(t) = a + 1 /\ Len(q.free) = b - 1
    BY <1>1, <2>1
  <2> HIDE DEF a, b
  <2>4. (a + 1) + (b - 1) = a + b
    BY <2>3
  <2>5. Len(t) + Len(q.free) = ListCapacity
    BY <2>3, <2>4, Zenon
  <2> QED
    BY <2>2, <2>5
<1> QED
  BY <1>1, <1>2, <1>5, <1>16, <1>17, Zenon DEF ListOk

\* The slice in front of the free ones.
LEMMA FirstFree ==
  ASSUME NEW o, NEW s, ListOk(o, s), ~L!Full(o)
  PROVE Len(o.free) > 0 /\ Head(o.free) = o.free[1] /\ o.free[1] \in Cells
<1>1. o.free \in Seq(Cells) /\ o.free # <<>>
  BY DEF ListOk, ListState, CellSeqs, L!Full
<1> QED
  BY <1>1

\* push_front keeps the invariant.
LEMMA ListPushFront == ASSUME ListOk(obj, ref), L!PushFront PROVE ListOk(obj', ref')
<1> DEFINE id == obj.free[1]
           t == <<id>> \o ref
<1>1. Len(obj.free) > 0 /\ Head(obj.free) = id /\ id \in Cells
  BY FirstFree DEF L!PushFront
<1>2. obj' = L!PushFrontImpl(obj, id) /\ ref' = t
  BY <1>1 DEF L!PushFront
<1>3. ref \in Seq(Cells) /\ Len(ref) \in Nat /\ obj.head = L!At(ref, 1)
  BY DEF ListOk, CellSeqs, L!Linked
<1> HIDE DEF id
<1>4. Cut(ref, t, 1) /\ Len(t) = Len(ref) + 1 /\ t[1] = id
  BY <1>1, <1>3, ConsCut DEF CellSeqs
<1>5. Cut(ref, t, 1)
  BY <1>4
<1> HIDE DEF t
<1>6. L!At(t, 1 - 1) = L!Nil /\ L!At(t, 1 + 1) = obj.head
  <2>1. L!At(ref, 1) = L!At(t, 1 + 1)
    <3>1. 1 \in 0 .. Len(t)
      BY <1>3, <1>4
    <3> QED
      BY <1>5, <3>1, AtCut
  <2> QED
    BY <1>3, <2>1 DEF L!At
<1>7. Inserted(obj', obj, t[1], L!At(t, 1 - 1), L!At(t, 1 + 1))
  BY <1>1, <1>2, <1>4, <1>6, PushFrontFields
<1>8. t[1] = obj.free[1]
  BY <1>4 DEF id
<1>9. ListOk(obj', t)
  BY <1>1, <1>5, <1>7, <1>8, InsertOk
<1> QED
  BY <1>2, <1>9

\* push_back keeps the invariant.
LEMMA ListPushBack == ASSUME ListOk(obj, ref), L!PushBack PROVE ListOk(obj', ref')
<1> DEFINE id == obj.free[1]
           t == Append(ref, id)
           k == Len(ref) + 1
<1>1. Len(obj.free) > 0 /\ Head(obj.free) = id /\ id \in Cells
  BY FirstFree DEF L!PushBack
<1>2. obj' = L!PushBackImpl(obj, id) /\ ref' = t
  BY <1>1 DEF L!PushBack
<1>3. ref \in Seq(Cells) /\ Len(ref) \in Nat /\ obj.tail = L!At(ref, Len(ref))
  BY DEF ListOk, CellSeqs, L!Linked
<1> HIDE DEF id
<1>4. t \in Seq(Cells) /\ Len(t) = k /\ t[k] = id /\ \A i \in 1 .. Len(ref) : t[i] = ref[i]
  BY <1>1, <1>3
<1> HIDE DEF t
<1>5. Cut(ref, t, k)
  <2>1. Len(t) - 1 = Len(ref) /\ k \in 1 .. Len(t)
    BY <1>3, <1>4
  <2>2. \A i \in 1 .. Len(ref) : ref[i] = IF i < k THEN t[i] ELSE t[i + 1]
    BY <1>3, <1>4
  <2> QED
    BY <1>3, <1>4, <2>1, <2>2 DEF Cut, CellSeqs
<1>6. L!At(t, k - 1) = obj.tail /\ L!At(t, k + 1) = L!Nil
  <2>1. L!At(ref, Len(ref)) = IF Len(ref) < k THEN L!At(t, Len(ref)) ELSE L!At(t, Len(ref) + 1)
    <3>1. Len(ref) \in 0 .. Len(t)
      BY <1>3, <1>4
    <3> QED
      BY <1>5, <3>1, AtCut
  <2>2. Len(ref) < k /\ k - 1 = Len(ref) /\ k + 1 \notin 1 .. Len(t)
    BY <1>3, <1>4
  <2> HIDE DEF k
  <2>3. L!At(t, k + 1) = L!Nil
    BY <2>2 DEF L!At
  <2> QED
    BY <1>3, <2>1, <2>2, <2>3
<1> HIDE DEF k
<1>7. Inserted(obj', obj, t[k], L!At(t, k - 1), L!At(t, k + 1))
  BY <1>1, <1>2, <1>4, <1>6, PushBackFields
<1>8. t[k] = obj.free[1]
  BY <1>4 DEF id
<1>9. ListOk(obj', t)
  BY <1>1, <1>5, <1>7, <1>8, InsertOk
<1> QED
  BY <1>2, <1>9

\* Without leaves the elements before and behind the gap.
LEMMA WithoutGap ==
  ASSUME NEW s \in CellSeqs, NEW i \in 1 .. Len(s) + 1, NEW j \in i .. Len(s) + 1
  PROVE L!Without(s, i, j) \in CellSeqs /\ Gap(L!Without(s, i, j), s, i, j)
<1> DEFINE t == L!Without(s, i, j)
<1>1. s \in Seq(Cells)
  BY DEF CellSeqs
<1>2. t = SubSeq(s, 1, i - 1) \o SubSeq(s, j, Len(s))
  BY DEF L!Without
<1> HIDE DEF t
<1>3. t \in Seq(Cells) /\ Gap(t, s, i, j)
  BY <1>1, <1>2, CutFacts, Zenon
<1> QED
  BY <1>3 DEF t, CellSeqs

\* One element less than between two cuts of the same sequence.
LEMMA WithoutCut ==
  ASSUME NEW s \in CellSeqs, NEW i \in 1 .. Len(s), NEW j \in i .. Len(s)
  PROVE /\ Cut(L!Without(s, i, j + 1), L!Without(s, i, j), i)
        /\ Len(L!Without(s, i, j)) = Len(s) - (j - i)
        /\ \A x \in i .. Len(s) - (j - i) : L!Without(s, i, j)[x] = s[x + (j - i)]
<1> DEFINE a == L!Without(s, i, j)
           b == L!Without(s, i, j + 1)
<1>0. s \in Seq(Cells) /\ Len(s) \in Nat /\ i \in 1 .. Len(s) + 1 /\ j \in i .. Len(s) + 1 /\ j + 1 \in i .. Len(s) + 1
  BY DEF CellSeqs
<1>1. a \in CellSeqs /\ Gap(a, s, i, j) /\ b \in CellSeqs /\ Gap(b, s, i, j + 1)
  BY <1>0, WithoutGap
<1> HIDE DEF a, b
<1>2. /\ a \in Seq(Cells) /\ Len(a) = Len(s) - (j - i)
      /\ \A x \in 1 .. Len(s) - (j - i) : a[x] = IF x < i THEN s[x] ELSE s[x + (j - i)]
  BY <1>1, Zenon DEF Gap, CellSeqs
<1>3. /\ b \in Seq(Cells) /\ Len(b) = Len(s) - (j + 1 - i)
      /\ \A x \in 1 .. Len(s) - (j + 1 - i) : b[x] = IF x < i THEN s[x] ELSE s[x + (j + 1 - i)]
  BY <1>1 DEF Gap, CellSeqs
<1>4. Len(b) = Len(a) - 1 /\ i \in 1 .. Len(a)
  BY <1>0, <1>2, <1>3
<1>5. ASSUME NEW x \in 1 .. Len(a) - 1 PROVE b[x] = IF x < i THEN a[x] ELSE a[x + 1]
  <2>1. x \in 1 .. Len(s) - (j + 1 - i) /\ x \in 1 .. Len(s) - (j - i) /\ x + 1 \in 1 .. Len(s) - (j - i)
    BY <1>0, <1>2
  <2>2. b[x] = IF x < i THEN s[x] ELSE s[x + (j + 1 - i)]
    BY <1>3, <2>1
  <2>3. a[x] = IF x < i THEN s[x] ELSE s[x + (j - i)]
    BY <1>2, <2>1
  <2>4. a[x + 1] = IF x + 1 < i THEN s[x + 1] ELSE s[x + 1 + (j - i)]
    BY <1>2, <2>1
  <2>5. x + 1 + (j - i) = x + (j + 1 - i) /\ (~(x < i) => ~(x + 1 < i))
    BY <1>0
  <2> QED
    BY <2>2, <2>3, <2>4, <2>5
<1>6. Cut(b, a, i)
  BY <1>2, <1>3, <1>4, <1>5 DEF Cut, CellSeqs
<1>7. ASSUME NEW x \in i .. Len(s) - (j - i) PROVE a[x] = s[x + (j - i)]
  <2>1. x \in 1 .. Len(s) - (j - i) /\ ~(x < i)
    BY <1>0
  <2> QED
    BY <1>2, <2>1
<1> QED
  BY <1>2, <1>6, <1>7 DEF a, b

\* Nothing is taken out of an empty range.
LEMMA WithoutNone == ASSUME NEW s \in CellSeqs, NEW i \in 1 .. Len(s) PROVE L!Without(s, i, i) = s
<1> DEFINE a == L!Without(s, i, i)
<1>1. s \in Seq(Cells) /\ Len(s) \in Nat /\ i \in 1 .. Len(s) + 1 /\ i \in i .. Len(s) + 1 /\ i - i = 0
  BY DEF CellSeqs
<1>2. a \in CellSeqs /\ Gap(a, s, i, i)
  BY <1>1, WithoutGap
<1> HIDE DEF a
<1>3. a \in Seq(Cells) /\ Len(a) = Len(s) - (i - i) /\ \A x \in 1 .. Len(s) - (i - i) : a[x] = IF x < i THEN s[x] ELSE s[x + (i - i)]
  BY <1>2, Zenon DEF Gap, CellSeqs
<1>4. Len(a) = Len(s) /\ \A x \in 1 .. Len(s) : a[x] = s[x]
  BY <1>1, <1>3
<1>5. a = s
  BY <1>3, <1>4 DEF CellSeqs
<1> QED
  BY <1>5 DEF a

\* pop_front and pop_back unlink the first and the last element.
LEMMA ListPop == ASSUME ListOk(obj, ref), L!PopFront \/ L!PopBack PROVE ListOk(obj', ref')
<1>1. ref \in Seq(Cells) /\ Len(ref) \in Nat /\ obj.head = L!At(ref, 1) /\ obj.tail = L!At(ref, Len(ref))
  BY DEF ListOk, CellSeqs, L!Linked
<1>2. ref # <<>>
  BY DEF L!PopFront, L!PopBack
<1>3. Len(ref) > 0
  BY <1>1, <1>2
<1>4. CASE L!PopFront
  <2>1. ref' = Tail(ref) /\ obj' = L!Unlink(obj, ref[1])
    BY <1>1, <1>3, <1>4 DEF L!PopFront, L!At
  <2>2. Tail(ref) \in Seq(Cells) /\ Len(Tail(ref)) = Len(ref) - 1 /\ \A i \in 1 .. Len(ref) - 1 : Tail(ref)[i] = ref[i + 1]
    BY <1>1, <1>3
  <2> DEFINE t == Tail(ref)
  <2>3. t \in Seq(Cells) /\ Len(t) = Len(ref) - 1 /\ \A i \in 1 .. Len(ref) - 1 : t[i] = ref[i + 1]
    BY <2>2, Zenon
  <2> HIDE DEF t
  <2>4. \A i \in 1 .. Len(ref) - 1 : t[i] = IF i < 1 THEN ref[i] ELSE ref[i + 1]
    BY <1>1, <2>3
  <2>5. 1 \in 1 .. Len(ref)
    BY <1>1, <1>3
  <2>6. Cut(t, ref, 1)
    BY <1>1, <2>3, <2>4, <2>5, Zenon DEF Cut, CellSeqs
  <2>7. ListOk(L!Unlink(obj, ref[1]), t)
    BY <2>6, UnlinkOk
  <2> QED
    BY <2>1, <2>7 DEF t
<1>5. CASE L!PopBack
  <2> DEFINE n == Len(ref)
             t == SubSeq(ref, 1, n - 1)
  <2>1. ref' = t /\ obj' = L!Unlink(obj, ref[n])
    BY <1>1, <1>3, <1>5 DEF L!PopBack, L!At
  <2>2. t \in Seq(Cells) /\ Len(t) = n - 1 /\ \A i \in 1 .. n - 1 : t[i] = ref[i]
    <3>1. n - 1 \in 0 .. Len(ref)
      BY <1>1, <1>3
    <3> QED
      BY Zenon, <1>1, <3>1, PrefixFacts
  <2> HIDE DEF t
  <2>3. \A i \in 1 .. n - 1 : t[i] = IF i < n THEN ref[i] ELSE ref[i + 1]
    BY <1>1, <2>2
  <2>4. n \in 1 .. Len(ref)
    BY <1>1, <1>3
  <2>5. Cut(t, ref, n)
    BY <1>1, <2>2, <2>3, <2>4, Zenon DEF Cut, CellSeqs
  <2>6. ListOk(L!Unlink(obj, ref[n]), t)
    BY <2>5, UnlinkOk
  <2> QED
    BY <2>1, <2>6
<1> QED
  BY <1>4, <1>5

\* erase(pos) unlinks one element.
LEMMA ListErase == ASSUME ListOk(obj, ref), NEW i \in 1 .. Len(ref), L!Erase(i) PROVE ListOk(obj', ref')
<1>1. ref \in CellSeqs /\ i \in i .. Len(ref)
  BY DEF ListOk
<1>2. Cut(L!Without(ref, i, i + 1), ref, i)
  BY <1>1, WithoutCut, WithoutNone
<1>3. ListOk(L!Unlink(obj, ref[i]), L!Without(ref, i, i + 1))
  BY <1>2, UnlinkOk
<1> QED
  BY <1>3 DEF L!Erase

\* The states of the loop in erase(first, last), its first n turns.
IsErase(f, start, last, n) == f = [k \in 0 .. n |-> IF k = 0 THEN start ELSE L!Turn(f[k - 1], last)]

\* There is a function of them, by induction over the least number without one.
LEMMA EraseExists == ASSUME NEW start, NEW last, NEW n \in Nat PROVE \E f : IsErase(f, start, last, n)
<1> SUFFICES ASSUME \A f : ~IsErase(f, start, last, n) PROVE FALSE
  OBVIOUS
<1> DEFINE T == {m \in Nat : \A f : ~IsErase(f, start, last, m)}
<1>1. PICK m \in T : \A k \in T : m <= k
  BY Least, Zenon
<1>2. m \in Nat /\ \A f : ~IsErase(f, start, last, m)
  OBVIOUS
<1>3. m # 0
  <2>1. IsErase([i \in 0 .. 0 |-> start], start, last, 0)
    BY DEF IsErase
  <2> QED
    BY <1>2, <2>1
<1>4. PICK g : IsErase(g, start, last, m - 1)
  <2>1. m - 1 \in Nat /\ ~(m <= m - 1)
    BY <1>2, <1>3
  <2> QED
    BY <1>1, <2>1
<1> HIDE DEF T
<1> DEFINE f == [i \in 0 .. m |-> IF i = m THEN L!Turn(g[m - 1], last) ELSE g[i]]
<1>5. \A i \in 0 .. m - 1 : g[i] = IF i = 0 THEN start ELSE L!Turn(g[i - 1], last)
  BY <1>4, Zenon DEF IsErase
<1>6. \A i \in 0 .. m : f[i] = IF i = 0 THEN start ELSE L!Turn(f[i - 1], last)
  <2> SUFFICES ASSUME NEW i \in 0 .. m PROVE f[i] = IF i = 0 THEN start ELSE L!Turn(f[i - 1], last)
    OBVIOUS
  <2>1. CASE i = 0
    BY <1>2, <1>3, <1>5, <2>1
  <2>2. CASE i # 0 /\ i # m
    <3>1. i \in 0 .. m - 1 /\ i - 1 \in 0 .. m /\ i - 1 # m
      BY <1>2, <2>2
    <3> QED
      BY <1>5, <2>2, <3>1
  <2>3. CASE i = m
    <3>1. i - 1 \in 0 .. m /\ i - 1 # m
      BY <1>2, <1>3, <2>3
    <3> QED
      BY <1>3, <2>3, <3>1
  <2> QED
    BY <2>1, <2>2, <2>3
<1>7. IsErase(f, start, last, m)
  BY <1>6 DEF IsErase
<1> QED
  BY <1>2, <1>7

\* The loop has erased d elements from the i-th on and looks at the next.
Erased(u, s, i, d) == u.pos = s[i + d] /\ ListOk(u.o, L!Without(s, i, i + d))

\* A turn of the loop erases one more element, until it has come to the j-th.
LEMMA EraseTurn ==
  ASSUME NEW s \in CellSeqs, Distinct(s), NEW i \in 1 .. Len(s), NEW j \in i .. Len(s), NEW d \in 0 .. j - i,
         NEW u, Erased(u, s, i, d)
  PROVE Erased(L!Turn(u, s[j]), s, i, IF d = j - i THEN d ELSE d + 1)
<1>1. Len(s) \in Nat /\ i + d \in i .. Len(s) /\ i + d \in 1 .. Len(s) /\ j \in 1 .. Len(s) /\ i + d - i = d
  BY DEF CellSeqs
<1>2. CASE d = j - i
  <2>1. s[i + d] = s[j]
    BY <1>1, <1>2
  <2>2. L!Turn(u, s[j]) = u
    BY <2>1 DEF Erased, L!Turn
  <2> QED
    BY <1>2, <2>2
<1>3. CASE d # j - i
  <2> DEFINE a == L!Without(s, i, i + d)
             b == L!Without(s, i, i + (d + 1))
  <2>1. i + d + 1 = i + (d + 1) /\ i + d # j
    BY <1>1, <1>3
  <2>2. s[i + d] # s[j]
    BY <1>1, <2>1 DEF Distinct
  <2>3. L!Turn(u, s[j]) = [o |-> L!Unlink(u.o, s[i + d]), pos |-> u.o.node[s[i + d]].next]
    BY <2>2 DEF Erased, L!Turn
  <2>4. Cut(L!Without(s, i, i + d + 1), a, i) /\ Len(a) = Len(s) - d /\ \A x \in i .. Len(s) - d : a[x] = s[x + d]
    <3> DEFINE e == i + d
    <3>1. e \in i .. Len(s) /\ e - i = d
      BY <1>1
    <3> HIDE DEF e
    <3>2. /\ Cut(L!Without(s, i, e + 1), L!Without(s, i, e), i) /\ Len(L!Without(s, i, e)) = Len(s) - (e - i)
          /\ \A x \in i .. Len(s) - (e - i) : L!Without(s, i, e)[x] = s[x + (e - i)]
      BY Zenon, <3>1, WithoutCut
    <3>3. /\ Cut(L!Without(s, i, e + 1), L!Without(s, i, e), i) /\ Len(L!Without(s, i, e)) = Len(s) - d
          /\ \A x \in i .. Len(s) - d : L!Without(s, i, e)[x] = s[x + d]
      BY Zenon, <3>1, <3>2
    <3> QED
      BY <3>3, Zenon DEF e
  <2>5. Cut(b, a, i)
    BY <2>1, <2>4
  <2> HIDE DEF a, b
  <2>6. ListOk(u.o, a)
    BY DEF Erased, a
  <2>7. Len(a) = Len(s) - d /\ i \in i .. Len(s) - d /\ i + 1 \in i .. Len(s) - d
    BY <1>1, <1>3, <2>4
  <2>8. a[i] = s[i + d] /\ a[i + 1] = s[i + 1 + d]
    BY Zenon, <1>1, <2>4, <2>7
  <2>9. ListOk(L!Unlink(u.o, s[i + d]), b)
    BY Zenon, <2>5, <2>6, <2>8, UnlinkOk
  <2>10. u.o.node[a[i]] = [prev |-> L!At(a, i - 1), next |-> L!At(a, i + 1)]
    <3>1. i \in 1 .. Len(a)
      BY <2>5 DEF Cut
    <3> QED
      BY <2>6, <3>1 DEF ListOk, L!Linked
  <2>11. L!At(a, i + 1) = a[i + 1]
    BY <2>7 DEF L!At
  <2>12. u.o.node[s[i + d]].next = s[i + (d + 1)]
    <3>1. u.o.node[s[i + d]].next = a[i + 1]
      BY <2>8, <2>10, <2>11
    <3>2. i + 1 + d = i + (d + 1)
      BY <1>1
    <3> QED
      BY <2>8, <3>1, <3>2
  <2>13. Erased(L!Turn(u, s[j]), s, i, d + 1)
    BY <2>3, <2>9, <2>12 DEF Erased, b
  <2> QED
    BY <1>3, <2>13
<1> QED
  BY <1>2, <1>3

\* erase(first, last) takes out the elements of the range, and its loop comes to last.
LEMMA ListEraseRange ==
  ASSUME ListOk(obj, ref), NEW i \in 1 .. Len(ref), NEW j \in i .. Len(ref), L!EraseRange(i, j)
  PROVE ListOk(obj', ref')
<1> DEFINE n == Len(ref)
           start == [o |-> obj, pos |-> ref[i]]
           D(h) == h = [k \in 0 .. n |-> IF k = 0 THEN start ELSE L!Turn(h[k - 1], ref[j])]
           f == CHOOSE h : D(h)
<1>0. ref \in CellSeqs /\ Distinct(ref) /\ n \in Nat
  BY DEF ListOk, Shared, CellSeqs
<1>1. D(f)
  <2>1. PICK g : IsErase(g, start, ref[j], n)
    BY <1>0, EraseExists, Zenon
  <2>2. D(g)
    BY <2>1, Zenon DEF IsErase
  <2> QED
    BY <2>2, Zenon
<1>2. obj' = [f[n].o EXCEPT !.ok = @ /\ f[n].pos = ref[j]] /\ ref' = L!Without(ref, i, j)
  BY DEF L!EraseRange
<1> HIDE DEF f
<1>3. \A k \in 0 .. n : f[k] = IF k = 0 THEN start ELSE L!Turn(f[k - 1], ref[j])
  BY <1>1, Zenon
<1> HIDE DEF D
<1> DEFINE P(k) == \E d \in 0 .. j - i : Erased(f[k], ref, i, d) /\ (d = k \/ d = j - i)
           T == {k \in 0 .. n : ~P(k)}
<1>4. T = {}
  <2> SUFFICES ASSUME T # {} PROVE FALSE
    OBVIOUS
  <2>1. PICK m \in T : \A k \in T : m <= k
    <3>1. T \in SUBSET Nat
      BY <1>0
    <3> HIDE DEF T
    <3> QED
      BY <3>1, Least
  <2>2. m \in 0 .. n /\ m \in Nat /\ ~P(m)
    BY <1>0
  <2>3. m # 0
    <3>1. Erased(start, ref, i, 0)
      <4>1. i + 0 = i
        OBVIOUS
      <4> QED
        BY <1>0, <4>1, WithoutNone DEF Erased
    <3>2. f[0] = start
      BY <1>0, <1>3
    <3>3. 0 \in 0 .. j - i
      OBVIOUS
    <3>4. P(0)
      BY <3>1, <3>2, <3>3
    <3> QED
      BY <2>2, <3>4
  <2>4. m - 1 \in 0 .. n /\ ~(m <= m - 1)
    BY <1>0, <2>2, <2>3
  <2>5. P(m - 1)
    BY Zenon, <2>1, <2>4
  <2> HIDE DEF T
  <2>6. PICK d \in 0 .. j - i : Erased(f[m - 1], ref, i, d) /\ (d = m - 1 \/ d = j - i)
    BY <2>5
  <2>7. f[m] = L!Turn(f[m - 1], ref[j])
    BY <1>3, <2>2, <2>3
  <2>8. Erased(f[m], ref, i, IF d = j - i THEN d ELSE d + 1)
    BY <1>0, <2>6, <2>7, EraseTurn
  <2> DEFINE e == IF d = j - i THEN d ELSE d + 1
  <2>9. e \in 0 .. j - i /\ (e = m \/ e = j - i)
    BY <2>2, <2>6
  <2>10. P(m)
    BY <2>8, <2>9
  <2> QED
    BY <2>2, <2>10
<1>5. PICK d \in 0 .. j - i : Erased(f[n], ref, i, d) /\ (d = n \/ d = j - i)
  <2>1. n \in 0 .. n /\ n \notin T
    BY <1>0, <1>4
  <2> QED
    BY <2>1
<1> HIDE DEF T
<1>6. d = j - i /\ i + d = j
  BY <1>0, <1>5
<1>7. f[n].pos = ref[j] /\ ListOk(f[n].o, L!Without(ref, i, j))
  BY <1>5, <1>6 DEF Erased
<1>8. obj' = f[n].o
  <2>1. f[n].o \in ListState /\ f[n].o.ok
    BY <1>7 DEF ListOk
  <2>2. obj' = [f[n].o EXCEPT !.ok = TRUE]
    BY Zenon, <1>2, <1>7, <2>1
  <2> QED
    BY Zenon, <2>1, <2>2 DEF ListState
<1> QED
  BY <1>2, <1>7, <1>8

\* A fresh list is empty and all its slices are free.
LEMMA ListFresh == ListOk(L!CreateFrom, <<>>)
<1> DEFINE free == [i \in 1 .. ListCapacity |-> i - 1]
           node == [i \in Cells |-> L!Unused]
           o == L!CreateFrom
<1>1. ListCapacity \in Nat
  BY ListAssumption
<1>2. free \in CellSeqs /\ Len(free) = ListCapacity
  <2>1. \A i \in 1 .. ListCapacity : i - 1 \in Cells
    BY <1>1 DEF Cells, L!Ids
  <2>2. free \in [1 .. ListCapacity -> Cells]
    BY <2>1
  <2> QED
    BY <1>1, <2>2 DEF CellSeqs
<1>3. node \in [Cells -> CellLinks]
  BY DEF CellLinks, Ends, L!Unused
<1>4. \A id \in Cells : id + 1 \in 1 .. ListCapacity /\ free[id + 1] = id
  BY <1>1 DEF Cells, L!Ids
<1>5. Distinct(free)
  BY <1>1, <1>2 DEF Distinct
<1>6. <<>> \in CellSeqs /\ Len(<<>>) = 0
  BY DEF CellSeqs
<1>7. o = [head |-> L!Nil, tail |-> L!Nil, size |-> 0, node |-> node, free |-> free, ok |-> TRUE]
  BY DEF L!CreateFrom, Cells
<1> HIDE DEF free, node, o
<1>8. /\ o.head = L!Nil /\ o.tail = L!Nil /\ o.size = 0 /\ o.node = node /\ o.free = free /\ o.ok = TRUE
  BY <1>7
<1>9. o \in ListState
  BY <1>2, <1>3, <1>7 DEF ListState, Ends
<1>10. Shared(<<>>, o.free)
  <2>1. Distinct(<<>>) /\ Apart(<<>>, free)
    BY <1>6 DEF Distinct, Apart
  <2>2. Covers(<<>>, free)
    BY Zenon, <1>2, <1>4 DEF Covers
  <2> QED
    BY <1>5, <1>8, <2>1, <2>2 DEF Shared
<1>11. L!Linked(o, <<>>)
  BY <1>6, <1>8 DEF L!Linked, L!At
<1>12. Len(<<>>) + Len(o.free) = ListCapacity
  BY <1>1, <1>2, <1>6, <1>8
<1> QED
  BY <1>6, <1>8, <1>9, <1>10, <1>11, <1>12 DEF ListOk, o

\* Every call keeps the invariant.
LEMMA ListNext == ASSUME ListOk(obj, ref), L!Next PROVE ListOk(obj', ref')
<1>1. DOMAIN ref = 1 .. Len(ref)
  BY DEF ListOk, CellSeqs
<1>2. CASE L!Clear
  BY <1>2, ListFresh DEF L!Clear
<1>3. ASSUME NEW i \in DOMAIN ref, L!Erase(i) \/ \E j \in i .. Len(ref) : L!EraseRange(i, j) PROVE ListOk(obj', ref')
  BY <1>1, <1>3, ListErase, ListEraseRange
<1> QED
  BY <1>2, <1>3, ListPushFront, ListPushBack, ListPop DEF L!Next
-----------------------------------------------------------------------------
(***************************************************************************)
(* Vector. What the property leaves out: size elements always fit in the   *)
(* memory, which turns the byte counts the checks compare into the number  *)
(* of elements there is room for.                                          *)
(***************************************************************************)

VecState(v) == [size : Nat, cell : [0 .. V!Room(v) - 1 -> Items], ok : BOOLEAN]

VecOk(o, r, v) ==
  /\ o \in VecState(v) /\ r \in Seq(Items)
  /\ o.ok /\ o.size = Len(r) /\ o.size <= V!Room(v)
  /\ \A i \in 1 .. Len(r) : o.cell[i - 1] = r[i]

VInv == DOMAIN obj = V!Vs /\ DOMAIN ref = V!Vs /\ \A v \in V!Vs : VecOk(obj[v], ref[v], v)

\* What a quotient gives.
LEMMA DivType ==
  ASSUME NEW a \in Nat, NEW r \in Nat \ {0}
  PROVE a \div r \in Nat /\ (a \div r) * r <= a /\ a < ((a \div r) + 1) * r
OBVIOUS

\* Multiples of a positive number keep the order.
LEMMA MultMonotone == ASSUME NEW m \in Nat, NEW n \in Nat, NEW r \in Nat \ {0}, m <= n PROVE m * r <= n * r
OBVIOUS

\* n elements fit exactly when n is at most the quotient.
LEMMA DivFits == ASSUME NEW a \in Nat, NEW r \in Nat \ {0}, NEW n \in Nat PROVE n * r <= a <=> n <= a \div r
<1> DEFINE q == a \div r
<1>1. q \in Nat /\ q * r <= a /\ a < (q + 1) * r
  BY DivType
<1> HIDE DEF q
<1>2. n * r \in Nat /\ q * r \in Nat /\ (q + 1) * r \in Nat
  BY <1>1
<1>3. ASSUME n <= q PROVE n * r <= a
  <2>1. n * r <= q * r
    BY <1>1, <1>3, MultMonotone
  <2> QED
    BY <1>1, <1>2, <2>1
<1>4. ASSUME n * r <= a, q < n PROVE FALSE
  <2>1. (q + 1) * r <= n * r
    <3>1. q + 1 \in Nat /\ q + 1 <= n
      BY <1>1, <1>4
    <3> QED
      BY <3>1, MultMonotone
  <2> QED
    BY <1>1, <1>2, <1>4, <2>1
<1>5. n <= q \/ q < n
  BY <1>1
<1> QED
  BY <1>3, <1>4, <1>5 DEF q

\* n elements and the header fit in the memory exactly when there is room for n.
LEMMA RoomFits ==
  ASSUME NEW v \in V!Vs
  PROVE V!Room(v) \in Nat /\ \A n \in Nat : n * ValueSize + MetaSize <= Lengths[v] <=> n <= V!Room(v)
<1> DEFINE a == Lengths[v] - MetaSize
<1>1. a \in Nat /\ ValueSize \in Nat \ {0} /\ MetaSize \in Nat /\ Lengths[v] \in Nat /\ V!Room(v) = a \div ValueSize
  BY VectorAssumption DEF V!Vs, V!Room
<1>2. ASSUME NEW n \in Nat PROVE n * ValueSize + MetaSize <= Lengths[v] <=> n <= V!Room(v)
  <2> DEFINE b == n * ValueSize
  <2>1. b \in Nat
    BY <1>1
  <2>2. b <= a <=> n <= a \div ValueSize
    BY <1>1, DivFits
  <2> HIDE DEF b
  <2>3. b + MetaSize <= Lengths[v] <=> b <= a
    BY <1>1, <2>1
  <2> QED
    BY <1>1, <2>2, <2>3 DEF b
<1> QED
  BY <1>1, <1>2, DivType

\* What the property states follows from the invariant of the vectors.
LEMMA VectorAgrees == VInv => V!Agrees
<1> SUFFICES ASSUME VInv, NEW v \in V!Vs
             PROVE /\ obj[v].ok /\ obj[v].size = Len(ref[v])
                   /\ \A i \in 1 .. Len(ref[v]) : obj[v].cell[i - 1] = ref[v][i]
                   /\ V!Recovers(v)
  BY DEF V!Agrees
<1>1. VecOk(obj[v], ref[v], v)
  BY DEF VInv
<1>2. obj[v].size \in Nat /\ obj[v].size <= V!Room(v)
  BY <1>1 DEF VecOk, VecState
<1>3. obj[v].size * ValueSize + MetaSize <= Lengths[v]
  BY <1>2, RoomFits
<1>4. obj[v].size * ValueSize = ValueSize * obj[v].size
  BY <1>2, VectorAssumption
<1>5. V!Recovers(v)
  BY Zenon, <1>3, <1>4 DEF V!Recovers
<1> QED
  BY <1>1, <1>5 DEF VecOk

\* A call changes one vector.
LEMMA VectorOne ==
  ASSUME VInv, NEW v \in V!Vs, NEW o, NEW r, VecOk(o, r, v), obj' = [obj EXCEPT ![v] = o], ref' = [ref EXCEPT ![v] = r]
  PROVE VInv'
<1>1. DOMAIN obj' = V!Vs /\ DOMAIN ref' = V!Vs
  BY DEF VInv
<1>2. ASSUME NEW u \in V!Vs PROVE VecOk(obj'[u], ref'[u], u)
  <2>1. CASE u = v
    BY <2>1 DEF VInv
  <2>2. CASE u # v
    BY <2>2 DEF VInv
  <2> QED
    BY <2>1, <2>2
<1>3. V!Vs' = V!Vs
  BY DEF V!Vs
<1> QED
  BY <1>1, <1>2, <1>3 DEF VInv, VecOk, VecState, V!Room

\* The vectors start empty.
LEMMA VectorInit == V!Init => VInv
<1> SUFFICES ASSUME V!Init PROVE VInv
  OBVIOUS
<1>1. DOMAIN obj = V!Vs /\ DOMAIN ref = V!Vs
  BY DEF V!Init
<1>2. ASSUME NEW v \in V!Vs PROVE VecOk(obj[v], ref[v], v)
  <2> DEFINE x == CHOOSE y \in Items : TRUE
             cell == [i \in 0 .. V!Room(v) - 1 |-> x]
  <2>1. x \in Items
    BY VectorAssumption
  <2> HIDE DEF x
  <2>2. obj[v] = [size |-> 0, cell |-> cell, ok |-> TRUE]
    BY DEF V!Init, V!CreateFrom, x
  <2>3. cell \in [0 .. V!Room(v) - 1 -> Items]
    BY <2>1
  <2> HIDE DEF cell
  <2>4. ref[v] = <<>> /\ <<>> \in Seq(Items) /\ Len(<<>>) = 0
    BY DEF V!Init
  <2>5. V!Room(v) \in Nat
    BY Zenon, RoomFits
  <2> QED
    BY <2>2, <2>3, <2>4, <2>5 DEF VecOk, VecState
<1> QED
  BY <1>1, <1>2 DEF VInv

\* What the invariant says of one vector.
LEMMA VectorFacts ==
  ASSUME VInv, NEW v \in V!Vs
  PROVE /\ DOMAIN obj = V!Vs /\ DOMAIN ref = V!Vs /\ obj[v] \in VecState(v) /\ ref[v] \in Seq(Items)
        /\ obj[v].ok = TRUE /\ obj[v].size = Len(ref[v]) /\ Len(ref[v]) \in Nat /\ Len(ref[v]) <= V!Room(v)
        /\ V!Room(v) \in Nat /\ obj[v].cell \in [0 .. V!Room(v) - 1 -> Items]
        /\ \A i \in 1 .. Len(ref[v]) : obj[v].cell[i - 1] = ref[v][i]
<1>1. VecOk(obj[v], ref[v], v)
  BY DEF VInv
<1>2. V!Room(v) \in Nat
  BY RoomFits
<1>3. obj[v].ok = TRUE /\ Len(ref[v]) \in Nat /\ obj[v].cell \in [0 .. V!Room(v) - 1 -> Items]
  BY <1>1 DEF VecOk, VecState
<1> QED
  BY <1>1, <1>2, <1>3 DEF VInv, VecOk

\* A vector with m elements in its cells c.
Holds(o, v, m, c) == o \in VecState(v) /\ o.size = m /\ o.cell = c /\ o.ok = TRUE

\* Size and elements change together, in either order.
LEMMA VectorBoth ==
  ASSUME NEW v, NEW o \in VecState(v), o.ok = TRUE, NEW m \in Nat, NEW c \in [0 .. V!Room(v) - 1 -> Items]
  PROVE /\ Holds([[o EXCEPT !.cell = c] EXCEPT !.size = m], v, m, c)
        /\ Holds([[o EXCEPT !.size = m] EXCEPT !.cell = c], v, m, c)
        /\ Holds([[[o EXCEPT !.size = m] EXCEPT !.ok = TRUE] EXCEPT !.cell = c], v, m, c)
<1> DEFINE a == [o EXCEPT !.cell = c]
           b == [o EXCEPT !.size = m]
           d == [b EXCEPT !.ok = TRUE]
<1>1. a \in VecState(v) /\ a.cell = c /\ a.ok = TRUE
  BY DEF VecState
<1>2. b \in VecState(v) /\ b.size = m /\ b.ok = TRUE
  BY DEF VecState
<1> HIDE DEF a, b
<1>3. d \in VecState(v) /\ d.size = m /\ d.ok = TRUE
  BY Zenon, <1>2 DEF VecState
<1> HIDE DEF d
<1>4. Holds([a EXCEPT !.size = m], v, m, c)
  BY <1>1 DEF VecState, Holds
<1>5. Holds([b EXCEPT !.cell = c], v, m, c)
  BY <1>2 DEF VecState, Holds
<1>6. Holds([d EXCEPT !.cell = c], v, m, c)
  BY <1>3 DEF VecState, Holds
<1> QED
  BY <1>4, <1>5, <1>6 DEF a, b, d

\* The last of two changes of an entry counts.
LEMMA ExceptTwice ==
  ASSUME NEW f, NEW v \in DOMAIN f, NEW p, NEW q
  PROVE /\ [f EXCEPT ![v] = p][v] = p /\ DOMAIN [f EXCEPT ![v] = p] = DOMAIN f
        /\ [[f EXCEPT ![v] = p] EXCEPT ![v] = q] = [f EXCEPT ![v] = q]
BY Zenon

\* push_back writes behind the last element, where its check says there is room.
LEMMA VectorPushBack == ASSUME VInv, NEW v \in V!Vs, NEW x \in Items, V!PushBack(v, x) PROVE VInv'
<1> DEFINE n == obj[v].size
           cell == [obj[v].cell EXCEPT ![n] = x]
           o == [[obj[v] EXCEPT !.cell = cell] EXCEPT !.size = n + 1]
           r == Append(ref[v], x)
<1>1. /\ DOMAIN obj = V!Vs /\ DOMAIN ref = V!Vs /\ obj[v] \in VecState(v) /\ ref[v] \in Seq(Items)
      /\ obj[v].ok = TRUE /\ n = Len(ref[v]) /\ n \in Nat /\ V!Room(v) \in Nat
      /\ obj[v].cell \in [0 .. V!Room(v) - 1 -> Items]
      /\ \A i \in 1 .. Len(ref[v]) : obj[v].cell[i - 1] = ref[v][i]
  BY Zenon, VectorFacts
<1>2. n + 1 <= V!Room(v)
  <2> DEFINE b == n * ValueSize
  <2>1. b \in Nat /\ ValueSize \in Nat /\ MetaSize \in Nat /\ (n + 1) * ValueSize = b + ValueSize
    BY <1>1, VectorAssumption
  <2>2. b + ValueSize + MetaSize <= Lengths[v]
    BY DEF V!PushBack, V!HasSpace, V!Used
  <2>3. (n + 1) * ValueSize + MetaSize <= Lengths[v]
    BY <2>1, <2>2
  <2>4. n + 1 \in Nat
    BY <1>1
  <2> QED
    BY Zenon, <2>3, <2>4, RoomFits
<1>3. n \in 0 .. V!Room(v) - 1 /\ n < V!Room(v)
  BY <1>1, <1>2
<1>4. V!Put(obj[v], v, n, x) = [obj[v] EXCEPT !.cell = cell]
  BY <1>1, <1>3 DEF V!Put, VecState
<1>5. [V!Put(obj[v], v, n, x) EXCEPT !.size = @ + 1] = o
  <2>1. V!Put(obj[v], v, n, x).size = n
    BY <1>1, <1>4 DEF VecState
  <2> QED
    BY <1>4, <2>1
<1>6. obj' = [obj EXCEPT ![v] = o] /\ ref' = [ref EXCEPT ![v] = r]
  BY ZenonT(30), <1>5 DEF V!PushBack
<1>7. cell \in [0 .. V!Room(v) - 1 -> Items] /\ cell[n] = x /\ \A i \in 0 .. n - 1 : cell[i] = obj[v].cell[i]
  BY <1>1, <1>3
<1>8. r \in Seq(Items) /\ Len(r) = n + 1 /\ r[n + 1] = x /\ \A i \in 1 .. n : r[i] = ref[v][i]
  BY <1>1
<1> HIDE DEF cell, r, n
<1>9. ASSUME NEW i \in 1 .. Len(r) PROVE cell[i - 1] = r[i]
  <2>1. CASE i = n + 1
    BY <1>1, <1>7, <1>8, <2>1
  <2>2. CASE i # n + 1
    <3>1. i \in 1 .. n /\ i - 1 \in 0 .. n - 1
      BY <1>1, <1>8, <2>2
    <3> QED
      BY Zenon, <1>1, <1>7, <1>8, <3>1
  <2> QED
    BY <2>1, <2>2
<1>10. n + 1 \in Nat
  BY <1>1
<1>11. Holds(o, v, n + 1, cell)
  BY Zenon, <1>1, <1>7, <1>10, VectorBoth
<1> HIDE DEF o
<1>12. VecOk(o, r, v)
  BY <1>2, <1>8, <1>9, <1>11 DEF VecOk, Holds
<1> QED
  BY Zenon, <1>6, <1>12, VectorOne

\* operator[] writes an element the vector has.
LEMMA VectorAssign ==
  ASSUME VInv, NEW v \in V!Vs, NEW x \in Items, NEW i \in 0 .. obj[v].size - 1, V!Assign(v, i, x)
  PROVE VInv'
<1> DEFINE n == obj[v].size
           cell == [obj[v].cell EXCEPT ![i] = x]
           o == [size |-> n, cell |-> cell, ok |-> TRUE]
           r == [ref[v] EXCEPT ![i + 1] = x]
<1>1. /\ DOMAIN obj = V!Vs /\ DOMAIN ref = V!Vs /\ obj[v] \in VecState(v) /\ ref[v] \in Seq(Items)
      /\ obj[v].ok = TRUE /\ n = Len(ref[v]) /\ n \in Nat /\ n <= V!Room(v) /\ V!Room(v) \in Nat
      /\ obj[v].cell \in [0 .. V!Room(v) - 1 -> Items]
      /\ \A k \in 1 .. Len(ref[v]) : obj[v].cell[k - 1] = ref[v][k]
  BY Zenon, VectorFacts
<1>2. i \in 0 .. V!Room(v) - 1 /\ i < V!Room(v) /\ i + 1 \in 1 .. n
  BY <1>1
<1>3. V!Put(obj[v], v, i, x) = o
  BY Zenon, <1>1, <1>2 DEF V!Put, VecState
<1>4. obj' = [obj EXCEPT ![v] = o] /\ ref' = [ref EXCEPT ![v] = r]
  BY Zenon, <1>3 DEF V!Assign
<1>5. cell \in [0 .. V!Room(v) - 1 -> Items] /\ \A k \in 0 .. n - 1 : cell[k] = IF k = i THEN x ELSE obj[v].cell[k]
  BY <1>1, <1>2
<1>6. r \in Seq(Items) /\ Len(r) = n /\ \A k \in 1 .. n : r[k] = IF k = i + 1 THEN x ELSE ref[v][k]
  BY <1>1, <1>2
<1> HIDE DEF cell, r, n
<1>7. ASSUME NEW k \in 1 .. Len(r) PROVE cell[k - 1] = r[k]
  <2>1. k \in 1 .. n /\ k - 1 \in 0 .. n - 1 /\ (k - 1 = i <=> k = i + 1)
    BY <1>1, <1>2, <1>6
  <2> QED
    BY Zenon, <1>1, <1>5, <1>6, <2>1
<1>8. VecOk(o, r, v)
  BY <1>1, <1>5, <1>6, <1>7 DEF VecOk, VecState
<1> HIDE DEF o
<1> QED
  BY Zenon, <1>4, <1>8, VectorOne

\* pop_back only lowers size.
LEMMA VectorPopBack == ASSUME VInv, NEW v \in V!Vs, V!PopBack(v) PROVE VInv'
<1> DEFINE n == obj[v].size
           o == [obj[v] EXCEPT !.size = n - 1]
           r == SubSeq(ref[v], 1, n - 1)
<1>1. /\ DOMAIN obj = V!Vs /\ DOMAIN ref = V!Vs /\ obj[v] \in VecState(v) /\ ref[v] \in Seq(Items)
      /\ obj[v].ok = TRUE /\ n = Len(ref[v]) /\ n \in Nat /\ n <= V!Room(v) /\ V!Room(v) \in Nat
      /\ \A k \in 1 .. Len(ref[v]) : obj[v].cell[k - 1] = ref[v][k]
  BY Zenon, VectorFacts
<1>2. n # 0 /\ n - 1 \in Nat /\ n - 1 \in 0 .. Len(ref[v])
  BY <1>1 DEF V!PopBack
<1>3. obj' = [obj EXCEPT ![v] = o] /\ ref' = [ref EXCEPT ![v] = r]
  BY <1>1 DEF V!PopBack
<1>4. r \in Seq(Items) /\ Len(r) = n - 1 /\ \A k \in 1 .. n - 1 : r[k] = ref[v][k]
  BY ZenonT(60), <1>1, <1>2, PrefixFacts
<1> HIDE DEF r, n
<1>5. o \in VecState(v) /\ o.ok = TRUE /\ o.size = n - 1 /\ o.cell = obj[v].cell
  <2> DEFINE m == n - 1
  <2>1. m \in Nat /\ obj[v] \in VecState(v) /\ obj[v].ok = TRUE
    BY <1>1, <1>2
  <2> HIDE DEF m
  <2>2. [obj[v] EXCEPT !.size = m] \in VecState(v) /\ [obj[v] EXCEPT !.size = m].ok = TRUE
    BY <2>1 DEF VecState
  <2>3. [obj[v] EXCEPT !.size = m].size = m /\ [obj[v] EXCEPT !.size = m].cell = obj[v].cell
    BY <2>1 DEF VecState
  <2> QED
    BY <2>2, <2>3 DEF m
<1> HIDE DEF o
<1>6. \A k \in 1 .. Len(r) : o.cell[k - 1] = r[k]
  BY <1>1, <1>2, <1>4, <1>5
<1>7. o.size <= V!Room(v)
  BY <1>1, <1>2, <1>5
<1>8. VecOk(o, r, v)
  BY <1>4, <1>5, <1>6, <1>7 DEF VecOk
<1> QED
  BY Zenon, <1>3, <1>8, VectorOne

\* erase moves the elements behind the range down over it.
LEMMA VectorErase ==
  ASSUME VInv, NEW v \in V!Vs, NEW b \in 0 .. obj[v].size, NEW e \in 0 .. obj[v].size, V!Erase(v, b, e)
  PROVE VInv'
<1> DEFINE n == obj[v].size
           d == e - b
           cell == [i \in DOMAIN obj[v].cell |-> IF i \in b .. b + (n - e) - 1 THEN obj[v].cell[i + d] ELSE obj[v].cell[i]]
           o == [[obj[v] EXCEPT !.size = n - d] EXCEPT !.cell = cell]
           r == SubSeq(ref[v], 1, b) \o SubSeq(ref[v], e + 1, Len(ref[v]))
<1>1. /\ DOMAIN obj = V!Vs /\ DOMAIN ref = V!Vs /\ obj[v] \in VecState(v) /\ ref[v] \in Seq(Items)
      /\ obj[v].ok = TRUE /\ n = Len(ref[v]) /\ n \in Nat /\ n <= V!Room(v) /\ V!Room(v) \in Nat
      /\ obj[v].cell \in [0 .. V!Room(v) - 1 -> Items]
      /\ \A k \in 1 .. Len(ref[v]) : obj[v].cell[k - 1] = ref[v][k]
  BY Zenon, VectorFacts
<1>2. b < e /\ e <= n /\ d \in 1 .. n /\ n - d \in Nat
  <2>1. b < e /\ e <= n
    BY Zenon DEF V!Erase
  <2>2. n \in Nat /\ b \in 0 .. n /\ e \in 0 .. n
    BY <1>1
  <2> HIDE DEF n
  <2> QED
    BY <2>1, <2>2
<1>3. obj' = [obj EXCEPT ![v] = o] /\ ref' = [ref EXCEPT ![v] = r]
  <2>1. obj' = [obj EXCEPT ![v].size = n - d, ![v].cell = cell]
    BY <1>1 DEF V!Erase, VecState
  <2> DEFINE a == [obj[v] EXCEPT !.size = n - d]
  <2>2. [obj EXCEPT ![v].size = n - d, ![v].cell = cell] = [[obj EXCEPT ![v] = a] EXCEPT ![v] = [[obj EXCEPT ![v] = a][v] EXCEPT !.cell = cell]]
    OBVIOUS
  <2> HIDE DEF cell, a
  <2>2a. obj' = [obj EXCEPT ![v] = o]
    <3>1. [obj EXCEPT ![v] = a][v] = a
      BY <1>1, ExceptTwice
    <3>2. obj' = [[obj EXCEPT ![v] = a] EXCEPT ![v] = [a EXCEPT !.cell = cell]]
      BY <2>1, <2>2, <3>1, Zenon
    <3>3. o = [a EXCEPT !.cell = cell]
      BY DEF a
    <3> HIDE DEF o
    <3> QED
      BY Zenon, <1>1, <3>2, <3>3, ExceptTwice
  <2>3. ref' = [ref EXCEPT ![v] = r]
    BY DEF V!Erase
  <2> QED
    BY <2>2a, <2>3
<1>4. cell \in [0 .. V!Room(v) - 1 -> Items]
  <2>1. ASSUME NEW i \in 0 .. V!Room(v) - 1, i \in b .. b + (n - e) - 1 PROVE i + d \in 0 .. V!Room(v) - 1
    BY <1>1, <1>2, <2>1
  <2> HIDE DEF d
  <2> QED
    BY Zenon, <1>1, <2>1
<1>5. \A i \in 0 .. n - d - 1 : cell[i] = IF i < b THEN obj[v].cell[i] ELSE obj[v].cell[i + d]
  <2>1. DOMAIN obj[v].cell = 0 .. V!Room(v) - 1
    BY <1>1
  <2>2. n \in Nat /\ n <= V!Room(v) /\ V!Room(v) \in Nat /\ b \in Nat /\ e \in Nat /\ b < e /\ e <= n
    BY <1>1, <1>2
  <2>3. \A i \in 0 .. n - d - 1 : i \in 0 .. V!Room(v) - 1 /\ (i \in b .. b + (n - e) - 1 <=> ~(i < b))
    <3> HIDE DEF n
    <3> QED
      BY <2>2
  <2> HIDE DEF d, n
  <2> QED
    BY <2>1, <2>3
<1>6. r \in Seq(Items) /\ Len(r) = n - d /\ \A k \in 1 .. n - d : r[k] = IF k < b + 1 THEN ref[v][k] ELSE ref[v][k + d]
  <2> DEFINE i == b + 1
             j == e + 1
  <2>1. i \in 1 .. Len(ref[v]) + 1 /\ j \in i .. Len(ref[v]) + 1 /\ i - 1 = b /\ j - i = d
    BY <1>1, <1>2
  <2>2. r = SubSeq(ref[v], 1, i - 1) \o SubSeq(ref[v], j, Len(ref[v]))
    BY Zenon, <2>1
  <2> HIDE DEF i, j, r
  <2>3. r \in Seq(Items) /\ Gap(r, ref[v], i, j)
    BY <1>1, <2>1, <2>2, CutFacts, ZenonT(60)
  <2>4. Len(r) = n - d /\ \A k \in 1 .. n - d : r[k] = IF k < i THEN ref[v][k] ELSE ref[v][k + d]
    BY Zenon, <1>1, <2>1, <2>3 DEF Gap
  <2> QED
    BY Zenon, <2>3, <2>4 DEF i
<1> HIDE DEF cell, r, n, d
<1>7. ASSUME NEW k \in 1 .. Len(r) PROVE cell[k - 1] = r[k]
  <2>1. k \in 1 .. n - d /\ k - 1 \in 0 .. n - d - 1 /\ (k - 1 < b <=> k < b + 1) /\ (k - 1) + d = (k + d) - 1
    BY <1>1, <1>2, <1>6
  <2>2. k \in 1 .. Len(ref[v]) /\ k + d \in 1 .. Len(ref[v])
    <3>1. n \in Nat /\ d \in 1 .. n
      BY <1>1, <1>2
    <3>2. k \in 1 .. n /\ k + d \in 1 .. n
      BY <2>1, <3>1
    <3> QED
      BY <1>1, <3>2
  <2>3. obj[v].cell[k - 1] = ref[v][k] /\ obj[v].cell[(k + d) - 1] = ref[v][k + d]
    <3>1. \A i \in 1 .. Len(ref[v]) : obj[v].cell[i - 1] = ref[v][i]
      BY <1>1
    <3>2. obj[v].cell[k - 1] = ref[v][k]
      BY <2>2, <3>1, Zenon
    <3>3. obj[v].cell[(k + d) - 1] = ref[v][k + d]
      <4> DEFINE i == k + d
      <4>1. i \in 1 .. Len(ref[v])
        BY <2>2
      <4> HIDE DEF i
      <4>2. obj[v].cell[i - 1] = ref[v][i]
        BY <3>1, <4>1
      <4> QED
        BY <4>2 DEF i
    <3> QED
      BY Zenon, <3>2, <3>3
  <2> QED
    BY Zenon, <1>5, <1>6, <2>1, <2>3
<1>8. n - d <= V!Room(v)
  BY <1>1, <1>2
<1>9. Holds(o, v, n - d, cell)
  BY ZenonT(30), <1>1, <1>2, <1>4, VectorBoth
<1> HIDE DEF o
<1>10. VecOk(o, r, v)
  BY <1>6, <1>7, <1>8, <1>9 DEF VecOk, Holds
<1> QED
  BY Zenon, <1>3, <1>10, VectorOne

\* CopyFrom takes over another vector when its elements fit.
LEMMA VectorCopyFrom == ASSUME VInv, NEW v \in V!Vs, NEW w \in V!Vs, V!CopyFrom(v, w) PROVE VInv'
<1> DEFINE n == obj[w].size
           cell == [i \in DOMAIN obj[v].cell |-> IF i < n THEN obj[w].cell[i] ELSE obj[v].cell[i]]
           o == [[[obj[v] EXCEPT !.size = n] EXCEPT !.ok = TRUE] EXCEPT !.cell = cell]
           r == ref[w]
<1>1. /\ DOMAIN obj = V!Vs /\ DOMAIN ref = V!Vs /\ obj[v] \in VecState(v) /\ obj[v].ok = TRUE /\ V!Room(v) \in Nat
      /\ obj[v].cell \in [0 .. V!Room(v) - 1 -> Items]
  BY Zenon, VectorFacts
<1>2. /\ r \in Seq(Items) /\ n = Len(r) /\ n \in Nat /\ n <= V!Room(w) /\ V!Room(w) \in Nat
      /\ obj[w].cell \in [0 .. V!Room(w) - 1 -> Items]
      /\ \A k \in 1 .. Len(r) : obj[w].cell[k - 1] = r[k]
  BY Zenon, VectorFacts
<1>3. n <= V!Room(v)
  <2> DEFINE c == n * ValueSize
  <2>1. c \in Nat /\ MetaSize \in Nat /\ Lengths[v] \in Nat
    BY <1>2, VectorAssumption DEF V!Vs
  <2>2. Lengths[v] >= c + MetaSize
    BY DEF V!CopyFrom, V!Used
  <2>3. c + MetaSize <= Lengths[v]
    BY <2>1, <2>2
  <2> QED
    BY <1>2, <2>3, RoomFits
<1>4. obj' = [obj EXCEPT ![v] = o] /\ ref' = [ref EXCEPT ![v] = r]
  <2>1. obj' = [obj EXCEPT ![v].size = n, ![v].ok = TRUE, ![v].cell = cell]
    BY Zenon, <1>1, <1>3 DEF V!CopyFrom, VecState
  <2> DEFINE a == [obj[v] EXCEPT !.size = n]
             b == [a EXCEPT !.ok = TRUE]
             f == [obj EXCEPT ![v] = a]
             g == [f EXCEPT ![v] = [f[v] EXCEPT !.ok = TRUE]]
  <2>2. obj' = [g EXCEPT ![v] = [g[v] EXCEPT !.cell = cell]]
    BY <2>1
  <2> HIDE DEF cell, n, a
  <2>4. f[v] = a /\ DOMAIN f = V!Vs
    BY <1>1, ExceptTwice
  <2>5. g = [obj EXCEPT ![v] = b]
    <3>1. g = [f EXCEPT ![v] = b]
      BY <2>4
    <3> HIDE DEF g, b
    <3> QED
      BY Zenon, <1>1, <3>1, ExceptTwice
  <2> HIDE DEF f, g, b
  <2>6. g[v] = b
    BY <1>1, <2>5, ExceptTwice
  <2>7. o = [b EXCEPT !.cell = cell]
    BY DEF a, b
  <2> HIDE DEF o
  <2>8. obj' = [obj EXCEPT ![v] = o]
    BY Zenon, <1>1, <2>2, <2>5, <2>6, <2>7, ExceptTwice
  <2>3. ref' = [ref EXCEPT ![v] = r]
    BY Zenon DEF V!CopyFrom
  <2> QED
    BY <2>3, <2>8
<1>5. cell \in [0 .. V!Room(v) - 1 -> Items] /\ \A i \in 0 .. n - 1 : cell[i] = obj[w].cell[i]
  <2>1. \A i \in 0 .. V!Room(v) - 1 : i < n => i \in 0 .. V!Room(w) - 1
    BY <1>1, <1>2
  <2>2. \A i \in 0 .. n - 1 : i \in 0 .. V!Room(v) - 1 /\ i < n
    BY <1>1, <1>2, <1>3
  <2> HIDE DEF n
  <2> QED
    BY Zenon, <1>1, <1>2, <2>1, <2>2
<1> HIDE DEF cell, r, n
<1>6. ASSUME NEW k \in 1 .. Len(r) PROVE cell[k - 1] = r[k]
  BY <1>2, <1>5
<1>7. Holds(o, v, n, cell)
  BY ZenonT(30), <1>1, <1>2, <1>5, VectorBoth
<1> HIDE DEF o
<1>8. VecOk(o, r, v)
  BY Zenon, <1>2, <1>3, <1>6, <1>7 DEF VecOk, Holds
<1> QED
  BY Zenon, <1>4, <1>8, VectorOne

\* Every call keeps the invariant.
LEMMA VectorNext == ASSUME VInv, V!Next PROVE VInv'
BY VectorPushBack, VectorAssign, VectorErase, VectorPopBack, VectorCopyFrom DEF V!Next
-----------------------------------------------------------------------------
(***************************************************************************)
(* RegionVector. The memory and the elements are related cell by cell; the *)
(* cells the vector does not use hold some value.                          *)
(***************************************************************************)

RegState == [cap : Nat, current : Nat, hook : BOOLEAN, hooked : Seq(Items), cell : Seq(Items)]

RegOk(o, r) ==
  /\ o \in RegState /\ r \in [seq : Seq(Items), gone : Seq(Items)]
  /\ Len(o.cell) = o.cap /\ o.current <= o.cap /\ o.current = Len(r.seq)
  /\ \A i \in 1 .. Len(r.seq) : o.cell[i] = r.seq[i]
  /\ o.hooked = IF o.hook THEN r.gone ELSE <<>>

\* The elements in use are the sequence.
LEMMA RegionPrefix == ASSUME NEW o, NEW r, RegOk(o, r) PROVE SubSeq(o.cell, 1, o.current) = r.seq
<1> DEFINE t == SubSeq(o.cell, 1, o.current)
<1>1. o.cell \in Seq(Items) /\ o.current \in 0 .. Len(o.cell) /\ r.seq \in Seq(Items) /\ o.current = Len(r.seq)
  BY DEF RegOk, RegState
<1>2. t \in Seq(Items) /\ Len(t) = o.current /\ \A i \in 1 .. o.current : t[i] = o.cell[i]
  BY <1>1, PrefixFacts
<1>3. \A i \in 1 .. o.current : o.cell[i] = r.seq[i]
  BY <1>1 DEF RegOk
<1> HIDE DEF t
<1>4. t = r.seq
  BY <1>1, <1>2, <1>3
<1> QED
  BY <1>4 DEF t

\* What the property states follows from the invariant.
LEMMA RegionAgrees == RegOk(obj, ref) => RV!Agrees
<1> SUFFICES ASSUME RegOk(obj, ref) PROVE RV!Agrees
  OBVIOUS
<1>1. SubSeq(obj.cell, 1, obj.current) = ref.seq
  BY RegionPrefix
<1>2. obj.current = Len(ref.seq) /\ obj.current <= obj.cap /\ obj.hooked = IF obj.hook THEN ref.gone ELSE <<>>
  BY DEF RegOk
<1> QED
  BY <1>1, <1>2 DEF RV!Agrees, RV!Restores

\* A fresh vector is empty, its capacity what is left behind the header.
LEMMA RegionInit == RV!Init => RegOk(obj, ref)
<1> SUFFICES ASSUME RV!Init PROVE RegOk(obj, ref)
  OBVIOUS
<1>1. PICK size \in RegionSizes : size >= RV!DataStart /\ obj = RV!Create(size)
  BY DEF RV!Init
<1> DEFINE n == RV!Capacity(size)
           x == CHOOSE y \in Items : TRUE
           cell == [i \in 1 .. n |-> x]
<1>2. n \in Nat
  <2> DEFINE a == HeaderSize + ElemSize - 1
             q == a \div ElemSize
             b == size - RV!DataStart
  <2>1. size \in Nat /\ ElemSize \in Nat \ {0} /\ a \in Nat
    BY RegionVectorAssumption
  <2>2. q \in Nat
    BY <2>1, DivType
  <2>3. RV!DataStart = q * ElemSize
    BY DEF RV!DataStart
  <2> HIDE DEF q
  <2>4. RV!DataStart \in Nat
    BY <2>1, <2>2, <2>3
  <2>5. b \in Nat
    BY <1>1, <2>1, <2>4
  <2> HIDE DEF b
  <2>6. b \div ElemSize \in Nat
    BY <2>1, <2>5, DivType
  <2> QED
    BY <2>6 DEF RV!Capacity, b
<1>3. x \in Items
  BY VectorAssumption
<1>4. obj = [cap |-> n, current |-> 0, hook |-> FALSE, hooked |-> <<>>, cell |-> cell]
  BY <1>1 DEF RV!Create
<1> HIDE DEF n, x
<1>5. cell \in Seq(Items) /\ Len(cell) = n
  BY <1>2, <1>3
<1> HIDE DEF cell
<1>6. <<>> \in Seq(Items) /\ Len(<<>>) = 0
  OBVIOUS
<1>7. ref = [seq |-> <<>>, gone |-> <<>>]
  BY DEF RV!Init
<1>8. obj.cap = n /\ obj.current = 0 /\ obj.hook = FALSE /\ obj.hooked = <<>> /\ obj.cell = cell
  BY <1>4
<1>9. obj \in RegState
  BY Zenon, <1>2, <1>4, <1>5, <1>6 DEF RegState
<1>10. ref \in [seq : Seq(Items), gone : Seq(Items)] /\ ref.seq = <<>>
  BY Zenon, <1>6, <1>7
<1> QED
  BY <1>2, <1>5, <1>6, <1>8, <1>9, <1>10 DEF RegOk

\* What the invariant says field by field.
LEMMA RegionFacts ==
  ASSUME RegOk(obj, ref)
  PROVE /\ obj \in RegState /\ obj.cap \in Nat /\ obj.current \in Nat /\ obj.hook \in BOOLEAN /\ obj.cell \in Seq(Items)
        /\ Len(obj.cell) = obj.cap /\ obj.current <= obj.cap /\ obj.current = Len(ref.seq)
        /\ ref.seq \in Seq(Items) /\ ref.gone \in Seq(Items) /\ <<>> \in Seq(Items)
        /\ \A i \in 1 .. Len(ref.seq) : obj.cell[i] = ref.seq[i]
<1>1. <<>> \in Seq(Items)
  OBVIOUS
<1> QED
  BY <1>1 DEF RegOk, RegState

\* push_back writes behind the last element unless the vector is full.
LEMMA RegionPushBack == ASSUME RegOk(obj, ref), NEW x \in Items, RV!PushBack(x) PROVE RegOk(obj', ref')
<1> DEFINE n == obj.current
           m == n + 1
           none == <<>>
           cell == [obj.cell EXCEPT ![m] = x]
           r == Append(ref.seq, x)
<1>1. /\ obj \in RegState /\ obj.cap \in Nat /\ n \in Nat /\ obj.hook \in BOOLEAN /\ obj.cell \in Seq(Items)
      /\ Len(obj.cell) = obj.cap /\ n <= obj.cap /\ n = Len(ref.seq)
      /\ ref.seq \in Seq(Items) /\ none \in Seq(Items)
      /\ \A i \in 1 .. Len(ref.seq) : obj.cell[i] = ref.seq[i]
  BY RegionFacts
<1>2. n # obj.cap /\ ref' = [seq |-> r, gone |-> none]
  BY DEF RV!PushBack
<1>3. obj' = [[obj EXCEPT !.current = m, !.hooked = none] EXCEPT !.cell = cell]
  BY Zenon, <1>1 DEF RV!PushBack, RegState
<1>4. m \in Nat /\ m <= obj.cap /\ m \in 1 .. Len(obj.cell)
  BY <1>1, <1>2
<1>5. cell \in Seq(Items) /\ Len(cell) = obj.cap /\ cell[m] = x /\ \A i \in 1 .. n : cell[i] = obj.cell[i]
  BY <1>1, <1>4
<1>6. r \in Seq(Items) /\ Len(r) = m /\ r[m] = x /\ \A i \in 1 .. n : r[i] = ref.seq[i]
  BY <1>1
<1>7. \A i \in 1 .. m : i = m \/ i \in 1 .. n
  BY <1>1
<1> HIDE DEF n, m, none, cell, r
<1>8. \A i \in 1 .. m : cell[i] = r[i]
  BY <1>1, <1>5, <1>6, <1>7
<1> DEFINE a == [obj EXCEPT !.current = m, !.hooked = none]
<1>9. a \in RegState /\ a.current = m /\ a.hooked = none /\ a.cap = obj.cap
  BY Zenon, <1>1, <1>4 DEF RegState
<1> HIDE DEF a
<1>10. obj' \in RegState /\ obj'.current = m /\ obj'.hooked = none /\ obj'.cap = obj.cap /\ obj'.cell = cell
  BY ZenonT(30), <1>3, <1>5, <1>9 DEF RegState, a
<1>11. ref' \in [seq : Seq(Items), gone : Seq(Items)] /\ ref'.seq = r /\ ref'.gone = none
  BY <1>1, <1>2, <1>6
<1>12. obj'.hooked = IF obj'.hook THEN ref'.gone ELSE <<>>
  BY Zenon, <1>10, <1>11 DEF none
<1> QED
  BY Zenon, <1>4, <1>5, <1>6, <1>8, <1>10, <1>11, <1>12 DEF RegOk

\* erase moves the elements behind it down by one and hands the erased one to destroy_func_.
LEMMA RegionErase ==
  ASSUME RegOk(obj, ref), NEW k \in DOMAIN ref.seq, RV!Erase(k)
  PROVE RegOk(obj', ref')
<1> DEFINE n == obj.current
           m == n - 1
           gone == <<ref.seq[k]>>
           hooked == IF obj.hook THEN gone ELSE <<>>
           cell == [j \in DOMAIN obj.cell |-> IF j \in k .. n - 1 THEN obj.cell[j + 1] ELSE obj.cell[j]]
           r == SubSeq(ref.seq, 1, k - 1) \o SubSeq(ref.seq, k + 1, Len(ref.seq))
<1>1. /\ obj \in RegState /\ obj.cap \in Nat /\ n \in Nat /\ obj.hook \in BOOLEAN /\ obj.cell \in Seq(Items)
      /\ Len(obj.cell) = obj.cap /\ n <= obj.cap /\ n = Len(ref.seq)
      /\ ref.seq \in Seq(Items) /\ <<>> \in Seq(Items)
      /\ \A i \in 1 .. Len(ref.seq) : obj.cell[i] = ref.seq[i]
  BY RegionFacts
<1>2. k \in 1 .. n /\ ref' = [seq |-> r, gone |-> gone]
  BY Zenon DEF RV!Erase
<1>3. obj.cell[k] = ref.seq[k] /\ ref.seq[k] \in Items
  BY Zenon, <1>1, <1>2, SeqFacts
<1>4. obj' = [[obj EXCEPT !.hooked = hooked, !.current = m] EXCEPT !.cell = cell]
  BY Zenon, <1>1, <1>3 DEF RV!Erase, RegState
<1>5. m \in Nat /\ m <= obj.cap
  BY Zenon, <1>1, <1>2, Predecessor
<1>6. gone \in Seq(Items) /\ hooked \in Seq(Items)
  BY <1>1, <1>3
<1>7. cell \in Seq(Items) /\ Len(cell) = obj.cap
  <2>1. DOMAIN obj.cell = 1 .. obj.cap /\ \A j \in 1 .. obj.cap : obj.cell[j] \in Items
    BY Zenon, <1>1, SeqFacts
  <2>2. \A j \in k .. n - 1 : j + 1 \in 1 .. obj.cap
    BY <1>1, <1>2
  <2>3. cell \in [1 .. obj.cap -> Items]
    BY <2>1, <2>2
  <2> HIDE DEF cell
  <2> QED
    BY <1>1, <2>3
<1>8. \A j \in 1 .. m : cell[j] = IF j < k THEN obj.cell[j] ELSE obj.cell[j + 1]
  <2>1. \A j \in 1 .. m : j \in DOMAIN obj.cell /\ (j \in k .. n - 1 <=> ~(j < k))
    BY <1>1, <1>2
  <2> QED
    BY Zenon, <2>1
<1>9. r \in Seq(Items) /\ Len(r) = m /\ \A j \in 1 .. m : r[j] = IF j < k THEN ref.seq[j] ELSE ref.seq[j + 1]
  <2> DEFINE e == k + 1
  <2>1. k \in 1 .. Len(ref.seq) + 1 /\ e \in k .. Len(ref.seq) + 1 /\ e - k = 1
    <3>1. k \in 1 .. Len(ref.seq) /\ Len(ref.seq) \in Nat
      BY <1>1, <1>2
    <3>2. \A l \in Nat : \A q \in 1 .. l : q \in 1 .. l + 1 /\ q + 1 \in q .. l + 1 /\ (q + 1) - q = 1
      OBVIOUS
    <3> QED
      BY <3>1, <3>2, Zenon
  <2>2. r = SubSeq(ref.seq, 1, k - 1) \o SubSeq(ref.seq, e, Len(ref.seq))
    OBVIOUS
  <2> HIDE DEF e, r
  <2>3. r \in Seq(Items) /\ Gap(r, ref.seq, k, e)
    BY <1>1, <2>1, <2>2, CutFacts, Zenon
  <2> QED
    BY Zenon, <1>1, <2>1, <2>3 DEF Gap
<1> HIDE DEF cell, r, gone, hooked
<1>10. ASSUME NEW j \in 1 .. m PROVE cell[j] = r[j]
  <2>1. j \in 1 .. n /\ j + 1 \in 1 .. n
    BY <1>1
  <2>2. obj.cell[j] = ref.seq[j] /\ obj.cell[j + 1] = ref.seq[j + 1]
    BY <1>1, <2>1
  <2> QED
    BY Zenon, <1>8, <1>9, <2>2
<1> HIDE DEF n, m
<1> DEFINE a == [obj EXCEPT !.hooked = hooked, !.current = m]
<1>11. a \in RegState /\ a.current = m /\ a.hooked = hooked /\ a.cap = obj.cap /\ a.hook = obj.hook
  BY Zenon, <1>1, <1>5, <1>6 DEF RegState
<1> HIDE DEF a
<1>12. /\ obj' \in RegState /\ obj'.current = m /\ obj'.hooked = hooked /\ obj'.cap = obj.cap
       /\ obj'.hook = obj.hook /\ obj'.cell = cell
  BY ZenonT(30), <1>4, <1>7, <1>11 DEF RegState, a
<1>13. ref' \in [seq : Seq(Items), gone : Seq(Items)] /\ ref'.seq = r /\ ref'.gone = gone
  BY <1>2, <1>6, <1>9
<1>14. obj'.hooked = IF obj'.hook THEN ref'.gone ELSE <<>>
  BY <1>12, <1>13 DEF hooked
<1> QED
  BY Zenon, <1>5, <1>7, <1>9, <1>10, <1>12, <1>13, <1>14 DEF RegOk

\* clear removes every element, in order.
LEMMA RegionClear == ASSUME RegOk(obj, ref), RV!Clear PROVE RegOk(obj', ref')
<1> DEFINE none == <<>>
           zero == 0
           hooked == IF obj.hook THEN ref.seq ELSE none
<1>1. /\ obj \in RegState /\ obj.cap \in Nat /\ obj.hook \in BOOLEAN /\ obj.cell \in Seq(Items)
      /\ Len(obj.cell) = obj.cap /\ ref.seq \in Seq(Items) /\ none \in Seq(Items)
  BY RegionFacts
<1>2. SubSeq(obj.cell, 1, obj.current) = ref.seq
  BY RegionPrefix
<1>3. obj' = [obj EXCEPT !.hooked = hooked, !.current = zero] /\ ref' = [seq |-> none, gone |-> ref.seq]
  BY Zenon, <1>2 DEF RV!Clear
<1>4. hooked \in Seq(Items) /\ zero \in Nat /\ Len(none) = zero /\ zero <= obj.cap /\ 1 .. zero = {}
  BY <1>1
<1> HIDE DEF none, zero, hooked
<1>5. /\ obj' \in RegState /\ obj'.current = zero /\ obj'.hooked = hooked /\ obj'.cap = obj.cap
      /\ obj'.hook = obj.hook /\ obj'.cell = obj.cell
  BY Zenon, <1>1, <1>3, <1>4 DEF RegState
<1>6. ref' \in [seq : Seq(Items), gone : Seq(Items)] /\ ref'.seq = none /\ ref'.gone = ref.seq
  BY <1>1, <1>3
<1>7. obj'.hooked = IF obj'.hook THEN ref'.gone ELSE <<>>
  BY <1>5, <1>6 DEF hooked, none
<1>8. \A i \in 1 .. Len(ref'.seq) : obj'.cell[i] = ref'.seq[i]
  BY Zenon, <1>4, <1>6
<1> QED
  BY Zenon, <1>1, <1>4, <1>5, <1>6, <1>7, <1>8 DEF RegOk

\* Setting destroy_func_ changes no element.
LEMMA RegionOnDestroy == ASSUME RegOk(obj, ref), NEW set \in BOOLEAN, RV!OnDestroy(set) PROVE RegOk(obj', ref')
<1> DEFINE none == <<>>
<1>1. /\ obj \in RegState /\ ref.seq \in Seq(Items) /\ none \in Seq(Items)
      /\ ref \in [seq : Seq(Items), gone : Seq(Items)]
  BY RegionFacts DEF RegOk
<1>2. obj' = [obj EXCEPT !.hook = set, !.hooked = none] /\ ref' = [ref EXCEPT !.gone = none]
  BY DEF RV!OnDestroy
<1> HIDE DEF none
<1>3. /\ obj' \in RegState /\ obj'.current = obj.current /\ obj'.hooked = none /\ obj'.cap = obj.cap /\ obj'.cell = obj.cell
  BY Zenon, <1>1, <1>2 DEF RegState
<1>4. ref' \in [seq : Seq(Items), gone : Seq(Items)] /\ ref'.seq = ref.seq /\ ref'.gone = none
  BY <1>1, <1>2
<1>5. obj'.hooked = IF obj'.hook THEN ref'.gone ELSE <<>>
  BY <1>3, <1>4 DEF none
<1> QED
  BY Zenon, <1>3, <1>4, <1>5 DEF RegOk

\* Every call keeps the invariant.
LEMMA RegionNext == ASSUME RegOk(obj, ref), RV!Next PROVE RegOk(obj', ref')
BY RegionPushBack, RegionErase, RegionClear, RegionOnDestroy DEF RV!Next
-----------------------------------------------------------------------------
(***************************************************************************)
(* The trie. A node is there only on the way to a key, and the way to a    *)
(* key is there without a gap.                                             *)
(***************************************************************************)

TrieOk(o, r) ==
  /\ DOMAIN r \subseteq TR!Keys
  /\ \A k \in DOMAIN r : TR!Path(k) \subseteq DOMAIN o.val
  /\ \A k \in DOMAIN r : k \in DOMAIN o.val /\ o.val[k] = r[k]
  /\ \A p \in DOMAIN o.val : p \in DOMAIN r \/ (o.val[p] = Junk /\ \E k \in DOMAIN r : p \in TR!Path(k))
TrieInv == "halt" \in DOMAIN obj /\ (~obj.halt => TrieOk(obj, ref))

\* A key is a sequence that is not empty.
LEMMA TrieKey ==
  ASSUME NEW k \in TR!Keys
  PROVE Len(k) \in 1 .. Len(k) /\ SubSeq(k, 1, Len(k)) = k /\ k \in TR!Path(k)
<1>1. PICK n \in 1 .. MaxKeyLen : k \in [1 .. n -> TR!Chars]
  BY Zenon DEF TR!Keys
<1>2. n \in Nat /\ n >= 1
  BY TrieAssumption
<1>3. k \in Seq(TR!Chars) /\ Len(k) = n
  BY <1>1, <1>2
<1>4. Len(k) \in 1 .. Len(k)
  BY <1>2, <1>3
<1>5. SubSeq(k, 1, Len(k)) = k
  BY <1>3
<1> QED
  BY <1>4, <1>5, Zenon DEF TR!Path

\* The root is the only node at first.
LEMMA TrieInit == TR!Init => TrieInv
<1> SUFFICES ASSUME TR!Init PROVE "halt" \in DOMAIN obj /\ TrieOk(obj, ref)
  BY Zenon DEF TrieInv
<1>1. PICK w : obj = [val |-> [p \in {} |-> Junk], wild |-> w, halt |-> FALSE]
  BY Zenon DEF TR!Init
<1>2. obj.val = [p \in {} |-> Junk] /\ "halt" \in DOMAIN obj
  BY <1>1, Zenon
<1>3. DOMAIN obj.val = {}
  BY <1>2, Zenon
<1>4. DOMAIN ref = {}
  BY Zenon DEF TR!Init
<1> QED
  BY <1>2, <1>3, <1>4, Zenon DEF TrieOk

\* Put makes the nodes of the way to its key that are missing.
LEMMA TriePut ==
  ASSUME NEW key \in TR!Keys, NEW v \in Items, TrieInv, TR!Put(key, v)
  PROVE TrieInv'
<1> DEFINE path == TR!Path(key)
           missing == path \ DOMAIN obj.val
           made == [p \in DOMAIN obj.val \cup path |-> IF p = key THEN v ELSE IF p \in missing THEN Junk ELSE obj.val[p]]
           kept == [k \in DOMAIN ref \cup {key} |-> IF k = key THEN v ELSE ref[k]]
<1>1. "halt" \in DOMAIN obj /\ ~obj.halt /\ TrieOk(obj, ref) /\ ref' = kept
  BY Zenon DEF TR!Put, TrieInv
<1>2. PICK x : obj' = [obj EXCEPT !.halt = TRUE] \/ obj' = [val |-> made, wild |-> x, halt |-> FALSE]
  BY Zenon DEF TR!Put
<1>3. CASE obj' = [obj EXCEPT !.halt = TRUE]
  BY <1>1, <1>3, Zenon DEF TrieInv
<1>4. CASE obj' = [val |-> made, wild |-> x, halt |-> FALSE]
  <2>1. obj'.val = made /\ "halt" \in DOMAIN obj'
    BY <1>4, Zenon
  <2>2. DOMAIN made = DOMAIN obj.val \cup path /\ DOMAIN kept = DOMAIN ref \cup {key} /\ kept[key] = v
    BY Zenon
  <2>3. key \in path
    BY TrieKey, Zenon
  <2>4. made[key] = v
    BY <2>3, Zenon
  <2>5. \A p \in DOMAIN obj.val : p # key => made[p] = obj.val[p]
    BY Zenon
  <2>6. \A p \in path : p # key /\ p \notin DOMAIN obj.val => made[p] = Junk
    BY Zenon
  <2>7. \A k \in DOMAIN ref : k # key => kept[k] = ref[k]
    BY Zenon
  <2> HIDE DEF path, missing, made, kept
  <2>8. DOMAIN kept \subseteq TR!Keys
    BY <1>1, <2>2, Zenon DEF TrieOk
  <2>9. \A k \in DOMAIN kept : TR!Path(k) \subseteq DOMAIN made
    BY <1>1, <2>2, Zenon DEF TrieOk, path
  <2>10. \A k \in DOMAIN kept : k \in DOMAIN made /\ made[k] = kept[k]
    BY <1>1, <2>2, <2>3, <2>4, <2>5, <2>7, Zenon DEF TrieOk
  <2>11. ASSUME NEW p \in DOMAIN made
         PROVE p \in DOMAIN kept \/ (made[p] = Junk /\ \E k \in DOMAIN kept : p \in TR!Path(k))
    <3>1. CASE p = key
      BY <2>2, <3>1, Zenon
    <3>2. CASE p # key /\ p \in DOMAIN obj.val
      BY <1>1, <2>2, <2>5, <3>2, Zenon DEF TrieOk
    <3>3. CASE p # key /\ p \notin DOMAIN obj.val
      BY <2>2, <2>6, <3>3, Zenon DEF path
    <3> QED
      BY <3>1, <3>2, <3>3, Zenon
  <2> QED
    BY <1>1, <2>1, <2>8, <2>9, <2>10, <2>11, Zenon DEF TrieInv, TrieOk
<1> QED
  BY <1>2, <1>3, <1>4, Zenon

\* Every call keeps the invariant.
LEMMA TrieNext == ASSUME TrieInv, TR!Next PROVE TrieInv'
BY TriePut, Zenon DEF TR!Next

\* What Get returns for a key.
LEMMA TrieGet ==
  ASSUME NEW o, NEW r, TrieOk(o, r), NEW key \in TR!Keys
  PROVE /\ key \in DOMAIN r => TR!Get(o, key) = <<"value", r[key]>>
        /\ TR!Get(o, key)[1] = "value" =>
             key \in DOMAIN r \/ ((\E k \in DOMAIN r : key \in TR!Path(k)) /\ TR!Get(o, key)[2] = Junk)
        /\ o.wild = {} /\ ~(\E k \in DOMAIN r : key \in TR!Path(k)) => TR!Get(o, key) = <<"none">>
<1> DEFINE stops == {n \in 1 .. Len(key) : SubSeq(key, 1, n) \notin DOMAIN o.val}
           first == CHOOSE n \in stops : \A m \in stops : n <= m
           get == TR!Get(o, key)
<1>1. /\ stops = {} => get = <<"value", o.val[key]>>
      /\ stops # {} => get = IF SubSeq(key, 1, first) \in o.wild THEN <<"halt">> ELSE <<"none">>
  BY Zenon DEF TR!Get
<1>2. stops = {} => key \in DOMAIN o.val
  BY TrieKey, Zenon
<1>3. key \in DOMAIN r => stops = {} /\ o.val[key] = r[key]
  BY Zenon DEF TrieOk, TR!Path
<1> HIDE DEF stops, first, get
<1>4. stops # {} => get = <<"halt">> \/ get = <<"none">>
  BY <1>1, Zenon
<1>5. get[1] = "value" => stops = {}
  <2>1. <<"halt">>[1] = "halt" /\ <<"none">>[1] = "none"
    OBVIOUS
  <2> QED
    BY <1>4, <2>1
<1>6. stops = {} => get[2] = o.val[key]
  BY <1>1
<1>7. get[1] = "value" => key \in DOMAIN r \/ ((\E k \in DOMAIN r : key \in TR!Path(k)) /\ get[2] = Junk)
  BY <1>2, <1>5, <1>6, Zenon DEF TrieOk
<1>8. key \in DOMAIN r => get = <<"value", r[key]>>
  BY <1>1, <1>3, Zenon
<1>9. ASSUME o.wild = {}, ~(\E k \in DOMAIN r : key \in TR!Path(k)) PROVE get = <<"none">>
  <2>1. key \notin DOMAIN r
    BY <1>9, TrieKey, Zenon
  <2>2. stops # {}
    BY <1>2, <1>9, <2>1, Zenon DEF TrieOk
  <2> QED
    BY <1>1, <1>9, <2>2, Zenon
<1> QED
  BY <1>7, <1>8, <1>9, Zenon DEF get

\* The property follows from the invariant.
LEMMA TrieAgrees == TrieInv => TR!Agrees
BY TrieGet, Zenon DEF TrieInv, TR!Agrees
-----------------------------------------------------------------------------
(***************************************************************************)
(* The four together.                                                      *)
(***************************************************************************)

ContainersInv ==
  /\ kind = "List" => ListOk(obj, ref)
  /\ kind = "Vector" => VInv
  /\ kind = "RegionVector" => RegOk(obj, ref)
  /\ kind = "Trie" => TrieInv

\* The containers start in the invariant.
LEMMA ContainersInvInit == ContainersInit => ContainersInv
<1>1. L!Init => ListOk(obj, ref)
  BY ListFresh DEF L!Init
<1> QED
  BY <1>1, VectorInit, RegionInit, TrieInit DEF ContainersInit, ContainersInv

\* Every call keeps it.
LEMMA ContainersInvNext == ContainersInv /\ [ContainersNext]_vars => ContainersInv'
<1> SUFFICES ASSUME ContainersInv, [ContainersNext]_vars PROVE ContainersInv'
  OBVIOUS
<1>1. CASE UNCHANGED vars
  <2>1. obj' = obj /\ ref' = ref /\ kind' = kind
    BY Zenon, <1>1 DEF vars
  <2>2. VInv => VInv'
    BY <2>1 DEF VInv, VecOk, VecState, V!Vs, V!Room
  <2>3. ListOk(obj', ref') = ListOk(obj, ref) /\ RegOk(obj', ref') = RegOk(obj, ref)
    BY <2>1
  <2>4. TrieInv => TrieInv'
    BY <2>1, Zenon DEF TrieInv
  <2> QED
    BY <2>1, <2>2, <2>3, <2>4 DEF ContainersInv
<1>2. CASE kind = "List" /\ L!Next /\ kind' = kind
  BY <1>2, ListNext DEF ContainersInv
<1>3. CASE kind = "Vector" /\ V!Next /\ kind' = kind
  BY <1>3, VectorNext DEF ContainersInv
<1>4. CASE kind = "RegionVector" /\ RV!Next /\ kind' = kind
  BY <1>4, RegionNext DEF ContainersInv
<1>5. CASE kind = "Trie" /\ TR!Next /\ kind' = kind
  BY <1>5, TrieNext DEF ContainersInv
<1> QED
  BY <1>1, <1>2, <1>3, <1>4, <1>5 DEF ContainersNext

\* The list, the vectors and the region vector hold at all times the sequence that the calls
\* left: the links of the list lead through it in both directions and every slice is in the
\* list or free; no push_back or CopyFrom writes behind the memory, and RecoverFrom and
\* Restore find a size that fits; destroy_func_ saw exactly the removed elements. Get of the
\* trie returns what was put last under a key, and for any other key nothing or the value of
\* a node nothing was put at, or it follows a pointer that was not cleared, as long as no Put
\* did. For every capacity, all sizes of the memory, the header and the elements, any letters and key length.
THEOREM ContainersAgreeAlways == ContainersSpec => []ContainersAgree
<1>1. ContainersInv => ContainersAgree
  BY ListAgrees, VectorAgrees, RegionAgrees, TrieAgrees DEF ContainersInv, ContainersAgree
<1> QED
  BY <1>1, ContainersInvInit, ContainersInvNext, PTL DEF ContainersSpec
=============================================================================

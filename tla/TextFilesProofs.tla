--------------------------- MODULE TextFilesProofs ---------------------------
(***************************************************************************)
(* TextFiles, for every value of its constants: for each program an         *)
(* invariant that its steps keep, then the properties for all of them.     *)
(***************************************************************************)
EXTENDS TextFiles, Sequences, TLAPS, WellFoundedInduction

\* The time a leaf may take, which on a slow machine is more than the five seconds of the default.
USE SMTT(60)

\* The positions of a sequence that has grown by one element, as the last file does in a write.
LEMMA LastIndex ==
  \A n \in Nat : \A i \in 1 .. n + 1 : i \in 1 .. n \/ i = n + 1
OBVIOUS

\* A set of numbers that is not empty has a least element.
LEMMA Least == ASSUME NEW T \in SUBSET Nat, T # {} PROVE \E m \in T : \A k \in T : m <= k
<1> DEFINE R == OpToRel(<, Nat)
<1>0. \A x, y \in Nat : y < x => <<y, x>> \in R
  BY Zenon DEF OpToRel
<1>1. \E x \in T : \A y \in T : ~ (<<y, x>> \in R)
  BY NatLessThanWellFounded, WFMin, Zenon
<1> HIDE DEF R
<1>2. \E x \in T : \A y \in T : ~ (y < x)
  BY <1>1, <1>0, Zenon
<1> QED
  BY <1>2

\* The running sums of p up to its first n pieces.
IsSum(f, p, n) == f = [i \in 0 .. n |-> IF i = 0 THEN 0 ELSE f[i - 1] + p[i][3]]

\* There is a function of sums, by induction over the least number without one.
LEMMA SumExists == ASSUME NEW p, NEW n \in Nat PROVE \E f : IsSum(f, p, n)
<1> SUFFICES ASSUME \A f : ~IsSum(f, p, n) PROVE FALSE
  OBVIOUS
<1> DEFINE T == {m \in Nat : \A f : ~IsSum(f, p, m)}
<1>1. PICK m \in T : \A k \in T : m <= k
  BY Least, Zenon
<1>2. m \in Nat /\ \A f : ~IsSum(f, p, m)
  OBVIOUS
<1>3. m # 0
  <2>1. IsSum([i \in 0 .. 0 |-> 0], p, 0)
    BY DEF IsSum
  <2> QED
    BY <1>2, <2>1
<1>4. PICK g : IsSum(g, p, m - 1)
  <2>1. m - 1 \in Nat /\ ~(m <= m - 1)
    BY <1>2, <1>3
  <2> QED
    BY <1>1, <2>1
<1> HIDE DEF T
<1> DEFINE f == [i \in 0 .. m |-> IF i = m THEN g[m - 1] + p[m][3] ELSE g[i]]
<1>5. \A i \in 0 .. m - 1 : g[i] = IF i = 0 THEN 0 ELSE g[i - 1] + p[i][3]
  BY <1>4, Zenon DEF IsSum
<1>6. \A i \in 0 .. m : f[i] = IF i = 0 THEN 0 ELSE f[i - 1] + p[i][3]
  <2> SUFFICES ASSUME NEW i \in 0 .. m PROVE f[i] = IF i = 0 THEN 0 ELSE f[i - 1] + p[i][3]
    BY Zenon
  <2>1. CASE i = 0
    BY <1>2, <1>3, <1>5, <2>1
  <2>2. CASE i # 0 /\ i # m
    <3>1. i \in 0 .. m - 1 /\ i - 1 \in 0 .. m /\ i - 1 # m
      BY <1>2, <2>2
    <3> QED
      BY <1>5, <2>2, <3>1
  <2>3. CASE i = m
    <3>1. i - 1 \in 0 .. m /\ i - 1 # m
      BY <1>2, <1>3, <2>3
    <3> QED
      BY <1>3, <2>3, <3>1
  <2> QED
    BY <2>1, <2>2, <2>3
<1>7. IsSum(f, p, m)
  BY <1>6 DEF IsSum
<1> QED
  BY <1>2, <1>7

\* There is only one.
LEMMA SumUnique == ASSUME NEW p, NEW n \in Nat, NEW f, NEW g, IsSum(f, p, n), IsSum(g, p, n) PROVE f = g
<1>1. \A i \in 0 .. n : f[i] = IF i = 0 THEN 0 ELSE f[i - 1] + p[i][3]
  BY Zenon DEF IsSum
<1>2. \A i \in 0 .. n : g[i] = IF i = 0 THEN 0 ELSE g[i - 1] + p[i][3]
  BY DEF IsSum
<1> DEFINE T == {i \in 0 .. n : f[i] # g[i]}
<1>3. SUFFICES ASSUME T # {} PROVE FALSE
  <2>1. f = [i \in 0 .. n |-> f[i]] /\ g = [i \in 0 .. n |-> g[i]]
    BY DEF IsSum
  <2> QED
    BY <2>1, Zenon
<1>4. PICK m \in T : \A k \in T : m <= k
  <2>1. T \in SUBSET Nat
    OBVIOUS
  <2> HIDE DEF T
  <2> QED
    BY <1>3, <2>1, Least
<1>5. m \in 0 .. n /\ f[m] # g[m] /\ m \in Nat
  OBVIOUS
<1>6. m # 0
  BY <1>1, <1>2, <1>5
<1>7. m - 1 \in 0 .. n /\ ~(m <= m - 1)
  BY <1>5, <1>6
<1>8. f[m - 1] = g[m - 1]
  BY <1>4, <1>7
<1> QED
  BY <1>1, <1>2, <1>5, <1>6, <1>8

\* Bytes is the last of the sums.
LEMMA BytesSum == ASSUME NEW p, Len(p) \in Nat, NEW f, IsSum(f, p, Len(p)) PROVE O!Bytes(p) = f[Len(p)]
<1> DEFINE n == Len(p)
           D(h) == h = [i \in 0 .. n |-> IF i = 0 THEN 0 ELSE h[i - 1] + p[i][3]]
           g == CHOOSE h : D(h)
<1>1. D(f)
  BY DEF IsSum
<1>2. D(g)
  BY <1>1, Zenon
<1>3. IsSum(g, p, n)
  BY <1>2, Zenon DEF IsSum
<1>4. f = g
  BY <1>3, SumUnique
<1>5. O!Bytes(p) = g[n]
  BY DEF O!Bytes
<1> QED
  BY <1>4, <1>5

\* No pieces have no bytes.
LEMMA BytesEmpty == O!Bytes(<<>>) = 0
<1>1. Len(<<>>) = 0
  OBVIOUS
<1>2. PICK f : IsSum(f, <<>>, 0)
  BY SumExists
<1>3. f[0] = 0
  BY <1>2 DEF IsSum
<1> QED
  BY <1>1, <1>2, <1>3, BytesSum

\* A piece more adds its bytes.
LEMMA BytesAppend == ASSUME NEW S, NEW s \in Seq(S), NEW p \in S PROVE O!Bytes(Append(s, p)) = O!Bytes(s) + p[3]
<1> DEFINE t == Append(s, p)
           n == Len(s)
<1>1. n \in Nat /\ Len(t) = n + 1 /\ t[n + 1] = p /\ \A i \in 1 .. n : t[i] = s[i]
  OBVIOUS
<1> HIDE DEF t, n
<1>2. PICK f : IsSum(f, t, n + 1)
  <2>1. n + 1 \in Nat
    BY <1>1
  <2> QED
    BY <2>1, SumExists, Zenon
<1>3. \A i \in 0 .. n + 1 : f[i] = IF i = 0 THEN 0 ELSE f[i - 1] + t[i][3]
  BY <1>2, Zenon DEF IsSum
<1> DEFINE g == [i \in 0 .. n |-> f[i]]
<1>4. \A i \in 0 .. n : g[i] = IF i = 0 THEN 0 ELSE g[i - 1] + s[i][3]
  <2> SUFFICES ASSUME NEW i \in 0 .. n PROVE g[i] = IF i = 0 THEN 0 ELSE g[i - 1] + s[i][3]
    OBVIOUS
  <2>1. i \in 0 .. n + 1 /\ (i # 0 => i - 1 \in 0 .. n /\ i \in 1 .. n)
    BY <1>1
  <2> QED
    BY <1>1, <1>3, <2>1
<1>5. IsSum(g, s, n)
  BY <1>4 DEF IsSum
<1> HIDE DEF g
<1>6. O!Bytes(s) = g[n] /\ O!Bytes(t) = f[n + 1]
  BY <1>1, <1>2, <1>5, BytesSum DEF n
<1>7. g[n] = f[n]
  BY <1>1 DEF g
<1>8. f[n + 1] = f[n] + p[3]
  <2>1. n + 1 \in 0 .. n + 1 /\ n + 1 # 0 /\ n + 1 - 1 = n
    BY <1>1
  <2> QED
    BY <1>1, <1>3, <2>1
<1> QED
  BY <1>6, <1>7, <1>8 DEF t
-----------------------------------------------------------------------------
(***************************************************************************)
(* LogOutput. The file that is written is the last one, so what is         *)
(* appended to it is appended to all of them; bytes_written_ lags behind   *)
(* by the line of the thread that holds the lock.                          *)
(***************************************************************************)

Pieces == Writers \X Nat \X Nat

PieceSeqs == Seq(Pieces)
FileSeqs == Seq(PieceSeqs)

\* The writer and the line number of a piece.
LEMMA PieceFacts == ASSUME NEW s \in PieceSeqs PROVE \A i \in 1 .. Len(s) : s[i][1] \in Writers /\ s[i][2] \in Nat
  BY DEF PieceSeqs, Pieces

LEMMA NotAbove == \A x, y \in Nat : x <= y => ~(x > y)
  OBVIOUS

LogState == [kind : Kinds, files : FileSeqs, name : Nat, first : Nat, written : Nat, mem : PieceSeqs,
             lock : SUBSET Writers, pc : [Writers -> {"idle", "append", "write", "count"}], line : [Writers -> Pieces],
             now : Nat, open : BOOLEAN, halt : {"no", "assert", "overrun"}]
LogRef == [lines : [Writers -> Nat], wrote : PieceSeqs]

\* The open file is the last one, and named no later than now.
Opened(o) ==
  /\ o.name = Len(o.files) /\ o.name >= 1 /\ o.name <= o.now /\ o.first <= Len(o.files[o.name])
  /\ ~o.open => \A t \in Writers : o.pc[t] = "idle"

Holds(o) == \A t \in Writers : o.pc[t] \in {"write", "count"} => o.lock = {t}

LongerLine(size) == \E h \in Headers, b \in Bodies : h + b + 1 >= size

\* The line of a thread that is on its way is its last one, and none of it is written.
OnWay(o, r, t) ==
  /\ o.line[t][1] = t
  /\ o.pc[t] # "idle" => LongerLine(o.line[t][3])
  /\ o.pc[t] \in {"append", "write"} =>
       /\ o.line[t][2] = r.lines[t]
       /\ \A i \in 1 .. Len(r.wrote) : r.wrote[i][1] = t => r.wrote[i][2] < r.lines[t]

OnItsWay(o, r) == \A t \in Writers : OnWay(o, r, t)

InOrder(r) ==
  /\ \A i \in 1 .. Len(r.wrote) : r.wrote[i][2] <= r.lines[r.wrote[i][1]]
  /\ \A i, j \in 1 .. Len(r.wrote) : i < j /\ r.wrote[i][1] = r.wrote[j][1] => r.wrote[i][2] < r.wrote[j][2]

Counted(o) ==
  o.open =>
    /\ (\A t \in Writers : o.pc[t] # "count") => o.written = O!Bytes(O!Taken(o))
    /\ \A t \in Writers : o.pc[t] = "count" => o.written + o.line[t][3] = O!Bytes(O!Taken(o))

Bounded(o) ==
  IF o.kind = "mmap"
  THEN /\ \A t \in Writers : o.pc[t] = "write" => o.written = 0 \/ o.written + o.line[t][3] <= RotateSize
       /\ o.halt = "overrun" => LongerLine(RotateSize + 1)
  ELSE /\ o.written > RotateSize => LongerLine(o.written - RotateSize)
       /\ \A t \in Writers : o.pc[t] \in {"write", "count"} => o.written <= RotateSize
       /\ o.kind = "file" => o.written <= RotateSize
       /\ o.halt # "overrun"

LogOk(o, r) ==
  /\ o \in LogState /\ r \in LogRef
  /\ Opened(o) /\ Holds(o) /\ OnItsWay(o, r) /\ InOrder(r) /\ Counted(o) /\ Bounded(o)
  /\ O!Concatenated(o.files, r.wrote)
  /\ o.kind = "mmap" => r.wrote = <<>>

OInv == LogOk(obj, ref)

\* What the property states follows from the invariant of the log files.
LEMMA OInvAgrees == OInv => O!Agrees
<1> SUFFICES ASSUME OInv PROVE O!Agrees
  OBVIOUS
<1>1. /\ obj \in LogState /\ ref \in LogRef /\ Opened(obj) /\ Holds(obj) /\ InOrder(ref) /\ Counted(obj) /\ Bounded(obj)
      /\ O!Concatenated(obj.files, ref.wrote) /\ (obj.kind = "mmap" => ref.wrote = <<>>)
  BY DEF OInv, LogOk
<1>2. ref.wrote \in Seq(Pieces)
  BY <1>1 DEF LogRef, PieceSeqs
<1>3. \A i, j \in DOMAIN ref.wrote : i < j /\ ref.wrote[i][1] = ref.wrote[j][1] => ref.wrote[i][2] < ref.wrote[j][2]
  <2>1. DOMAIN ref.wrote = 1 .. Len(ref.wrote)
    BY <1>2
  <2> QED
    BY <1>1, <2>1 DEF InOrder
<1>4. obj.lock = {} /\ obj.open => obj.written = O!Bytes(O!Taken(obj))
  BY <1>1 DEF Holds, Counted
<1>5. obj.kind # "mmap" /\ obj.written > RotateSize => LongerLine(obj.written - RotateSize)
  BY <1>1 DEF Bounded
<1>6. obj.halt = "overrun" => LongerLine(RotateSize + 1)
  BY <1>1 DEF Bounded
<1> QED
  BY <1>1, <1>3, <1>4, <1>5, <1>6 DEF O!Agrees, LongerLine

\* The first file is open and empty.
LEMMA OInit == O!Init => OInv
<1> SUFFICES ASSUME O!Init PROVE OInv
  OBVIOUS
<1> USE LogOutputAssumption
<1>1. PICK k \in Kinds :
        obj = [kind |-> k, files |-> <<<<>>>>, name |-> 1, first |-> 0, written |-> 0, mem |-> <<>>,
               lock |-> {}, pc |-> [t \in Writers |-> "idle"], line |-> [t \in Writers |-> <<t, 0, 0>>],
               now |-> 1, open |-> TRUE, halt |-> "no"]
  BY Zenon DEF O!Init
<1>2. ref.lines = [t \in Writers |-> 0] /\ ref.wrote = <<>> /\ ref \in LogRef
  BY DEF O!Init, LogRef, PieceSeqs
<1>3. <<<<>>>> \in FileSeqs /\ <<>> \in PieceSeqs /\ Len(<<<<>>>>) = 1 /\ <<<<>>>>[1] = <<>> /\ Len(<<>>) = 0
  BY DEF FileSeqs, PieceSeqs
<1>4. [t \in Writers |-> <<t, 0, 0>>] \in [Writers -> Pieces]
  BY DEF Pieces
<1>5. obj \in LogState
  BY <1>1, <1>3, <1>4 DEF LogState
<1>6. /\ obj.files = <<<<>>>> /\ obj.name = 1 /\ obj.first = 0 /\ obj.written = 0 /\ obj.mem = <<>> /\ obj.now = 1 /\ obj.open
      /\ obj.halt = "no" /\ \A t \in Writers : obj.pc[t] = "idle" /\ obj.line[t][1] = t
  BY <1>1
<1>7. Opened(obj) /\ Holds(obj)
  BY <1>3, <1>6 DEF Opened, Holds
<1>8. OnItsWay(obj, ref) /\ InOrder(ref)
  BY <1>2, <1>3, <1>6 DEF OnItsWay, OnWay, InOrder
<1>9. Counted(obj)
  <2>1. O!Taken(obj) = <<>>
    BY <1>3, <1>6 DEF O!Taken
  <2> QED
    BY <1>6, <2>1, BytesEmpty DEF Counted
<1>10. Bounded(obj)
  BY <1>6 DEF Bounded
<1>11. O!Concatenated(obj.files, ref.wrote)
  <2> DEFINE start == [n \in 1 .. 2 |-> 0]
  <2>1. Len(obj.files) = 1 /\ Len(obj.files[1]) = 0 /\ Len(ref.wrote) = 0
    BY <1>2, <1>3, <1>6
  <2>2. start \in [1 .. Len(obj.files) + 1 -> 0 .. Len(ref.wrote)]
    BY <2>1
  <2>3. /\ start[1] = 0 /\ start[Len(obj.files) + 1] = Len(ref.wrote)
        /\ \A n \in 1 .. Len(obj.files) : /\ start[n + 1] = start[n] + Len(obj.files[n])
                                        /\ \A i \in 1 .. Len(obj.files[n]) : obj.files[n][i] = ref.wrote[start[n] + i]
    BY <2>1
  <2> HIDE DEF start
  <2> QED
    BY Zenon, <2>2, <2>3 DEF O!Concatenated
<1> QED
  BY <1>2, <1>5, <1>7, <1>8, <1>9, <1>10, <1>11 DEF OInv, LogOk

\* Appending to the last file appends to all of them.
LEMMA ConcatenatedAppend ==
  ASSUME NEW S, NEW files \in Seq(Seq(S)), NEW s \in Seq(S), NEW p \in S, Len(files) >= 1, O!Concatenated(files, s)
  PROVE O!Concatenated([files EXCEPT ![Len(files)] = Append(files[Len(files)], p)], Append(s, p))
<1> DEFINE k == Len(files)
           last == Append(files[k], p)
           more == [files EXCEPT ![k] = last]
           t == Append(s, p)
<1>1. k \in Nat /\ k >= 1 /\ Len(s) \in Nat /\ files[k] \in Seq(S)
  OBVIOUS
<1>2. /\ Len(t) = Len(s) + 1 /\ t[Len(s) + 1] = p /\ \A i \in 1 .. Len(s) : t[i] = s[i]
      /\ Len(last) = Len(files[k]) + 1 /\ last[Len(files[k]) + 1] = p /\ \A i \in 1 .. Len(files[k]) : last[i] = files[k][i]
  BY <1>1
<1>3. Len(more) = k /\ more[k] = last /\ \A n \in 1 .. k : n # k => more[n] = files[n]
  BY <1>1
<1>4. \A n \in 1 .. k : Len(files[n]) \in Nat
  OBVIOUS
<1>5. PICK start \in [1 .. k + 1 -> 0 .. Len(s)] :
        /\ start[1] = 0 /\ start[k + 1] = Len(s)
        /\ \A n \in 1 .. k : /\ start[n + 1] = start[n] + Len(files[n])
                             /\ \A i \in 1 .. Len(files[n]) : files[n][i] = s[start[n] + i]
  BY Zenon DEF O!Concatenated
<1> HIDE DEF k, last, more, t
<1> DEFINE st == [start EXCEPT ![k + 1] = Len(s) + 1]
<1>6. st \in [1 .. k + 1 -> 0 .. Len(s) + 1] /\ st[k + 1] = Len(s) + 1 /\ \A n \in 1 .. k : st[n] = start[n]
  BY <1>1
<1> HIDE DEF st
<1>7. \A n \in 1 .. k : start[n] \in Nat /\ start[n] + Len(files[n]) <= Len(s)
  <2> SUFFICES ASSUME NEW n \in 1 .. k PROVE start[n] \in Nat /\ start[n] + Len(files[n]) <= Len(s)
    OBVIOUS
  <2>1. n \in 1 .. k + 1 /\ n + 1 \in 1 .. k + 1
    BY <1>1
  <2>2. start[n] \in 0 .. Len(s) /\ start[n + 1] \in 0 .. Len(s)
    BY <1>5, <2>1, Zenon
  <2>3. start[n + 1] = start[n] + Len(files[n]) /\ Len(files[n]) \in Nat
    BY <1>4, <1>5, Zenon
  <2> QED
    BY <1>1, <2>2, <2>3
<1>8. \A n \in 1 .. k : /\ st[n + 1] = st[n] + Len(more[n])
                        /\ \A i \in 1 .. Len(more[n]) : more[n][i] = t[st[n] + i]
  <2>1. ASSUME NEW n \in 1 .. k, n # k
        PROVE st[n + 1] = st[n] + Len(more[n]) /\ \A i \in 1 .. Len(more[n]) : more[n][i] = t[st[n] + i]
    <3>1. n + 1 \in 1 .. k /\ more[n] = files[n]
      <4>1. n + 1 \in 1 .. k
        BY <1>1, <2>1
      <4> QED
        BY <1>3, <2>1, <4>1
    <3>2. st[n] = start[n] /\ st[n + 1] = start[n + 1]
      BY <1>6, <3>1
    <3>3. start[n] \in Nat /\ start[n] + Len(files[n]) <= Len(s) /\ Len(files[n]) \in Nat
      BY <1>4, <1>7
    <3>4. ASSUME NEW i \in 1 .. Len(files[n]) PROVE files[n][i] = t[start[n] + i]
      <4>1. start[n] + i \in 1 .. Len(s)
        <5>1. \A a, b, c \in Nat : a + b <= c => \A j \in 1 .. b : a + j \in 1 .. c
          OBVIOUS
        <5> QED
          BY <1>1, <3>3, <5>1, Zenon
      <4>2. files[n][i] = s[start[n] + i]
        BY <1>5
      <4> QED
        BY <1>2, <4>1, <4>2
    <3>5. start[n + 1] = start[n] + Len(files[n])
      BY <1>5
    <3> QED
      BY <3>1, <3>2, <3>4, <3>5
  <2>2. st[k + 1] = st[k] + Len(more[k]) /\ \A i \in 1 .. Len(more[k]) : more[k][i] = t[st[k] + i]
    <3>1. k \in 1 .. k /\ Len(files[k]) \in Nat /\ start[k] \in Nat
      BY <1>1, <1>4, <1>7
    <3>2. st[k] = start[k] /\ Len(s) = start[k] + Len(files[k])
      BY Zenon, <1>5, <1>6, <3>1
    <3>3. st[k + 1] = st[k] + Len(more[k])
      <4>1. Len(more[k]) = Len(files[k]) + 1
        BY <1>2, <1>3
      <4>2. st[k + 1] = Len(s) + 1
        BY <1>6
      <4> QED
        BY <3>1, <3>2, <4>1, <4>2
    <3>4. ASSUME NEW i \in 1 .. Len(files[k]) PROVE last[i] = t[start[k] + i]
      <4>1. start[k] + i \in 1 .. Len(s)
        BY <3>1, <3>2
      <4>2. files[k][i] = s[start[k] + i]
        BY <1>5, <3>1, Zenon
      <4> QED
        BY <1>2, <4>1, <4>2, Zenon
    <3>5. last[Len(files[k]) + 1] = t[start[k] + (Len(files[k]) + 1)]
      <4>1. start[k] + (Len(files[k]) + 1) = Len(s) + 1
        BY <3>1, <3>2
      <4> QED
        BY <1>2, <4>1
    <3>6. \A i \in 1 .. Len(files[k]) + 1 : i \in 1 .. Len(files[k]) \/ i = Len(files[k]) + 1
      BY <3>1, LastIndex, Zenon
    <3> QED
      BY <1>2, <1>3, <3>2, <3>3, <3>4, <3>5, <3>6, ZenonT(60)
  <2> QED
    BY <2>1, <2>2
<1>9. st[1] = 0
  BY <1>1, <1>5, <1>6
<1>10. O!Concatenated(more, t)
  <2>1. Len(more) = k /\ Len(t) = Len(s) + 1
    BY <1>2, <1>3
  <2>2. st \in [1 .. Len(more) + 1 -> 0 .. Len(t)] /\ st[Len(more) + 1] = Len(t)
    BY <1>6, <2>1
  <2> QED
    BY <1>8, <1>9, <2>1, <2>2, Zenon DEF O!Concatenated
<1> QED
  BY <1>10 DEF k, last, more, t

\* New files are empty.
LEMMA ConcatenatedOpen ==
  ASSUME NEW S, NEW files \in Seq(Seq(S)), NEW s \in Seq(S), NEW m \in Nat, m >= Len(files), O!Concatenated(files, s)
  PROVE O!Concatenated([n \in 1 .. m |-> IF n <= Len(files) THEN files[n] ELSE <<>>], s)
<1> DEFINE k == Len(files)
           more == [n \in 1 .. m |-> IF n <= k THEN files[n] ELSE <<>>]
<1>1. k \in Nat /\ Len(s) \in Nat /\ Len(<<>>) = 0 /\ k <= m
  OBVIOUS
<1>2. Len(more) = m /\ \A n \in 1 .. m : more[n] = IF n <= k THEN files[n] ELSE <<>>
  BY <1>1
<1>3. PICK start \in [1 .. k + 1 -> 0 .. Len(s)] :
        /\ start[1] = 0 /\ start[k + 1] = Len(s)
        /\ \A n \in 1 .. k : /\ start[n + 1] = start[n] + Len(files[n])
                             /\ \A i \in 1 .. Len(files[n]) : files[n][i] = s[start[n] + i]
  BY Zenon DEF O!Concatenated
<1> HIDE DEF k, more
<1> DEFINE st == [n \in 1 .. m + 1 |-> IF n <= k THEN start[n] ELSE Len(s)]
<1>4. st \in [1 .. m + 1 -> 0 .. Len(s)]
  BY <1>1
<1>5. \A n \in 1 .. m + 1 : st[n] = IF n <= k THEN start[n] ELSE Len(s)
  OBVIOUS
<1> HIDE DEF st
<1>6. \A n \in 1 .. m : st[n + 1] = st[n] + Len(more[n]) /\ \A i \in 1 .. Len(more[n]) : more[n][i] = s[st[n] + i]
  <2>1. ASSUME NEW n \in 1 .. m, n <= k
        PROVE st[n + 1] = st[n] + Len(more[n]) /\ \A i \in 1 .. Len(more[n]) : more[n][i] = s[st[n] + i]
    <3>1. n \in 1 .. k /\ n + 1 \in 1 .. m + 1 /\ n \in 1 .. m + 1 /\ (n + 1 <= k \/ n + 1 = k + 1)
      BY <1>1, <2>1
    <3>2. st[n + 1] = start[n + 1] /\ st[n] = start[n] /\ more[n] = files[n]
      BY <1>1, <1>2, <1>3, <1>5, <2>1, <3>1
    <3> QED
      BY <1>3, <3>1, <3>2
  <2>2. ASSUME NEW n \in 1 .. m, ~(n <= k)
        PROVE st[n + 1] = st[n] + Len(more[n]) /\ \A i \in 1 .. Len(more[n]) : more[n][i] = s[st[n] + i]
    <3>1. n + 1 \in 1 .. m + 1 /\ ~(n + 1 <= k) /\ n \in 1 .. m + 1
      BY <1>1, <2>2
    <3>2. st[n + 1] = Len(s) /\ st[n] = Len(s) /\ Len(more[n]) = 0
      BY <1>1, <1>2, <1>5, <2>2, <3>1
    <3> QED
      BY <1>1, <3>2
  <2> QED
    BY <2>1, <2>2
<1>7. st[1] = 0 /\ st[m + 1] = Len(s)
  <2>1. 1 \in 1 .. m + 1 /\ m + 1 \in 1 .. m + 1 /\ ~(m + 1 <= k)
    BY <1>1
  <2>2. 1 <= k \/ k + 1 = 1
    BY <1>1
  <2> QED
    BY <1>3, <1>5, <2>1, <2>2
<1>8. O!Concatenated(more, s)
  <2>1. Len(more) = m
    BY <1>2
  <2>2. st \in [1 .. Len(more) + 1 -> 0 .. Len(s)] /\ st[Len(more) + 1] = Len(s)
    BY <1>4, <1>7, <2>1
  <2> QED
    BY <1>6, <1>7, <2>1, <2>2, Zenon DEF O!Concatenated
<1> QED
  BY <1>8 DEF k, more

\* What a step leaves of the state, and the parts of the invariant that follow from that.
SameFiles(p, o) == p.files = o.files /\ p.name = o.name /\ p.first = o.first /\ p.mem = o.mem /\ p.kind = o.kind

\* What went into the open file depends on the files alone.
LEMMA TakenSame == ASSUME NEW o, NEW p, SameFiles(p, o) PROVE O!Taken(p) = O!Taken(o)
BY DEF SameFiles, O!Taken

\* A line stays on its way while its thread goes from append to write at most.
LEMMA OnWaySame ==
  ASSUME NEW o, NEW r, NEW p, NEW q, NEW u, OnWay(o, r, u), p.line[u] = o.line[u], q.lines[u] = r.lines[u], q.wrote = r.wrote,
         p.pc[u] = o.pc[u] \/ (p.pc[u] = "write" /\ o.pc[u] = "append")
  PROVE OnWay(p, q, u)
BY DEF OnWay

\* Lines stay on their way while no thread moves.
LEMMA OnItsWaySame ==
  ASSUME NEW o, NEW r, NEW p, OnItsWay(o, r), p.line = o.line, p.pc = o.pc
  PROVE OnItsWay(p, r)
BY OnWaySame DEF OnItsWay

\* A rotation: the open file is the last one again, and took nothing yet.
LEMMA ORotateFile ==
  ASSUME NEW o \in LogState, Opened(o), NEW s \in PieceSeqs, O!Concatenated(o.files, s), NEW p, p = O!RotateFile(o)
  PROVE  /\ p \in LogState /\ Opened(p) /\ O!Concatenated(p.files, s) /\ O!Taken(p) = <<>> /\ p.written = 0
         /\ p.kind = o.kind /\ p.lock = o.lock /\ p.pc = o.pc /\ p.line = o.line /\ p.open = o.open /\ p.halt = o.halt
<1> DEFINE k == Len(o.files)
           m == o.now
           files == [n \in 1 .. m |-> IF n <= k THEN o.files[n] ELSE <<>>]
           mem == IF o.kind = "mmap" THEN <<>> ELSE o.mem
<1>1. o.files \in FileSeqs /\ o.mem \in PieceSeqs /\ m \in Nat /\ o.name \in Nat
  BY DEF LogState
<1>2. k \in Nat /\ k >= 1 /\ m >= k /\ o.name = k /\ (~o.open => \A t \in Writers : o.pc[t] = "idle")
  BY <1>1 DEF Opened, FileSeqs
<1>3. files \in FileSeqs /\ Len(files) = m /\ mem \in PieceSeqs
  <2>1. \A n \in 1 .. m : (IF n <= k THEN o.files[n] ELSE <<>>) \in PieceSeqs
    <3>1. <<>> \in PieceSeqs
      BY DEF PieceSeqs
    <3>2. \A n \in 1 .. k : o.files[n] \in PieceSeqs
      BY <1>1 DEF FileSeqs
    <3> QED
      BY <1>1, <1>2, <3>1, <3>2
  <2>2. files \in [1 .. m -> PieceSeqs]
    BY <2>1
  <2>3. mem \in PieceSeqs
    BY <1>1 DEF PieceSeqs
  <2> HIDE DEF files
  <2> QED
    BY <1>1, <2>2, <2>3 DEF FileSeqs
<1>4. O!Concatenated(files, s)
  BY <1>1, <1>2, ConcatenatedOpen, Zenon DEF FileSeqs, PieceSeqs
<1>5. files[m] \in PieceSeqs /\ Len(files[m]) \in Nat
  <2>1. m \in 1 .. m
    BY <1>1, <1>2
  <2> HIDE DEF files
  <2>2. files[m] \in PieceSeqs
    BY <1>3, <2>1 DEF FileSeqs
  <2> QED
    BY <2>2 DEF PieceSeqs
<1>6. p = [o EXCEPT !.files = files, !.name = m, !.first = Len(files[m]), !.mem = mem, !.written = 0]
  <2> DEFINE q == [o EXCEPT !.files = files, !.name = m, !.first = Len(files[m])]
  <2>1. O!OpenFile(o) = q
    BY DEF O!OpenFile, O!MakeFilename
  <2> HIDE DEF files
  <2>2. CASE o.kind = "mmap"
    <3>1. p = [[q EXCEPT !.mem = <<>>] EXCEPT !.written = 0]
      BY <2>1, <2>2 DEF O!RotateFile, O!MakeMMap
    <3> QED
      BY <2>2, <3>1
  <2>3. CASE o.kind # "mmap"
    <3>1. p = [q EXCEPT !.written = 0]
      BY <2>1, <2>3 DEF O!RotateFile
    <3>2. q = [o EXCEPT !.files = files, !.name = m, !.first = Len(files[m]), !.mem = o.mem]
      BY Zenon DEF LogState
    <3> QED
      BY <2>3, <3>1, <3>2, Zenon
  <2> QED
    BY <2>2, <2>3
<1> HIDE DEF files, mem
<1>7. p \in LogState
  <2> DEFINE first == Len(files[m])
  <2>1. files \in FileSeqs /\ m \in Nat /\ first \in Nat /\ mem \in PieceSeqs
    BY <1>1, <1>3, <1>5
  <2> HIDE DEF first, m
  <2> DEFINE q == [o EXCEPT !.files = files, !.name = m]
             r == [q EXCEPT !.first = first, !.mem = mem]
  <2>2. p = [r EXCEPT !.written = 0]
    BY <1>6 DEF first, m
  <2>3. q \in LogState
    BY <2>1, Zenon DEF LogState
  <2> HIDE DEF q
  <2>4. r \in LogState
    BY <2>1, <2>3, Zenon DEF LogState
  <2> HIDE DEF r
  <2> QED
    BY <2>2, <2>4 DEF LogState
<1>8. /\ p.files = files /\ p.name = m /\ p.first = Len(files[m]) /\ p.mem = mem /\ p.written = 0 /\ p.now = m
      /\ p.kind = o.kind /\ p.lock = o.lock /\ p.pc = o.pc /\ p.line = o.line /\ p.open = o.open /\ p.halt = o.halt
  BY <1>6 DEF LogState
<1>9. Opened(p)
  BY <1>1, <1>2, <1>3, <1>5, <1>8 DEF Opened
<1>10. O!Taken(p) = <<>>
  <2>1. SubSeq(files[m], Len(files[m]) + 1, Len(files[m])) = <<>>
    BY <1>5 DEF PieceSeqs
  <2> QED
    BY <1>8, <2>1 DEF O!Taken, mem
<1> QED
  BY <1>4, <1>7, <1>8, <1>9, <1>10

\* The clock advances.
LEMMA OTick ==
  ASSUME OInv, O!Tick
  PROVE OInv'
<1>1. /\ obj \in LogState /\ ref \in LogRef /\ Opened(obj) /\ Holds(obj) /\ OnItsWay(obj, ref) /\ InOrder(ref) /\ Counted(obj)
      /\ Bounded(obj) /\ O!Concatenated(obj.files, ref.wrote) /\ (obj.kind = "mmap" => ref.wrote = <<>>)
  BY DEF OInv, LogOk
<1>2. obj' = [obj EXCEPT !.now = obj.now + 1] /\ ref' = ref
  BY DEF O!Tick
<1>3. obj' \in LogState /\ obj.now \in Nat /\ obj.name \in Nat
  BY <1>1, <1>2 DEF LogState
<1>4. /\ SameFiles(obj', obj) /\ obj'.now = obj.now + 1
      /\ obj'.written = obj.written /\ obj'.lock = obj.lock /\ obj'.pc = obj.pc /\ obj'.line = obj.line
      /\ obj'.open = obj.open /\ obj'.halt = obj.halt
  BY <1>1, <1>2 DEF LogState, SameFiles
<1>5. Opened(obj')
  BY <1>1, <1>3, <1>4 DEF Opened, SameFiles
<1>6. Holds(obj') /\ OnItsWay(obj', ref')
  BY <1>1, <1>2, <1>4, OnItsWaySame, Zenon DEF Holds
<1>7. Counted(obj')
  BY Zenon, <1>1, <1>4, TakenSame DEF Counted
<1>8. Bounded(obj')
  BY <1>1, <1>4 DEF Bounded, SameFiles
<1> QED
  BY <1>1, <1>2, <1>3, <1>4, <1>5, <1>6, <1>7, <1>8 DEF OInv, LogOk, SameFiles

\* The destructor; what was in the mapping is gone.
LEMMA OClose ==
  ASSUME OInv, O!Close
  PROVE OInv'
<1>1. /\ obj \in LogState /\ ref \in LogRef /\ Opened(obj) /\ Holds(obj) /\ OnItsWay(obj, ref) /\ InOrder(ref)
      /\ Bounded(obj) /\ O!Concatenated(obj.files, ref.wrote) /\ (obj.kind = "mmap" => ref.wrote = <<>>)
  BY DEF OInv, LogOk
<1>2. /\ obj' = [obj EXCEPT !.open = FALSE, !.mem = <<>>] /\ ref' = ref
      /\ \A t \in Writers : obj.pc[t] = "idle"
  BY DEF O!Close
<1>3. obj' \in LogState
  <2>1. <<>> \in PieceSeqs
    BY DEF PieceSeqs
  <2> QED
    BY <1>1, <1>2, <2>1, Zenon DEF LogState
<1>4. /\ obj'.files = obj.files /\ obj'.name = obj.name /\ obj'.first = obj.first /\ obj'.kind = obj.kind /\ obj'.now = obj.now
      /\ obj'.written = obj.written /\ obj'.lock = obj.lock /\ obj'.pc = obj.pc /\ obj'.line = obj.line
      /\ obj'.open = FALSE /\ obj'.halt = obj.halt
  BY <1>1, <1>2 DEF LogState
<1>5. Opened(obj') /\ Holds(obj') /\ OnItsWay(obj', ref')
  BY <1>1, <1>2, <1>4, OnItsWaySame, Zenon DEF Opened, Holds
<1>6. Counted(obj')
  BY <1>4 DEF Counted
<1>7. Bounded(obj')
  BY <1>1, <1>4 DEF Bounded
<1> QED
  BY <1>1, <1>2, <1>3, <1>4, <1>5, <1>6, <1>7 DEF OInv, LogOk

\* LogFormatter only shortens a line.
LEMMA OLineLength ==
  ASSUME NEW h \in Headers, NEW b \in Bodies
  PROVE O!LineLength(h, b) \in Nat /\ O!LineLength(h, b) <= h + b + 1
BY LogOutputAssumption DEF O!LineLength, O!FormatLine

\* A thread formats its next line.
LEMMA OLog ==
  ASSUME OInv, NEW t \in Writers, NEW h \in Headers, NEW b \in Bodies, O!Log(t, h, b)
  PROVE OInv'
<1> DEFINE len == O!LineLength(h, b)
           n == ref.lines[t] + 1
           to == IF obj.kind \in {"file", "mmap"} /\ len > MaxLog THEN "idle" ELSE "append"
<1>1. /\ obj \in LogState /\ ref \in LogRef /\ Opened(obj) /\ Holds(obj) /\ OnItsWay(obj, ref) /\ InOrder(ref) /\ Counted(obj)
      /\ Bounded(obj) /\ O!Concatenated(obj.files, ref.wrote) /\ (obj.kind = "mmap" => ref.wrote = <<>>)
  BY DEF OInv, LogOk
<1>2. /\ obj' = [obj EXCEPT !.line[t] = <<t, n, len>>, !.pc[t] = to] /\ ref' = [ref EXCEPT !.lines[t] = n]
      /\ obj.pc[t] = "idle" /\ obj.open
  BY DEF O!Log
<1>3. len \in Nat /\ LongerLine(len)
  BY OLineLength, LogOutputAssumption DEF LongerLine
<1>4. ref.lines \in [Writers -> Nat] /\ n \in Nat /\ ref.wrote \in PieceSeqs
  BY <1>1 DEF LogRef
<1>5. to \in {"idle", "append"}
  OBVIOUS
<1> HIDE DEF len, to
<1>6. <<t, n, len>> \in Pieces /\ <<t, n, len>>[1] = t /\ <<t, n, len>>[2] = n /\ <<t, n, len>>[3] = len
  BY <1>3, <1>4 DEF Pieces
<1> DEFINE new == <<t, n, len>>
<1> HIDE DEF n, new
<1>7. new \in Pieces /\ new[1] = t /\ new[2] = n /\ new[3] = len /\ obj' = [obj EXCEPT !.line[t] = new, !.pc[t] = to]
  BY <1>2, <1>6 DEF new
<1>8. obj' \in LogState
  BY <1>1, <1>5, <1>7, Zenon DEF LogState
<1>9. ref' \in LogRef /\ ref'.wrote = ref.wrote /\ \A u \in Writers : ref'.lines[u] = IF u = t THEN n ELSE ref.lines[u]
  BY <1>1, <1>2, <1>4, Zenon DEF LogRef
<1>10. /\ SameFiles(obj', obj) /\ obj'.now = obj.now /\ obj'.written = obj.written /\ obj'.lock = obj.lock
       /\ obj'.open = obj.open /\ obj'.halt = obj.halt
  BY <1>1, <1>7 DEF LogState, SameFiles
<1>11. \A u \in Writers : /\ obj'.pc[u] = IF u = t THEN to ELSE obj.pc[u]
                          /\ obj'.line[u] = IF u = t THEN new ELSE obj.line[u]
  BY <1>1, <1>7 DEF LogState
<1>12. Opened(obj') /\ Holds(obj')
  <2>1. Opened(obj')
    BY <1>1, <1>2, <1>10 DEF Opened, SameFiles
  <2>2. \A u \in Writers : obj'.pc[u] \in {"write", "count"} => obj'.pc[u] = obj.pc[u]
    BY <1>5, <1>11
  <2>3. \A u \in Writers : obj.pc[u] \in {"write", "count"} => obj.lock = {u}
    BY <1>1, Zenon DEF Holds
  <2>4. Holds(obj')
    BY <1>10, <2>2, <2>3, Zenon DEF Holds
  <2> QED
    BY <2>1, <2>4
<1>13. \A i \in 1 .. Len(ref.wrote) : ref.wrote[i][1] \in Writers /\ ref.wrote[i][2] \in Nat
  BY <1>4, PieceFacts, Zenon
<1>14. n = ref.lines[t] + 1 /\ ref.lines[t] \in Nat
  BY <1>4 DEF n
<1>15. InOrder(ref')
  <2>1. \A i \in 1 .. Len(ref.wrote) : ref.wrote[i][2] <= ref.lines[ref.wrote[i][1]]
    BY <1>1 DEF InOrder
  <2>2. ASSUME NEW i \in 1 .. Len(ref.wrote) PROVE ref.wrote[i][2] <= ref'.lines[ref.wrote[i][1]]
    <3>1. CASE ref.wrote[i][1] = t
      <4>1. ref.wrote[i][2] <= ref.lines[t] /\ ref'.lines[ref.wrote[i][1]] = n
        BY <1>9, <2>1, <3>1
      <4> QED
        BY <1>13, <1>14, <4>1
    <3>2. CASE ref.wrote[i][1] # t
      BY <1>9, <1>13, <2>1, <3>2
    <3> QED
      BY <3>1, <3>2
  <2> QED
    BY <1>1, <1>9, <2>2 DEF InOrder
<1>16. OnItsWay(obj', ref')
  <2> SUFFICES ASSUME NEW u \in Writers PROVE OnWay(obj', ref', u)
    BY DEF OnItsWay
  <2>1. CASE u = t
    <3>1. obj'.line[u] = new /\ ref'.lines[u] = n
      BY <1>9, <1>11, <2>1
    <3>2. ASSUME NEW i \in 1 .. Len(ref.wrote), ref.wrote[i][1] = t PROVE ref.wrote[i][2] < n
      <4>1. ref.wrote[i][2] <= ref.lines[t]
        BY Zenon, <1>1, <3>2 DEF InOrder
      <4> QED
        BY <1>13, <1>14, <4>1
    <3> QED
      BY <1>3, <1>7, <1>9, <2>1, <3>1, <3>2 DEF OnWay
  <2>2. CASE u # t
    <3>1. obj'.line[u] = obj.line[u] /\ obj'.pc[u] = obj.pc[u] /\ ref'.lines[u] = ref.lines[u]
      BY Zenon, <1>9, <1>11, <2>2
    <3> QED
      BY <1>1, <1>9, <3>1, OnWaySame DEF OnItsWay
  <2> QED
    BY <2>1, <2>2
<1>17. Counted(obj')
  <2>1. O!Taken(obj') = O!Taken(obj)
    BY <1>10, TakenSame
  <2>2. \A u \in Writers : (obj'.pc[u] = "count") <=> (obj.pc[u] = "count")
    BY <1>2, <1>5, <1>11
  <2>3. \A u \in Writers : obj'.pc[u] = "count" => obj'.line[u] = obj.line[u]
    BY Zenon, <1>5, <1>11
  <2> QED
    BY <1>1, <1>10, <2>1, <2>2, <2>3 DEF Counted
<1>18. Bounded(obj')
  <2>1. \A u \in Writers : obj'.pc[u] \in {"write", "count"} => obj'.pc[u] = obj.pc[u] /\ obj'.line[u] = obj.line[u]
    BY Zenon, <1>5, <1>11
  <2> QED
    BY <1>1, <1>10, <2>1 DEF Bounded, SameFiles
<1> QED
  BY Zenon, <1>1, <1>8, <1>9, <1>10, <1>12, <1>15, <1>16, <1>17, <1>18 DEF OInv, LogOk, SameFiles

\* Append takes the lock and rotates before a write.
LEMMA OLock ==
  ASSUME OInv, NEW t \in Writers, O!Lock(t)
  PROVE OInv'
<1> DEFINE o == [obj EXCEPT !.lock = {t}, !.pc[t] = "write"]
           full == O!Reached(o) \/ O!NoRoom(o, o.line[t][3])
<1>1. /\ obj \in LogState /\ ref \in LogRef /\ Opened(obj) /\ Holds(obj) /\ OnItsWay(obj, ref) /\ InOrder(ref) /\ Counted(obj)
      /\ Bounded(obj) /\ O!Concatenated(obj.files, ref.wrote) /\ (obj.kind = "mmap" => ref.wrote = <<>>)
  BY DEF OInv, LogOk
<1>2. /\ obj' = (IF full THEN O!RotateFile(o) ELSE o) /\ ref' = ref
      /\ obj.pc[t] = "append" /\ obj.lock = {}
  BY DEF O!Lock
<1>3. o \in LogState
  BY <1>1, Zenon DEF LogState
<1>4. /\ SameFiles(o, obj) /\ o.now = obj.now /\ o.written = obj.written /\ o.lock = {t} /\ o.line = obj.line
      /\ o.open = obj.open /\ o.halt = obj.halt /\ \A u \in Writers : o.pc[u] = IF u = t THEN "write" ELSE obj.pc[u]
  BY Zenon, <1>1 DEF LogState, SameFiles
<1> HIDE DEF o
<1>5. \A u \in Writers : u # t => o.pc[u] \notin {"write", "count"} /\ o.pc[u] = obj.pc[u]
  BY Zenon, <1>1, <1>2, <1>4 DEF Holds
<1>6. Opened(o) /\ O!Concatenated(o.files, ref.wrote) /\ ref.wrote \in PieceSeqs
  BY <1>1, <1>2, <1>4 DEF Opened, SameFiles, LogRef
<1>7. /\ obj' \in LogState /\ Opened(obj') /\ O!Concatenated(obj'.files, ref.wrote)
      /\ obj'.kind = o.kind /\ obj'.lock = o.lock /\ obj'.pc = o.pc /\ obj'.line = o.line /\ obj'.open = o.open /\ obj'.halt = o.halt
  <2>1. CASE full
    <3>1. obj' = O!RotateFile(o)
      BY <1>2, <2>1
    <3> QED
      BY <1>3, <1>6, <3>1, ORotateFile
  <2>2. CASE ~full
    <3>1. obj' = o
      BY <1>2, <2>2
    <3> QED
      BY <1>3, <1>6, <3>1
  <2> QED
    BY <2>1, <2>2
<1>8. Holds(obj')
  BY Zenon, <1>4, <1>5, <1>7 DEF Holds
<1>9. OnItsWay(obj', ref')
  <2> SUFFICES ASSUME NEW u \in Writers PROVE OnWay(obj', ref', u)
    BY DEF OnItsWay
  <2>1. obj'.line[u] = obj.line[u]
    BY Zenon, <1>4, <1>7
  <2>2. obj'.pc[u] = obj.pc[u] \/ (obj'.pc[u] = "write" /\ obj.pc[u] = "append")
    BY Zenon, <1>2, <1>4, <1>7
  <2> QED
    BY <1>1, <1>2, <2>1, <2>2, OnWaySame DEF OnItsWay
<1>10. (obj'.written = 0 /\ O!Taken(obj') = <<>>) \/ (~full /\ obj'.written = obj.written /\ O!Taken(obj') = O!Taken(obj))
  <2>1. CASE full
    <3>1. obj' = O!RotateFile(o)
      BY <1>2, <2>1
    <3> QED
      BY <1>3, <1>6, <3>1, ORotateFile
  <2>2. CASE ~full
    <3>1. obj' = o
      BY <1>2, <2>2
    <3> QED
      BY <1>4, <2>2, <3>1, TakenSame
  <2> QED
    BY <2>1, <2>2
<1>11. Counted(obj')
  <2>1. \A u \in Writers : obj'.pc[u] # "count"
    BY Zenon, <1>4, <1>5, <1>7
  <2>2. \A u \in Writers : obj.pc[u] # "count"
    BY Zenon, <1>1, <1>2 DEF Holds
  <2>3. obj'.open => obj'.written = O!Bytes(O!Taken(obj'))
    <3>1. obj.open => obj.written = O!Bytes(O!Taken(obj))
      BY <1>1, <2>2 DEF Counted
    <3> QED
      BY Zenon, <1>4, <1>7, <1>10, <3>1, BytesEmpty
  <2> QED
    BY <2>1, <2>3 DEF Counted
<1>12. Bounded(obj')
  <2>1. obj'.kind = obj.kind /\ obj'.halt = obj.halt /\ obj'.line = obj.line
    BY <1>4, <1>7 DEF SameFiles
  <2>2. \A u \in Writers : obj'.pc[u] \in {"write", "count"} => u = t
    BY Zenon, <1>5, <1>7
  <2>3. obj.written \in Nat /\ obj'.written \in Nat /\ RotateSize \in Nat /\ obj.line[t][3] \in Nat
    BY <1>1, <1>7, LogOutputAssumption DEF LogState, Pieces
  <2>4. CASE obj.kind = "mmap"
    <3>1. obj'.written = 0 \/ obj'.written + obj.line[t][3] <= RotateSize
      <4>1. obj'.written = 0 \/ (~(obj.written + obj.line[t][3] > RotateSize) /\ obj'.written = obj.written)
        BY <1>4, <1>10, <2>4 DEF O!NoRoom, SameFiles
      <4> QED
        BY <2>3, <4>1
    <3>2. obj'.halt = "overrun" => LongerLine(RotateSize + 1)
      BY <1>1, <2>1, <2>4 DEF Bounded
    <3> QED
      BY <2>1, <2>2, <2>4, <3>1, <3>2 DEF Bounded
  <2>5. CASE obj.kind # "mmap"
    <3>1. /\ obj.written > RotateSize => LongerLine(obj.written - RotateSize)
          /\ obj.kind = "file" => obj.written <= RotateSize
          /\ obj.halt # "overrun"
      BY <1>1, <2>5 DEF Bounded
    <3>2. obj'.written = 0 \/ (obj'.written = obj.written /\ (obj.kind \in {"cfile", "fd"} => ~(obj.written >= RotateSize)))
      BY <1>4, <1>10 DEF O!Reached, SameFiles
    <3>3. obj.kind \in {"cfile", "fd"} \/ obj.kind = "file"
      BY <1>1, <2>5, LogOutputAssumption, Zenon DEF LogState
    <3>4. obj'.written <= RotateSize
      BY <2>3, <3>1, <3>2, <3>3
    <3>5. ~(obj'.written > RotateSize)
      BY <2>3, <3>4, NotAbove, Zenon
    <3> QED
      BY Zenon, <2>1, <2>5, <3>1, <3>4, <3>5 DEF Bounded
  <2> QED
    BY <2>4, <2>5
<1> QED
  BY Zenon, <1>1, <1>2, <1>4, <1>7, <1>8, <1>9, <1>11, <1>12 DEF OInv, LogOk, SameFiles

\* The bytes are counted, and LogFile rotates.
LEMMA OCount ==
  ASSUME OInv, NEW t \in Writers, O!Count(t)
  PROVE OInv'
<1> DEFINE len == obj.line[t][3]
           none == <<t, 0, 0>>
           o == [obj EXCEPT !.written = obj.written + len, !.line[t] = none, !.pc[t] = "idle", !.lock = {}]
<1>1. /\ obj \in LogState /\ ref \in LogRef /\ Opened(obj) /\ Holds(obj) /\ OnItsWay(obj, ref) /\ InOrder(ref) /\ Counted(obj)
      /\ Bounded(obj) /\ O!Concatenated(obj.files, ref.wrote) /\ (obj.kind = "mmap" => ref.wrote = <<>>)
  BY DEF OInv, LogOk
<1>2. obj' = (IF O!Exceeded(o) THEN O!RotateFile(o) ELSE o) /\ ref' = ref /\ obj.pc[t] = "count"
  BY DEF O!Count
<1>3. none \in Pieces /\ none[1] = t
  BY Zenon DEF Pieces
<1>4. obj.written \in Nat /\ len \in Nat /\ obj.written + len \in Nat
  BY <1>1 DEF LogState, Pieces
<1> HIDE DEF none, len
<1>5. o \in LogState
  BY <1>1, <1>3, <1>4, Zenon DEF LogState
<1>6. /\ SameFiles(o, obj) /\ o.now = obj.now /\ o.written = obj.written + len /\ o.lock = {}
      /\ o.open = obj.open /\ o.halt = obj.halt
      /\ \A u \in Writers : /\ o.pc[u] = IF u = t THEN "idle" ELSE obj.pc[u]
                            /\ o.line[u] = IF u = t THEN none ELSE obj.line[u]
  BY Zenon, <1>1, <1>3, <1>4 DEF LogState, SameFiles
<1> HIDE DEF o
<1>7. \A u \in Writers : o.pc[u] \notin {"write", "count"}
  <2>1. \A u \in Writers : u # t => obj.pc[u] \notin {"write", "count"}
    BY Zenon, <1>1, <1>2 DEF Holds
  <2> QED
    BY Zenon, <1>6, <2>1
<1>8. Opened(o) /\ O!Concatenated(o.files, ref.wrote) /\ ref.wrote \in PieceSeqs /\ obj.open
  BY <1>1, <1>2, <1>6 DEF Opened, SameFiles, LogRef
<1>9. /\ obj' \in LogState /\ Opened(obj') /\ O!Concatenated(obj'.files, ref.wrote)
      /\ obj'.kind = o.kind /\ obj'.lock = o.lock /\ obj'.pc = o.pc /\ obj'.line = o.line /\ obj'.open = o.open /\ obj'.halt = o.halt
      /\ \/ obj'.written = 0 /\ O!Taken(obj') = <<>>
         \/ ~O!Exceeded(o) /\ obj'.written = o.written /\ O!Taken(obj') = O!Taken(obj)
  <2>1. CASE O!Exceeded(o)
    <3>1. obj' = O!RotateFile(o)
      BY <1>2, <2>1
    <3> QED
      BY <1>5, <1>8, <3>1, ORotateFile
  <2>2. CASE ~O!Exceeded(o)
    <3>1. obj' = o
      BY <1>2, <2>2
    <3> QED
      BY <1>5, <1>6, <1>8, <2>2, <3>1, TakenSame, Zenon
  <2> QED
    BY <2>1, <2>2
<1>10. Holds(obj')
  BY <1>7, <1>9 DEF Holds
<1>11. OnItsWay(obj', ref')
  <2> SUFFICES ASSUME NEW u \in Writers PROVE OnWay(obj', ref', u)
    BY DEF OnItsWay
  <2>1. CASE u = t
    BY ZenonT(60), <1>3, <1>6, <1>9, <2>1 DEF OnWay
  <2>2. CASE u # t
    <3>1. obj'.line[u] = obj.line[u] /\ obj'.pc[u] = obj.pc[u]
      BY <1>6, <1>9, <2>2
    <3> QED
      BY Zenon, <1>1, <1>2, <3>1, OnWaySame DEF OnItsWay
  <2> QED
    BY Zenon, <2>1, <2>2
<1>12. Counted(obj')
  <2>1. o.written = O!Bytes(O!Taken(obj))
    BY Zenon, <1>1, <1>2, <1>6, <1>8 DEF Counted, len
  <2>2. obj'.written = O!Bytes(O!Taken(obj'))
    BY Zenon, <1>9, <2>1, BytesEmpty
  <2> QED
    BY Zenon, <1>7, <1>9, <2>2 DEF Counted
<1>13. Bounded(obj')
  <2>1. obj'.kind = obj.kind /\ obj'.halt = obj.halt /\ \A u \in Writers : obj'.pc[u] \notin {"write", "count"}
    BY Zenon, <1>6, <1>7, <1>9 DEF SameFiles
  <2>2. RotateSize \in Nat /\ obj'.written \in Nat
    BY <1>9, LogOutputAssumption DEF LogState
  <2>3. CASE obj.kind = "mmap"
    <3>1. obj'.halt = "overrun" => LongerLine(RotateSize + 1)
      BY <1>1, <2>1, <2>3 DEF Bounded
    <3> QED
      BY Zenon, <2>1, <2>3, <3>1 DEF Bounded
  <2>4. CASE obj.kind # "mmap"
    <3>1. obj.written <= RotateSize /\ obj.halt # "overrun"
      BY <1>1, <1>2, <2>4 DEF Bounded
    <3>2. obj'.written = 0 \/ (obj'.written = obj.written + len /\ (obj.kind = "file" => ~(obj'.written > RotateSize)))
      BY <1>6, <1>9 DEF O!Exceeded, SameFiles
    <3>3. obj.kind = "file" => obj'.written <= RotateSize
      BY <2>2, <3>2
    <3>4. ASSUME obj'.written > RotateSize PROVE LongerLine(obj'.written - RotateSize)
      <4>1. LongerLine(len)
        BY <1>1, <1>2 DEF OnItsWay, OnWay, len
      <4>2. PICK h \in Headers, b \in Bodies : h + b + 1 >= len
        BY <4>1 DEF LongerLine
      <4>3. len >= obj'.written - RotateSize
        BY <1>4, <2>2, <3>1, <3>2, <3>4
      <4>4. h \in Nat /\ b \in Nat
        BY LogOutputAssumption
      <4>5. h + b + 1 >= obj'.written - RotateSize
        BY <1>4, <2>2, <4>2, <4>3, <4>4
      <4> QED
        BY Zenon, <4>5 DEF LongerLine
    <3> QED
      BY Zenon, <2>1, <2>4, <3>1, <3>3, <3>4 DEF Bounded
  <2> QED
    BY <2>3, <2>4
<1> QED
  BY <1>1, <1>2, <1>6, <1>9, <1>10, <1>11, <1>12, <1>13 DEF OInv, LogOk, SameFiles

\* BytesAppend for the pieces of a file.
LEMMA BytesMore == ASSUME NEW s \in PieceSeqs, NEW p \in Pieces PROVE O!Bytes(Append(s, p)) = O!Bytes(s) + p[3]
BY BytesAppend DEF PieceSeqs

\* The destination of p is that of o and one piece more.
AddsTo(p, o, piece) ==
  /\ p.kind = o.kind
  /\ \/ o.kind = "mmap" /\ p.mem = Append(o.mem, piece)
     \/ /\ o.kind # "mmap" /\ p.first = o.first /\ p.name = o.name
        /\ p.files = [o.files EXCEPT ![o.name] = Append(o.files[o.name], piece)]

\* A piece that is added to the open file is added to what went into it.
LEMMA TakenAppend ==
  ASSUME NEW o \in LogState, Opened(o), NEW p, NEW piece \in Pieces, AddsTo(p, o, piece)
  PROVE O!Taken(o) \in PieceSeqs /\ O!Taken(p) = Append(O!Taken(o), piece)
<1>1. o.files \in FileSeqs /\ o.mem \in PieceSeqs /\ o.name \in Nat /\ o.first \in Nat
  BY DEF LogState
<1>2. CASE o.kind = "mmap"
  BY <1>1, <1>2 DEF O!Taken, AddsTo
<1>3. CASE o.kind # "mmap"
  <2> DEFINE f == o.files[o.name]
             n == Len(f)
             k == o.first
  <2>1. o.name \in 1 .. Len(o.files)
    BY <1>1 DEF Opened, FileSeqs
  <2>2. f \in PieceSeqs
    BY <1>1, <2>1 DEF FileSeqs
  <2>3. n \in Nat /\ k \in Nat /\ k <= n
    BY <1>1, <2>2 DEF PieceSeqs, Opened
  <2>4. p.files[o.name] = Append(f, piece)
    BY <1>1, <1>3, <2>1 DEF FileSeqs, AddsTo
  <2>5. O!Taken(o) = SubSeq(f, k + 1, n)
    BY <1>3, Zenon DEF O!Taken
  <2>6. O!Taken(p) = SubSeq(Append(f, piece), k + 1, Len(Append(f, piece)))
    BY <1>3, <2>4, Zenon DEF O!Taken, AddsTo
  <2> HIDE DEF f, n, k
  <2>7. Len(Append(f, piece)) = n + 1 /\ Append(f, piece)[n + 1] = piece /\ \A i \in 1 .. n : Append(f, piece)[i] = f[i]
    BY <2>2 DEF n, PieceSeqs
  <2> DEFINE s == SubSeq(f, k + 1, n)
             u == Append(f, piece)
             v == SubSeq(u, k + 1, n + 1)
  <2>8. s \in PieceSeqs /\ Len(s) = n - k /\ \A i \in 1 .. n - k : s[i] = f[k + i]
    BY <2>2, <2>3 DEF PieceSeqs, n
  <2>9. u \in PieceSeqs
    BY <2>2 DEF PieceSeqs
  <2>10. Len(u) = n + 1
    BY <2>7
  <2> HIDE DEF u
  <2>11. v \in PieceSeqs /\ Len(v) = n + 1 - k /\ \A i \in 1 .. n + 1 - k : v[i] = u[k + i]
    BY <2>3, <2>9, <2>10 DEF PieceSeqs
  <2> HIDE DEF s, v
  <2>12. Append(s, piece) \in PieceSeqs /\ Len(Append(s, piece)) = n - k + 1 /\ Append(s, piece)[n - k + 1] = piece
         /\ \A i \in 1 .. n - k : Append(s, piece)[i] = s[i]
    BY <2>3, <2>8 DEF PieceSeqs
  <2>13. ASSUME NEW i \in 1 .. n + 1 - k PROVE v[i] = Append(s, piece)[i]
    <3>1. CASE i \in 1 .. n - k
      <4>1. k + i \in 1 .. n /\ i \in 1 .. n - k
        BY <2>3, <3>1
      <4>2. v[i] = u[k + i] /\ u[k + i] = f[k + i] /\ s[i] = f[k + i] /\ Append(s, piece)[i] = s[i]
        BY <2>7, <2>8, <2>11, <2>12, <4>1, Zenon DEF u
      <4> QED
        BY <4>2, Zenon
    <3>2. CASE i = n + 1 - k
      <4>1. k + i = n + 1 /\ i = n - k + 1
        BY <2>3, <3>2
      <4> QED
        BY <2>7, <2>11, <2>12, <4>1 DEF u
    <3>3. i \in 1 .. n - k \/ i = n + 1 - k
      BY <2>3
    <3> QED
      BY <3>1, <3>2, <3>3, Zenon
  <2>14. v = Append(s, piece)
    <3>1. Len(v) = Len(Append(s, piece)) /\ \A i \in 1 .. Len(v) : v[i] = Append(s, piece)[i]
      BY <2>3, <2>11, <2>12, <2>13
    <3> DEFINE w == Append(s, piece)
    <3>2. w \in PieceSeqs
      BY Zenon, <2>12
    <3> HIDE DEF w
    <3> QED
      BY <2>11, <3>1, <3>2 DEF PieceSeqs, w
  <2> QED
    BY <2>5, <2>6, <2>7, <2>8, <2>14, Zenon DEF s, u, v
<1> QED
  BY <1>2, <1>3

\* A step that writes n bytes of the line of t, piece, and what it leaves of the rest.
Wrote(t, n, piece) ==
  /\ obj.pc[t] = "write" /\ n <= obj.line[t][3] /\ piece = <<obj.line[t][1], obj.line[t][2], n>>
  /\ obj'.kind = obj.kind /\ obj'.lock = obj.lock /\ obj'.open = obj.open /\ obj'.written = obj.written
  /\ \A u \in Writers : /\ obj'.pc[u] = IF u = t THEN "count" ELSE obj.pc[u]
                        /\ obj'.line[u] = IF u = t THEN piece ELSE obj.line[u]
  /\ ref' = ref \/ ref' = [ref EXCEPT !.wrote = Append(ref.wrote, piece)]
  /\ \/ n = 0 /\ O!Taken(obj') = O!Taken(obj)
     \/ O!Taken(obj) \in PieceSeqs /\ O!Taken(obj') = Append(O!Taken(obj), piece)

\* The parts of the invariant that do not depend on where the line went.
LEMMA OWritten ==
  ASSUME OInv, NEW t \in Writers, NEW n \in Nat, NEW piece, Wrote(t, n, piece)
  PROVE ref' \in LogRef /\ Holds(obj') /\ OnItsWay(obj', ref') /\ InOrder(ref') /\ Counted(obj')
<1>0. /\ obj.pc[t] = "write" /\ n <= obj.line[t][3] /\ piece = <<obj.line[t][1], obj.line[t][2], n>>
      /\ obj'.kind = obj.kind /\ obj'.lock = obj.lock /\ obj'.open = obj.open /\ obj'.written = obj.written
      /\ \A u \in Writers : /\ obj'.pc[u] = IF u = t THEN "count" ELSE obj.pc[u]
                            /\ obj'.line[u] = IF u = t THEN piece ELSE obj.line[u]
  BY DEF Wrote
<1>0a. ref' = ref \/ ref' = [ref EXCEPT !.wrote = Append(ref.wrote, piece)]
  BY DEF Wrote
<1>0b. \/ n = 0 /\ O!Taken(obj') = O!Taken(obj)
       \/ O!Taken(obj) \in PieceSeqs /\ O!Taken(obj') = Append(O!Taken(obj), piece)
  BY DEF Wrote
<1>1. /\ obj \in LogState /\ ref \in LogRef /\ Opened(obj) /\ Holds(obj) /\ OnItsWay(obj, ref) /\ InOrder(ref) /\ Counted(obj)
  BY Zenon DEF OInv, LogOk
<1>2. obj.line[t] \in Pieces /\ obj.line[t][1] = t /\ obj.line[t][2] = ref.lines[t] /\ obj.written \in Nat /\ obj.line[t][3] \in Nat
  BY Zenon, <1>0, <1>1 DEF LogState, OnItsWay, OnWay, Pieces
<1>3. piece \in Pieces /\ piece[1] = t /\ piece[2] = ref.lines[t] /\ piece[3] = n
  BY <1>0, <1>2 DEF Pieces
<1>4. ref.lines \in [Writers -> Nat] /\ ref.wrote \in PieceSeqs
  BY <1>1 DEF LogRef
<1>5. ref' \in LogRef /\ ref'.lines = ref.lines /\ (ref'.wrote = ref.wrote \/ ref'.wrote = Append(ref.wrote, piece))
  <2>1. Append(ref.wrote, piece) \in PieceSeqs
    BY <1>3, <1>4 DEF PieceSeqs
  <2> QED
    BY <1>0a, <1>1, <2>1, Zenon DEF LogRef
<1> DEFINE k == Len(ref.wrote)
<1>6. k \in Nat /\ \A i \in 1 .. k : ref.wrote[i][1] \in Writers /\ ref.wrote[i][2] \in Nat
  <2>1. k \in Nat /\ \A i \in 1 .. k : ref.wrote[i] \in Pieces
    BY <1>4 DEF PieceSeqs
  <2> QED
    BY <2>1 DEF Pieces
<1>7. /\ Len(ref'.wrote) \in k .. k + 1 /\ \A i \in 1 .. k : ref'.wrote[i] = ref.wrote[i]
      /\ Len(ref'.wrote) = k + 1 => ref'.wrote[k + 1] = piece
  <2>1. CASE ref'.wrote = ref.wrote
    BY <1>6, <2>1
  <2>2. CASE ref'.wrote = Append(ref.wrote, piece)
    BY <1>4, <1>6, <2>2 DEF PieceSeqs
  <2> QED
    BY <1>5, <2>1, <2>2
<1> HIDE DEF k
<1>8. \A i \in 1 .. Len(ref'.wrote) : i \in 1 .. k \/ (i = k + 1 /\ ref'.wrote[i] = piece)
  BY <1>6, <1>7
<1>9. \A u \in Writers : u # t => obj.pc[u] \notin {"write", "count"}
  BY Zenon, <1>0, <1>1 DEF Holds
<1>10. Holds(obj')
  BY Zenon, <1>0, <1>1, <1>9 DEF Holds
<1>11. \A i \in 1 .. k : ref.wrote[i][1] = t => ref.wrote[i][2] < ref.lines[t]
  BY Zenon, <1>0, <1>1 DEF OnItsWay, OnWay, k
<1>12. InOrder(ref')
  <2>1. ASSUME NEW i \in 1 .. Len(ref'.wrote) PROVE ref'.wrote[i][2] <= ref'.lines[ref'.wrote[i][1]]
    <3>1. CASE i \in 1 .. k
      BY Zenon, <1>1, <1>5, <1>7, <3>1 DEF InOrder, k
    <3>2. CASE ref'.wrote[i] = piece
      BY <1>3, <1>4, <1>5, <3>2
    <3> QED
      BY Zenon, <1>8, <3>1, <3>2
  <2>2. ASSUME NEW i \in 1 .. Len(ref'.wrote), NEW j \in 1 .. Len(ref'.wrote), i < j, ref'.wrote[i][1] = ref'.wrote[j][1]
        PROVE ref'.wrote[i][2] < ref'.wrote[j][2]
    <3>1. i \in 1 .. k
      BY <1>6, <1>7, <2>2
    <3>2. CASE j \in 1 .. k
      BY Zenon, <1>1, <1>7, <2>2, <3>1, <3>2 DEF InOrder, k
    <3>3. CASE ref'.wrote[j] = piece
      <4>1. ref.wrote[i][1] = t /\ ref'.wrote[j][2] = ref.lines[t]
        BY <1>3, <1>7, <2>2, <3>1, <3>3
      <4> QED
        BY <1>7, <1>11, <3>1, <4>1
    <3> QED
      BY <1>8, <3>2, <3>3
  <2> QED
    BY <2>1, <2>2 DEF InOrder
<1>13. OnItsWay(obj', ref')
  <2> SUFFICES ASSUME NEW u \in Writers PROVE OnWay(obj', ref', u)
    BY DEF OnItsWay
  <2>1. CASE u = t
    <3>1. LongerLine(n)
      <4>1. LongerLine(obj.line[t][3])
        BY <1>0, <1>1 DEF OnItsWay, OnWay
      <4>2. PICK h \in Headers, b \in Bodies : h + b + 1 >= obj.line[t][3]
        BY <4>1 DEF LongerLine
      <4>3. h + b + 1 >= n
        BY <1>0, <1>2, <4>2, LogOutputAssumption
      <4> QED
        BY Zenon, <4>3 DEF LongerLine
    <3>2. obj'.line[u] = piece /\ obj'.pc[u] = "count"
      BY Zenon, <1>0, <2>1
    <3> QED
      BY <1>3, <2>1, <3>1, <3>2 DEF OnWay
  <2>2. CASE u # t
    <3>1. obj'.line[u] = obj.line[u] /\ obj'.pc[u] = obj.pc[u]
      BY Zenon, <1>0, <2>2
    <3>2. \A i \in 1 .. Len(ref'.wrote) : ref'.wrote[i][1] = u => i \in 1 .. k
      BY <1>3, <1>8, <2>2
    <3> QED
      BY ZenonT(60), <1>1, <1>5, <1>7, <3>1, <3>2 DEF OnItsWay, OnWay, k
  <2> QED
    BY <2>1, <2>2
<1>14. Counted(obj')
  <2>1. \A u \in Writers : obj.pc[u] # "count"
    BY Zenon, <1>0, <1>9
  <2>2. obj.open => obj.written = O!Bytes(O!Taken(obj))
    BY <1>1, <2>1 DEF Counted
  <2>3. obj.open => obj.written + n = O!Bytes(O!Taken(obj'))
    <3>1. CASE n = 0 /\ O!Taken(obj') = O!Taken(obj)
      BY <1>2, <2>2, <3>1
    <3>2. CASE O!Taken(obj) \in PieceSeqs /\ O!Taken(obj') = Append(O!Taken(obj), piece)
      <4>1. O!Bytes(O!Taken(obj')) = O!Bytes(O!Taken(obj)) + n
        <5>1. O!Bytes(Append(O!Taken(obj), piece)) = O!Bytes(O!Taken(obj)) + piece[3]
          BY <1>3, <3>2, BytesMore, Zenon
        <5> QED
          BY <1>3, <3>2, <5>1, Zenon
      <4> QED
        BY <2>2, <4>1
    <3> QED
      BY <1>0b, <3>1, <3>2
  <2>4. \A u \in Writers : obj'.pc[u] = "count" => u = t /\ obj'.line[u][3] = n
    BY <1>0, <1>3, <1>9
  <2>5. obj'.pc[t] = "count"
    BY <1>0
  <2> QED
    BY Zenon, <1>0, <2>3, <2>4, <2>5 DEF Counted
<1> QED
  BY <1>3, <1>5, <1>10, <1>12, <1>13, <1>14

\* A write that is whole, short or fails, and a copy into the mapping.
LEMMA OWrite ==
  ASSUME OInv, NEW t \in Writers, NEW n \in {0, 1, obj.line[t][3]}, O!Write(t, n)
  PROVE OInv'
<1> DEFINE line == obj.line[t]
           piece == <<line[1], line[2], n>>
           o == [obj EXCEPT !.pc[t] = "count", !.line[t] = piece]
<1>1. /\ obj \in LogState /\ ref \in LogRef /\ Opened(obj) /\ Holds(obj) /\ OnItsWay(obj, ref) /\ InOrder(ref) /\ Counted(obj)
      /\ Bounded(obj) /\ O!Concatenated(obj.files, ref.wrote) /\ (obj.kind = "mmap" => ref.wrote = <<>>)
  BY DEF OInv, LogOk
<1>2. obj.pc[t] = "write" /\ obj.open
  BY <1>1 DEF O!Write, Opened
<1>3. n \in Nat /\ line \in Pieces /\ line[3] \in Nat /\ RotateSize \in Nat /\ obj.written \in Nat
  BY <1>1, LogOutputAssumption DEF LogState, Pieces
<1>4. piece \in Pieces /\ piece = <<obj.line[t][1], obj.line[t][2], n>>
  BY <1>3 DEF Pieces
<1>5. CASE obj.kind = "mmap" /\ obj.written + n > RotateSize
  <2>1. n = line[3] /\ obj' = [obj EXCEPT !.halt = "overrun"] /\ ref' = ref
    BY <1>5 DEF O!Write
  <2>2. obj' \in LogState
    BY <1>1, <2>1 DEF LogState
  <2>3. /\ SameFiles(obj', obj) /\ obj'.now = obj.now /\ obj'.written = obj.written /\ obj'.lock = obj.lock /\ obj'.pc = obj.pc
        /\ obj'.line = obj.line /\ obj'.open = obj.open /\ obj'.halt = "overrun"
    BY <1>1, <2>1 DEF LogState, SameFiles
  <2>4. Opened(obj') /\ Holds(obj') /\ OnItsWay(obj', ref')
    BY <1>1, <2>1, <2>3, OnItsWaySame, Zenon DEF Opened, Holds, SameFiles
  <2>5. Counted(obj')
    BY <1>1, <2>3, TakenSame, Zenon DEF Counted
  <2>6. LongerLine(RotateSize + 1)
    <3>1. obj.written = 0 \/ obj.written + line[3] <= RotateSize
      BY <1>1, <1>2, <1>5 DEF Bounded
    <3>2. n >= RotateSize + 1
      BY <1>3, <1>5, <2>1, <3>1
    <3>3. LongerLine(n)
      BY <1>1, <1>2, <2>1 DEF OnItsWay, OnWay
    <3>4. PICK h \in Headers, b \in Bodies : h + b + 1 >= n
      BY <3>3 DEF LongerLine
    <3>5. h + b + 1 >= RotateSize + 1
      BY <1>3, <3>2, <3>4, LogOutputAssumption
    <3> QED
      BY Zenon, <3>5 DEF LongerLine
  <2>7. Bounded(obj')
    <3>1. obj'.kind = "mmap" /\ \A u \in Writers : obj.pc[u] = "write" => obj.written = 0 \/ obj.written + obj.line[u][3] <= RotateSize
      BY <1>1, <1>5, <2>3 DEF Bounded, SameFiles
    <3> QED
      BY Zenon, <2>3, <2>6, <3>1 DEF Bounded
  <2> QED
    BY <1>1, <2>1, <2>2, <2>3, <2>4, <2>5, <2>7 DEF OInv, LogOk, SameFiles
<1>6. CASE obj.kind = "mmap" /\ ~(obj.written + n > RotateSize)
  <2>1. n = line[3] /\ obj' = [o EXCEPT !.mem = Append(o.mem, piece)] /\ ref' = ref
    BY Zenon, <1>6 DEF O!Write
  <2> HIDE DEF piece
  <2>2. obj.mem \in PieceSeqs
    BY <1>1 DEF LogState
  <2>3. o \in LogState
    BY <1>1, <1>4, Zenon DEF LogState
  <2>4. o.mem = obj.mem
    BY <1>1 DEF LogState
  <2>5. Append(obj.mem, piece) \in PieceSeqs
    BY <1>4, <2>2 DEF PieceSeqs
  <2>6. obj' \in LogState
    <3> HIDE DEF o
    <3> QED
      BY <2>1, <2>3, <2>4, <2>5, Zenon DEF LogState
  <2>7. /\ obj'.kind = obj.kind /\ obj'.files = obj.files /\ obj'.name = obj.name /\ obj'.first = obj.first /\ obj'.now = obj.now
        /\ obj'.written = obj.written /\ obj'.lock = obj.lock /\ obj'.open = obj.open /\ obj'.halt = obj.halt
        /\ obj'.mem = Append(obj.mem, piece)
        /\ \A u \in Writers : /\ obj'.pc[u] = IF u = t THEN "count" ELSE obj.pc[u]
                              /\ obj'.line[u] = IF u = t THEN piece ELSE obj.line[u]
    BY Zenon, <1>1, <2>1 DEF LogState
  <2>8. O!Taken(obj) \in PieceSeqs /\ O!Taken(obj') = Append(O!Taken(obj), piece)
    <3>1. AddsTo(obj', obj, piece)
      BY <1>6, <2>7 DEF AddsTo
    <3> QED
      BY Zenon, <1>1, <1>4, <3>1, TakenAppend
  <2>9. n <= line[3]
    BY <1>3, <2>1
  <2>10. Holds(obj') /\ OnItsWay(obj', ref') /\ InOrder(ref') /\ Counted(obj')
    <3>1. Wrote(t, n, piece)
      BY <1>2, <1>4, <2>1, <2>7, <2>8, <2>9, ZenonT(30) DEF Wrote
    <3> QED
      BY <1>3, <3>1, OWritten
  <2>11. Opened(obj')
    BY Zenon, <1>1, <1>2, <2>7 DEF Opened
  <2>12. Bounded(obj')
    <3>1. \A u \in Writers : obj'.pc[u] # "write"
      BY ZenonT(60), <1>1, <1>2, <2>7 DEF Holds
    <3> QED
      BY Zenon, <1>1, <1>6, <2>7, <3>1 DEF Bounded
  <2> QED
    BY <1>1, <2>1, <2>6, <2>7, <2>10, <2>11, <2>12 DEF OInv, LogOk
<1>7. CASE obj.kind # "mmap"
  <2> DEFINE file == obj.files[obj.name]
             more == IF n = 0 THEN file ELSE Append(file, piece)
             to == IF n < line[3] /\ obj.kind = "file" THEN "assert" ELSE obj.halt
             files == [obj.files EXCEPT ![obj.name] = more]
  <2>1. obj.files \in FileSeqs /\ obj.name \in Nat /\ obj.name >= 1 /\ obj.name = Len(obj.files) /\ obj.halt \in {"no", "assert", "overrun"}
    BY <1>1, Zenon DEF LogState, Opened
  <2>2. n <= line[3] /\ ref' = [ref EXCEPT !.wrote = IF n = 0 THEN ref.wrote ELSE Append(ref.wrote, piece)]
    BY <1>7 DEF O!Write
  <2>3. obj' = [o EXCEPT !.files[obj.name] = IF n = 0 THEN o.files[obj.name] ELSE Append(o.files[obj.name], piece),
                         !.halt = IF n < line[3] /\ obj.kind = "file" THEN "assert" ELSE o.halt]
    BY <1>7 DEF O!Write
  <2> HIDE DEF piece
  <2>4. o \in LogState /\ o.files = obj.files /\ o.halt = obj.halt
    BY <1>1, <1>4, Zenon DEF LogState
  <2>5. obj' = [o EXCEPT !.files = files, !.halt = to]
    <3> HIDE DEF o
    <3> QED
      BY <2>3, <2>4
  <2>6. obj.name \in 1 .. Len(obj.files) /\ file \in PieceSeqs
    BY <2>1 DEF FileSeqs
  <2>7. more \in PieceSeqs
    BY <1>4, <2>6 DEF PieceSeqs
  <2>8. to \in {"no", "assert", "overrun"} /\ (obj.halt # "overrun" => to # "overrun")
    BY <2>1
  <2> HIDE DEF to, more
  <2>9. files \in FileSeqs /\ Len(files) = Len(obj.files) /\ files[obj.name] = more
    BY <2>1, <2>6, <2>7 DEF FileSeqs
  <2>10. Len(file) \in Nat /\ Len(more) \in Nat /\ Len(more) >= Len(file)
    <3>1. Len(file) \in Nat /\ Len(Append(file, piece)) = Len(file) + 1
      BY <1>4, <2>6 DEF PieceSeqs
    <3>2. Len(more) = Len(file) \/ Len(more) = Len(file) + 1
      BY <3>1 DEF more
    <3> HIDE DEF file
    <3> QED
      BY <3>1, <3>2
  <2> HIDE DEF files
  <2>11. obj' \in LogState
    <3> HIDE DEF o
    <3> QED
      BY <2>4, <2>5, <2>8, <2>9, Zenon DEF LogState
  <2>12. /\ obj'.kind = obj.kind /\ obj'.files = files /\ obj'.name = obj.name /\ obj'.first = obj.first /\ obj'.now = obj.now
         /\ obj'.written = obj.written /\ obj'.lock = obj.lock /\ obj'.open = obj.open /\ obj'.halt = to
         /\ obj'.mem = obj.mem
         /\ \A u \in Writers : /\ obj'.pc[u] = IF u = t THEN "count" ELSE obj.pc[u]
                               /\ obj'.line[u] = IF u = t THEN piece ELSE obj.line[u]
    BY Zenon, <1>1, <2>5 DEF LogState
  <2>13. ref.wrote \in PieceSeqs
    BY Zenon, <1>1 DEF LogRef
  <2>14. Opened(obj')
    <3>1. obj.first \in Nat /\ obj.first <= Len(file)
      BY <1>1 DEF LogState, Opened
    <3>2. obj.first <= Len(more)
      BY <2>10, <3>1
    <3> QED
      BY Zenon, <1>1, <1>2, <2>9, <2>12, <3>2 DEF Opened
  <2>15. Bounded(obj')
    <3>1. \A u \in Writers : obj'.pc[u] \in {"write", "count"} => u = t
      BY <1>1, <1>2, <2>12, ZenonT(60) DEF Holds
    <3>2. obj.written <= RotateSize /\ obj.halt # "overrun"
      BY <1>1, <1>2, <1>7 DEF Bounded
    <3>3. ~(obj.written > RotateSize)
      BY <1>3, <3>2
    <3> QED
      BY <1>7, <2>8, <2>12, <3>2, <3>3 DEF Bounded
  <2>16. /\ ref' \in LogRef /\ Holds(obj') /\ OnItsWay(obj', ref') /\ InOrder(ref') /\ Counted(obj')
         /\ O!Concatenated(obj'.files, ref'.wrote)
    <3>1. CASE n = 0
      <4>1. files = obj.files
        BY <2>1, <2>6, <3>1 DEF files, more, FileSeqs
      <4>2. ref' = ref
        BY Zenon, <1>1, <2>2, <3>1 DEF LogRef
      <4>3. O!Taken(obj') = O!Taken(obj)
        BY Zenon, <2>12, <4>1, TakenSame DEF SameFiles
      <4>4. ref' \in LogRef /\ Holds(obj') /\ OnItsWay(obj', ref') /\ InOrder(ref') /\ Counted(obj')
        <5>1. Wrote(t, n, piece)
          BY <1>2, <1>4, <2>2, <2>12, <3>1, <4>2, <4>3, ZenonT(30) DEF Wrote
        <5> QED
          BY <1>3, <5>1, OWritten
      <4>5. O!Concatenated(obj'.files, ref'.wrote)
        BY Zenon, <1>1, <2>12, <4>1, <4>2
      <4> QED
        BY <4>4, <4>5
    <3>2. CASE n # 0
      <4>1. files = [obj.files EXCEPT ![obj.name] = Append(file, piece)]
        BY <3>2 DEF files, more
      <4>2. ref' = [ref EXCEPT !.wrote = Append(ref.wrote, piece)]
        BY Zenon, <2>2, <3>2
      <4>3. O!Taken(obj) \in PieceSeqs /\ O!Taken(obj') = Append(O!Taken(obj), piece)
        <5>1. obj'.kind = obj.kind /\ obj'.first = obj.first /\ obj'.name = obj.name
          BY <2>12
        <5>2. obj'.files = [obj.files EXCEPT ![obj.name] = Append(obj.files[obj.name], piece)]
          BY <2>12, <4>1
        <5>3. AddsTo(obj', obj, piece)
          BY <1>7, <5>1, <5>2, Zenon DEF AddsTo
        <5> QED
          BY <1>1, <1>4, <5>3, TakenAppend
      <4>4. ref' \in LogRef /\ Holds(obj') /\ OnItsWay(obj', ref') /\ InOrder(ref') /\ Counted(obj')
        <5>1. Wrote(t, n, piece)
          BY <1>2, <1>4, <2>2, <2>12, <4>2, <4>3, Zenon DEF Wrote
        <5> QED
          BY <1>3, <5>1, OWritten
      <4>5. O!Concatenated(files, Append(ref.wrote, piece))
        <5>1. O!Concatenated([obj.files EXCEPT ![Len(obj.files)] = Append(obj.files[Len(obj.files)], piece)], Append(ref.wrote, piece))
          BY <1>1, <1>4, <2>1, <2>13, ConcatenatedAppend, Zenon DEF FileSeqs, PieceSeqs
        <5> QED
          BY <2>1, <4>1, <5>1
      <4>6. ref'.wrote = Append(ref.wrote, piece)
        BY Zenon, <1>1, <4>2 DEF LogRef
      <4> QED
        BY <2>12, <4>4, <4>5, <4>6
    <3> QED
      BY <3>1, <3>2
  <2> QED
    BY <1>7, <2>11, <2>12, <2>14, <2>15, <2>16 DEF OInv, LogOk
<1> QED
  BY Zenon, <1>5, <1>6, <1>7

\* Every step of the writers keeps the invariant.
LEMMA ONext == ASSUME OInv, O!Next PROVE OInv'
BY OTick, OClose, OLog, OLock, OWrite, OCount DEF O!Next
-----------------------------------------------------------------------------
(***************************************************************************)
(* RemoteFormat. The loop of Format leaves the lines before the range in   *)
(* head, in order, those after it in tail; a client that reads has a whole *)
(* reply on its stream.                                                    *)
(***************************************************************************)

NoLines == [head |-> <<>>, content |-> <<>>, tail |-> <<>>]

IsSplit(f, range, n) == f = [i \in 0 .. n |-> IF i = 0 THEN NoLines ELSE F!Turn(range, f[i - 1], i)]

\* There is a function of splits, by induction over the least number without one.
LEMMA SplitExists == ASSUME NEW range, NEW n \in Nat PROVE \E f : IsSplit(f, range, n)
<1> SUFFICES ASSUME \A f : ~IsSplit(f, range, n) PROVE FALSE
  OBVIOUS
<1> DEFINE T == {m \in Nat : \A f : ~IsSplit(f, range, m)}
<1>1. PICK m \in T : \A k \in T : m <= k
  BY Least, Zenon
<1>2. m \in Nat /\ \A f : ~IsSplit(f, range, m)
  OBVIOUS
<1>3. m # 0
  <2>1. IsSplit([i \in 0 .. 0 |-> NoLines], range, 0)
    BY DEF IsSplit
  <2> QED
    BY <1>2, <2>1
<1>4. PICK g : IsSplit(g, range, m - 1)
  <2>1. m - 1 \in Nat /\ ~(m <= m - 1)
    BY <1>2, <1>3
  <2> QED
    BY <1>1, <2>1
<1> HIDE DEF T
<1> DEFINE f == [i \in 0 .. m |-> IF i = m THEN F!Turn(range, g[m - 1], m) ELSE g[i]]
<1>5. \A i \in 0 .. m - 1 : g[i] = IF i = 0 THEN NoLines ELSE F!Turn(range, g[i - 1], i)
  BY <1>4, Zenon DEF IsSplit
<1>6. \A i \in 0 .. m : f[i] = IF i = 0 THEN NoLines ELSE F!Turn(range, f[i - 1], i)
  <2> SUFFICES ASSUME NEW i \in 0 .. m PROVE f[i] = IF i = 0 THEN NoLines ELSE F!Turn(range, f[i - 1], i)
    OBVIOUS
  <2>1. CASE i = 0
    BY <1>2, <1>3, <1>5, <2>1
  <2>2. CASE i # 0 /\ i # m
    <3>1. i \in 0 .. m - 1 /\ i - 1 \in 0 .. m /\ i - 1 # m
      BY <1>2, <2>2
    <3> QED
      BY <1>5, <2>2, <3>1
  <2>3. CASE i = m
    <3>1. i - 1 \in 0 .. m /\ i - 1 # m
      BY <1>2, <1>3, <2>3
    <3> QED
      BY <1>3, <2>3, <3>1
  <2> QED
    BY <2>1, <2>2, <2>3
<1>7. IsSplit(f, range, m)
  BY <1>6, Zenon DEF IsSplit
<1> QED
  BY <1>2, <1>7

Parts == [head : Seq(Nat), content : Seq(Nat), tail : Seq(Nat)]

\* The first i lines are split: p of them come before the range, q are in it.
SplitAt(s, i, range, p, q) ==
  /\ s \in Parts /\ p \in Nat /\ q \in Nat /\ p + q <= i
  /\ Len(s.head) = p /\ \A j \in 1 .. p : s.head[j] = j
  /\ Len(s.content) = q
  /\ Len(s.tail) = i - p - q /\ \A j \in 1 .. i - p - q : s.tail[j] = p + q + j
  /\ \A j \in 1 .. i : /\ (range # <<>> /\ j < range[1]) <=> j <= p
                       /\ (range # <<>> /\ ~(j < range[1]) /\ range[2] < j) <=> j > p + q

\* A turn of the loop in Format extends the split by the next line.
LEMMA SplitTurn ==
  ASSUME NEW range, range = <<>> \/ range \in Int \X Int, NEW i \in Nat, NEW s, NEW p, NEW q, SplitAt(s, i, range, p, q)
  PROVE \E a, b : SplitAt(F!Turn(range, s, i + 1), i + 1, range, a, b)
<1> DEFINE In(j) == range # <<>> /\ j < range[1]
           Past(j) == range # <<>> /\ range[2] < j
           t == F!Turn(range, s, i + 1)
<1>1. /\ s \in Parts /\ p \in Nat /\ q \in Nat /\ p + q <= i
      /\ Len(s.head) = p /\ \A j \in 1 .. p : s.head[j] = j
      /\ Len(s.content) = q
      /\ Len(s.tail) = i - p - q /\ \A j \in 1 .. i - p - q : s.tail[j] = p + q + j
  BY Zenon DEF SplitAt
<1>2. \A j \in 1 .. i : (In(j) <=> j <= p) /\ ((~In(j) /\ Past(j)) <=> j > p + q)
  BY DEF SplitAt
<1>3. range # <<>> => range[1] \in Int /\ range[2] \in Int
  OBVIOUS
<1>4. \A j \in 1 .. i : (In(i + 1) => In(j)) /\ (Past(j) => Past(i + 1))
  BY <1>3
<1>5. t = IF In(i + 1) THEN [s EXCEPT !.head = Append(s.head, i + 1)]
          ELSE IF Past(i + 1) THEN [s EXCEPT !.tail = Append(s.tail, i + 1)]
          ELSE [s EXCEPT !.content = Append(s.content, i + 1)]
  BY DEF F!Turn
<1>6. s.head \in Seq(Nat) /\ s.content \in Seq(Nat) /\ s.tail \in Seq(Nat) /\ i + 1 \in Nat
  BY <1>1 DEF Parts
<1> HIDE DEF In, Past, t
<1>7. CASE In(i + 1)
  <2> DEFINE head == Append(s.head, i + 1)
  <2>1. p = i /\ q = 0
    <3>1. CASE i = 0
      BY <1>1, <3>1
    <3>2. CASE i # 0
      <4>1. i \in 1 .. i
        BY <3>2
      <4>2. i <= p
        BY <1>2, <1>4, <1>7, <4>1
      <4> QED
        BY <1>1, <4>2
    <3> QED
      BY <3>1, <3>2
  <2>2. head \in Seq(Nat) /\ Len(head) = i + 1 /\ \A j \in 1 .. i + 1 : head[j] = j
    <3>1. head \in Seq(Nat) /\ Len(head) = p + 1 /\ head[p + 1] = i + 1 /\ \A j \in 1 .. p : head[j] = s.head[j]
      BY <1>1, <1>6
    <3>2. \A j \in 1 .. i + 1 : j \in 1 .. i \/ j = i + 1
      OBVIOUS
    <3> HIDE DEF head
    <3> QED
      BY <1>1, <2>1, <3>1, <3>2
  <2>3. t = [s EXCEPT !.head = head]
    BY <1>5, <1>7
  <2> HIDE DEF head
  <2>4. t \in Parts /\ t.head = head /\ t.content = s.content /\ t.tail = s.tail
    BY <1>1, <2>2, <2>3, Zenon DEF Parts
  <2>5. \A j \in 1 .. i + 1 : In(j)
    BY <1>2, <1>7, <2>1
  <2>6. i + 1 - (i + 1) - 0 = 0 /\ Len(s.tail) = 0
    BY <1>1, <2>1
  <2>7. SplitAt(t, i + 1, range, i + 1, 0)
    <3>1. \A j \in 1 .. i + 1 : (In(j) <=> j <= i + 1) /\ ((~In(j) /\ Past(j)) <=> j > i + 1 + 0)
      BY <2>5
    <3>2. Len(t.head) = i + 1 /\ (\A j \in 1 .. i + 1 : t.head[j] = j) /\ Len(t.content) = 0
      BY <1>1, <2>1, <2>2, <2>4
    <3>3. Len(t.tail) = i + 1 - (i + 1) - 0
      BY <2>4, <2>6
    <3>4. \A j \in 1 .. i + 1 - (i + 1) - 0 : t.tail[j] = i + 1 + 0 + j
      BY <2>6
    <3> QED
      BY <1>6, <2>4, <3>1, <3>2, <3>3, <3>4 DEF SplitAt, In, Past
  <2> QED
    BY <2>7 DEF t
<1>8. CASE ~In(i + 1) /\ Past(i + 1)
  <2> DEFINE tail == Append(s.tail, i + 1)
             r == i - p - q
  <2>1. r \in Nat /\ Len(s.tail) = r /\ p + q + (r + 1) = i + 1 /\ i + 1 - p - q = r + 1
    BY <1>1
  <2>2. tail \in Seq(Nat) /\ Len(tail) = r + 1 /\ (\A j \in 1 .. r : tail[j] = s.tail[j]) /\ tail[r + 1] = i + 1
    BY <1>6, <2>1
  <2>3. t = [s EXCEPT !.tail = tail]
    BY <1>5, <1>8
  <2> HIDE DEF tail, r
  <2>4. t \in Parts /\ t.head = s.head /\ t.content = s.content /\ t.tail = tail
    BY <1>1, <2>2, <2>3, Zenon DEF Parts
  <2>5. \A j \in 1 .. r : tail[j] = p + q + j
    BY <1>1, <2>2 DEF r
  <2>6. \A j \in 1 .. r + 1 : tail[j] = p + q + j
    <3>1. \A j \in 1 .. r + 1 : j \in 1 .. r \/ j = r + 1
      BY <2>1
    <3> QED
      BY <2>1, <2>2, <2>5, <3>1
  <2>7. \A j \in 1 .. i + 1 : (In(j) <=> j <= p) /\ ((~In(j) /\ Past(j)) <=> j > p + q)
    <3>1. \A j \in 1 .. i + 1 : j \in 1 .. i \/ j = i + 1
      OBVIOUS
    <3>2. ~(i + 1 <= p) /\ i + 1 > p + q
      BY <1>1
    <3> QED
      BY <1>2, <1>8, <3>1, <3>2
  <2>8. SplitAt(t, i + 1, range, p, q)
    <3>1. p + q <= i + 1
      BY <1>1
    <3>2. Len(t.head) = p /\ (\A j \in 1 .. p : t.head[j] = j) /\ Len(t.content) = q
      BY <1>1, <2>4
    <3>3. Len(t.tail) = i + 1 - p - q /\ \A j \in 1 .. i + 1 - p - q : t.tail[j] = p + q + j
      BY <2>1, <2>2, <2>4, <2>6
    <3> QED
      BY <1>1, <2>4, <2>7, <3>1, <3>2, <3>3 DEF SplitAt, In, Past
  <2> QED
    BY <2>8 DEF t
<1>9. CASE ~In(i + 1) /\ ~Past(i + 1)
  <2> DEFINE content == Append(s.content, i + 1)
  <2>1. p + q = i
    <3>1. CASE i = 0
      BY <1>1, <3>1
    <3>2. CASE i # 0
      <4>1. i \in 1 .. i
        BY <3>2
      <4>2. ~(i > p + q)
        BY <1>2, <1>4, <1>9, <4>1
      <4> QED
        BY <1>1, <4>2
    <3> QED
      BY <3>1, <3>2
  <2>2. content \in Seq(Nat) /\ Len(content) = q + 1
    BY <1>1, <1>6
  <2>3. t = [s EXCEPT !.content = content]
    BY <1>5, <1>9
  <2> HIDE DEF content
  <2>4. t \in Parts /\ t.head = s.head /\ t.content = content /\ t.tail = s.tail
    BY <1>1, <2>2, <2>3, Zenon DEF Parts
  <2>5. \A j \in 1 .. i + 1 : (In(j) <=> j <= p) /\ ((~In(j) /\ Past(j)) <=> j > p + (q + 1))
    <3>1. \A j \in 1 .. i + 1 : j \in 1 .. i \/ j = i + 1
      OBVIOUS
    <3>2. \A j \in 1 .. i : ~(j > p + q) /\ ~(j > p + (q + 1))
      BY <1>1, <2>1
    <3>3. ~(i + 1 <= p) /\ ~(i + 1 > p + (q + 1))
      BY <1>1, <2>1
    <3> QED
      BY <1>2, <1>9, <3>1, <3>2, <3>3
  <2>6. i - p - q = 0 /\ i + 1 - p - (q + 1) = 0 /\ p + (q + 1) <= i + 1 /\ q + 1 \in Nat
    BY <1>1, <2>1
  <2>7. Len(t.tail) = i + 1 - p - (q + 1) /\ \A j \in 1 .. i + 1 - p - (q + 1) : t.tail[j] = p + (q + 1) + j
    BY <1>1, <2>4, <2>6
  <2>8. SplitAt(t, i + 1, range, p, q + 1)
    BY <1>1, <2>2, <2>4, <2>5, <2>6, <2>7 DEF SplitAt, In, Past
  <2> QED
    BY <2>8 DEF t
<1> QED
  BY <1>7, <1>8, <1>9

\* Split is the lines before, in and behind the range, in order.
LEMMA SplitParts ==
  ASSUME NEW range, range = <<>> \/ range \in Int \X Int
  PROVE \E p, q : SplitAt(F!Split(range), Lines, range, p, q)
<1> DEFINE D(h) == h = [i \in 0 .. Lines |-> IF i = 0 THEN NoLines ELSE F!Turn(range, h[i - 1], i)]
           f == CHOOSE h : D(h)
<1>0. Lines \in Nat
  BY RemoteFormatAssumption
<1>1. D(f)
  <2>1. PICK g : IsSplit(g, range, Lines)
    BY <1>0, SplitExists, Zenon
  <2>2. D(g)
    BY <2>1, Zenon DEF IsSplit
  <2> QED
    BY <2>2, Zenon
<1>2. F!Split(range) = f[Lines]
  BY DEF F!Split, NoLines
<1> HIDE DEF f
<1>3. \A i \in 0 .. Lines : f[i] = IF i = 0 THEN NoLines ELSE F!Turn(range, f[i - 1], i)
  BY <1>1, Zenon
<1> HIDE DEF D
<1> DEFINE T == {i \in 0 .. Lines : ~\E p, q : SplitAt(f[i], i, range, p, q)}
<1>4. SUFFICES ASSUME T # {} PROVE FALSE
  BY <1>0, <1>2
<1>5. PICK m \in T : \A k \in T : m <= k
  <2>1. T \in SUBSET Nat
    BY <1>0
  <2> HIDE DEF T
  <2> QED
    BY <1>4, <2>1, Least
<1>6. m \in 0 .. Lines /\ m \in Nat /\ ~\E p, q : SplitAt(f[m], m, range, p, q)
  BY <1>0
<1>7. m # 0
  <2>1. SplitAt(NoLines, 0, range, 0, 0)
    <3>1. NoLines \in Parts /\ Len(NoLines.head) = 0 /\ Len(NoLines.content) = 0 /\ Len(NoLines.tail) = 0
      BY DEF NoLines, Parts
    <3> QED
      BY <3>1 DEF SplitAt
  <2>2. f[0] = NoLines
    BY <1>0, <1>3
  <2> QED
    BY <1>6, <2>1, <2>2
<1>8. m - 1 \in 0 .. Lines /\ m - 1 \in Nat /\ ~(m <= m - 1) /\ m - 1 + 1 = m
  BY <1>0, <1>6, <1>7
<1>9. PICK p, q : SplitAt(f[m - 1], m - 1, range, p, q)
  BY <1>5, <1>8
<1> HIDE DEF T
<1>10. \E a, b : SplitAt(F!Turn(range, f[m - 1], m), m, range, a, b)
  <2> DEFINE k == m - 1
  <2>1. \E a, b : SplitAt(F!Turn(range, f[k], k + 1), k + 1, range, a, b)
    <3>1. k \in Nat /\ SplitAt(f[k], k, range, p, q)
      BY <1>8, <1>9
    <3> HIDE DEF k
    <3> QED
      BY <3>1, SplitTurn
  <2> QED
    BY <1>8, <2>1
<1> QED
  BY <1>3, <1>6, <1>7, <1>10

Untouched == [i \in 1 .. Lines |-> 0]
Whole(range, c) == [i \in 1 .. Len(F!Split(range).content) |-> c]
Asked(range, c) ==
  [i \in 1 .. Lines |-> IF range = <<>> \/ (range[1] <= i /\ i <= range[2]) THEN c ELSE 0]

\* Length and elements of a concatenation.
LEMMA ConcatFacts ==
  ASSUME NEW S, NEW a \in Seq(S), NEW b \in Seq(S)
  PROVE /\ a \o b \in Seq(S) /\ Len(a \o b) = Len(a) + Len(b)
        /\ \A i \in 1 .. Len(a) + Len(b) : (a \o b)[i] = IF i <= Len(a) THEN a[i] ELSE b[i - Len(a)]
<1>1. a \o b \in Seq(S) /\ Len(a \o b) = Len(a) + Len(b)
  OBVIOUS
<1>2. \A i \in 1 .. Len(a) + Len(b) : (a \o b)[i] = IF i <= Len(a) THEN a[i] ELSE b[i - Len(a)]
  OBVIOUS
<1> QED
  BY <1>1, <1>2

\* A reply of as many lines as were sent, put between head and tail, is what was asked for.
LEMMA JoinedAsked ==
  ASSUME NEW range, range = <<>> \/ range \in Int \X Int, NEW c
  PROVE F!Joined(Untouched, range, Whole(range, c)) = Asked(range, c)
<1> DEFINE s == F!Split(range)
           head == [i \in 1 .. Len(s.head) |-> Untouched[s.head[i]]]
           tail == [i \in 1 .. Len(s.tail) |-> Untouched[s.tail[i]]]
           reply == Whole(range, c)
           t == Lines
<1>0. Lines \in Nat
  BY RemoteFormatAssumption
<1>1. PICK p, q : SplitAt(s, Lines, range, p, q)
  BY SplitParts
<1>2. /\ p \in Nat /\ q \in Nat /\ p + q <= Lines
      /\ Len(s.head) = p /\ \A j \in 1 .. p : s.head[j] = j
      /\ Len(s.content) = q
      /\ Len(s.tail) = Lines - p - q /\ \A j \in 1 .. Lines - p - q : s.tail[j] = p + q + j
  BY <1>1 DEF SplitAt
<1>3. \A j \in 1 .. Lines : /\ (range # <<>> /\ j < range[1]) <=> j <= p
                            /\ (range # <<>> /\ ~(j < range[1]) /\ range[2] < j) <=> j > p + q
  BY <1>1 DEF SplitAt
<1>4. range # <<>> => range[1] \in Int /\ range[2] \in Int
  OBVIOUS
<1>5. F!Joined(Untouched, range, reply) = head \o reply \o tail
  BY DEF F!Joined
<1> DEFINE r == Lines - p - q
<1>6. r \in Nat /\ p + q + r = Lines
  BY <1>0, <1>2
<1> HIDE DEF s
<1>7. head = [i \in 1 .. p |-> 0]
  <2>1. \A i \in 1 .. p : i \in 1 .. Lines
    BY <1>0, <1>2
  <2>2. \A i \in 1 .. p : Untouched[s.head[i]] = 0
    BY <1>2, <2>1 DEF Untouched
  <2> QED
    BY <1>2, <2>2
<1>8. tail = [i \in 1 .. r |-> 0]
  <2>1. \A i \in 1 .. r : p + q + i \in 1 .. Lines
    BY <1>0, <1>2
  <2>2. \A i \in 1 .. r : Untouched[s.tail[i]] = 0
    BY <1>2, <2>1 DEF Untouched
  <2> QED
    BY <1>2, <2>2
<1>9. reply = [i \in 1 .. q |-> c]
  BY <1>2 DEF Whole, s
<1> HIDE DEF head, tail, reply, r
<1>10. /\ Len(head) = p /\ Len(reply) = q /\ Len(tail) = r
       /\ head \in Seq({0, c}) /\ reply \in Seq({0, c}) /\ tail \in Seq({0, c})
  BY <1>2, <1>6, <1>7, <1>8, <1>9
<1>11. /\ \A i \in 1 .. p : head[i] = 0
       /\ \A i \in 1 .. q : reply[i] = c
       /\ \A i \in 1 .. r : tail[i] = 0
  BY <1>7, <1>8, <1>9
<1> DEFINE u == head \o reply
           v == u \o tail
           w == Asked(range, c)
<1>12. /\ u \in Seq({0, c}) /\ Len(u) = p + q
       /\ \A i \in 1 .. p + q : u[i] = IF i <= p THEN 0 ELSE c
  <2>1. u \in Seq({0, c}) /\ Len(u) = p + q /\ \A i \in 1 .. p + q : u[i] = IF i <= p THEN head[i] ELSE reply[i - p]
    BY <1>10, ConcatFacts
  <2>2. \A i \in 1 .. p + q : IF i <= p THEN i \in 1 .. p ELSE i - p \in 1 .. q
    BY <1>2
  <2> QED
    BY <1>11, <2>1, <2>2
<1> HIDE DEF u
<1>13. /\ v \in Seq({0, c}) /\ Len(v) = Lines
       /\ \A i \in 1 .. Lines : v[i] = IF i <= p + q THEN u[i] ELSE tail[i - (p + q)]
  <2>0. u \in Seq({0, c}) /\ tail \in Seq({0, c})
    BY <1>10, <1>12
  <2>1. /\ v \in Seq({0, c}) /\ Len(v) = Len(u) + Len(tail)
        /\ \A i \in 1 .. Len(u) + Len(tail) : v[i] = IF i <= Len(u) THEN u[i] ELSE tail[i - Len(u)]
    BY <2>0, ConcatFacts
  <2>2. Len(u) = p + q /\ Len(tail) = r /\ p + q + r = Lines
    BY <1>6, <1>10, <1>12
  <2> HIDE DEF v
  <2> QED
    BY <2>1, <2>2
<1> HIDE DEF v
<1>14. \A i \in 1 .. Lines : v[i] = IF i <= p THEN 0 ELSE IF i <= p + q THEN c ELSE 0
  <2> SUFFICES ASSUME NEW i \in 1 .. Lines PROVE v[i] = IF i <= p THEN 0 ELSE IF i <= p + q THEN c ELSE 0
    OBVIOUS
  <2>1. CASE i <= p + q
    <3>1. i \in 1 .. p + q
      BY <1>2, <2>1
    <3> QED
      BY Zenon, <1>12, <1>13, <2>1, <3>1
  <2>2. CASE ~(i <= p + q)
    <3>1. i - (p + q) \in 1 .. r /\ ~(i <= p)
      BY <1>2, <1>6, <2>2
    <3> QED
      BY <1>11, <1>13, <2>2, <3>1
  <2> QED
    BY <2>1, <2>2
<1>15. \A i \in 1 .. Lines : w[i] = IF i <= p THEN 0 ELSE IF i <= p + q THEN c ELSE 0
  <2> SUFFICES ASSUME NEW i \in 1 .. Lines PROVE w[i] = IF i <= p THEN 0 ELSE IF i <= p + q THEN c ELSE 0
    OBVIOUS
  <2>1. w[i] = IF range = <<>> \/ (range[1] <= i /\ i <= range[2]) THEN c ELSE 0
    BY DEF Asked
  <2>2. /\ (range # <<>> /\ i < range[1]) <=> i <= p
        /\ (range # <<>> /\ ~(i < range[1]) /\ range[2] < i) <=> i > p + q
    BY <1>3
  <2>3. (i > p + q) <=> ~(i <= p + q)
    BY <1>2
  <2>4. (range = <<>> \/ (range[1] <= i /\ i <= range[2])) <=> (~(i <= p) /\ i <= p + q)
    BY <1>4, <2>2, <2>3
  <2> QED
    BY <2>1, <2>4
<1>16. v = [i \in 1 .. Lines |-> v[i]] /\ w = [i \in 1 .. Lines |-> w[i]]
  <2>1. v = [i \in 1 .. Lines |-> v[i]]
    BY <1>0, <1>13
  <2>2. w = [i \in 1 .. Lines |-> w[i]]
    BY DEF Asked
  <2> QED
    BY <2>1, <2>2
<1>17. v = w
  BY Zenon, <1>14, <1>15, <1>16
<1> QED
  BY <1>5, <1>17 DEF u, v, reply

Replies == Seq(Clients)
Contents == {Untouched} \cup {Asked(range, c) : range \in Ranges, c \in Clients}
FileMaps == [1 .. MaxFiles -> Contents]

ClientState == [pc : {"file", "send", "size", "read", "done", "error", "exit"}, file : Nat, range : Ranges, files : FileMaps,
                togo : Int, wire : Int, len : Int, data : Int, reply : Replies, back : Nat, closed : BOOLEAN, left : Int]

Working == {"file", "send", "size", "read"}

\* What has come back is the whole reply; the files up to the one at work are as asked for.
ClientOk(r, c) ==
  /\ r \in ClientState
  /\ r.file \in 1 .. MaxFiles + 1 /\ (r.pc \in Working => r.file <= MaxFiles)
  /\ r.back > 0 \/ r.pc = "read" => r.reply = Whole(r.range, c)
  /\ \A f \in 1 .. MaxFiles : r.files[f] = IF f < r.file THEN Asked(r.range, c) ELSE Untouched

FInv ==
  /\ obj \in [up : BOOLEAN, cl : [Clients -> ClientState]]
  /\ \A c \in Clients : ClientOk(obj.cl[c], c)

\* What the property states follows from the invariant of the clients.
LEMMA FInvAgrees == FInv => F!Agrees
<1> SUFFICES ASSUME FInv, NEW c \in Clients, NEW f \in 1 .. MaxFiles
             PROVE obj.cl[c].files[f] = IF f < obj.cl[c].file THEN F!Expected(c) ELSE [i \in 1 .. Lines |-> 0]
  BY Zenon DEF F!Agrees
<1>1. ClientOk(obj.cl[c], c)
  BY DEF FInv
<1>2. F!Expected(c) = Asked(obj.cl[c].range, c)
  BY DEF F!Expected, Asked
<1>3. obj.cl[c].files[f] = IF f < obj.cl[c].file THEN Asked(obj.cl[c].range, c) ELSE Untouched
  BY <1>1 DEF ClientOk
<1> QED
  BY <1>2, <1>3 DEF Untouched

\* Clients begin with their first file, and every file is untouched.
LEMMA FInit == F!Init => FInv
<1> SUFFICES ASSUME F!Init PROVE FInv
  OBVIOUS
<1>1. PICK range \in [Clients -> Ranges] :
        obj = [up |-> TRUE, cl |-> [c \in Clients |-> F!Client(range[c])]]
  BY Zenon DEF F!Init
<1>2. ASSUME NEW c \in Clients PROVE ClientOk(F!Client(range[c]), c)
  <2> DEFINE files == [f \in 1 .. MaxFiles |-> Untouched]
             r == F!Client(range[c])
  <2>1. range[c] \in Ranges
    OBVIOUS
  <2>2. files \in FileMaps
    BY DEF FileMaps, Contents
  <2>3. <<>> \in Replies /\ \A f \in 1 .. MaxFiles : files[f] = Untouched
    BY DEF Replies
  <2>4. r = [pc |-> "file", file |-> 1, range |-> range[c], files |-> files, togo |-> 0, wire |-> 0, len |-> -1, data |-> 0,
             reply |-> <<>>, back |-> 0, closed |-> FALSE, left |-> 0]
    BY DEF F!Client, F!None, Untouched
  <2> HIDE DEF files
  <2>5. r \in ClientState
    BY <2>1, <2>2, <2>3, <2>4 DEF ClientState
  <2>6. r.file = 1 /\ r.pc = "file" /\ r.back = 0 /\ r.files = files
    BY <2>4
  <2> HIDE DEF r
  <2>7. 1 \in 1 .. MaxFiles + 1 /\ 1 <= MaxFiles /\ ~(0 > 0) /\ \A f \in 1 .. MaxFiles : ~(f < 1)
    BY RemoteFormatAssumption
  <2>8. ClientOk(r, c)
    BY Zenon, <2>3, <2>5, <2>6, <2>7 DEF ClientOk
  <2> QED
    BY <2>8 DEF r
<1>3. \A c \in Clients : F!Client(range[c]) \in ClientState
  BY <1>2 DEF ClientOk
<1> QED
  BY <1>1, <1>2, <1>3 DEF FInv

\* A step of one client.
LEMMA FBecomes ==
  ASSUME FInv, NEW c \in Clients, NEW n, ClientOk(n, c), obj' = [obj EXCEPT !.cl[c] = n]
  PROVE FInv'
<1>1. obj \in [up : BOOLEAN, cl : [Clients -> ClientState]] /\ n \in ClientState
  BY DEF FInv, ClientOk
<1>2. obj' \in [up : BOOLEAN, cl : [Clients -> ClientState]]
  BY <1>1
<1>3. \A d \in Clients : obj'.cl[d] = IF d = c THEN n ELSE obj.cl[d]
  BY Zenon, <1>1
<1> QED
  BY <1>2, <1>3 DEF FInv

\* What a client does with its files unchanged.
SameWork(n, r) == n.file = r.file /\ n.range = r.range /\ n.files = r.files /\ (n.pc \in Working => r.pc \in Working)

\* A client that goes on with the same file, and whose reply is whole once it begins to arrive,
\* stays as it should be.
LEMMA FSameWork ==
  ASSUME NEW c, NEW r, ClientOk(r, c), NEW n \in ClientState, SameWork(n, r),
         n.back > 0 \/ n.pc = "read" => n.reply = Whole(n.range, c)
  PROVE ClientOk(n, c)
BY DEF ClientOk, SameWork

\* connect, or the exception that ends the client.
LEMMA FConnect ==
  ASSUME FInv, NEW c \in Clients, F!Connect(c)
  PROVE FInv'
<1> DEFINE r == obj.cl[c]
<1>1. ClientOk(r, c) /\ r \in ClientState
  BY DEF FInv, ClientOk
<1>2. CASE obj.up
  <2> DEFINE none == <<>>
             zero == 0
             four == 4
             unknown == -1
             m == [r EXCEPT !.pc = "send", !.togo = Pickle, !.wire = four, !.len = unknown]
             l == [m EXCEPT !.reply = none]
             k == [l EXCEPT !.data = zero, !.back = zero]
             n == [k EXCEPT !.closed = FALSE]
  <2>1. obj' = [obj EXCEPT !.cl[c] = n] /\ r.pc = "file"
    <3>1. n = [r EXCEPT !.pc = "send", !.togo = Pickle, !.wire = 4, !.len = -1, !.data = 0,
                        !.reply = none, !.back = 0, !.closed = FALSE]
      BY <1>1, ZenonT(60) DEF ClientState
    <3>2. obj' = [obj EXCEPT !.cl[c] = [r EXCEPT !.pc = "send", !.togo = Pickle, !.wire = 4, !.len = -1, !.data = 0,
                                                 !.reply = none, !.back = 0, !.closed = FALSE]] /\ r.pc = "file"
      BY <1>2 DEF F!Connect, F!Becomes, F!Prefix, F!None
    <3> QED
      BY <3>1, <3>2
  <2>2. none \in Replies
    BY DEF Replies
  <2>3. Pickle \in Int /\ four \in Int /\ unknown \in Int /\ zero \in Int /\ zero \in Nat
    BY RemoteFormatAssumption
  <2> HIDE DEF r, none, zero, four, unknown
  <2>4. m \in ClientState
    BY <1>1, <2>3, Zenon DEF ClientState
  <2>5. m.pc = "send" /\ m.file = r.file /\ m.range = r.range /\ m.files = r.files
    BY <1>1 DEF ClientState
  <2> HIDE DEF m
  <2>6. l \in ClientState /\ l.pc = "send" /\ l.file = r.file /\ l.range = r.range /\ l.files = r.files
    BY <2>2, <2>4, <2>5 DEF ClientState
  <2> HIDE DEF l
  <2>7. k \in ClientState
    BY <2>3, <2>6, Zenon DEF ClientState
  <2>8. k.pc = "send" /\ k.back = zero /\ k.file = r.file /\ k.range = r.range /\ k.files = r.files
    BY <2>6 DEF ClientState
  <2> HIDE DEF k
  <2>9. n \in ClientState /\ n.pc = "send" /\ n.back = zero /\ n.file = r.file /\ n.range = r.range /\ n.files = r.files
    BY <2>7, <2>8, Zenon DEF ClientState
  <2> HIDE DEF n
  <2>10. ClientOk(n, c)
    <3>1. ~(n.back > 0)
      BY <2>9 DEF zero
    <3> QED
      BY Zenon, <1>1, <2>1, <2>9, <3>1, FSameWork DEF SameWork, Working
  <2> QED
    BY <2>1, <2>10, FBecomes
<1>3. CASE ~obj.up
  <2> DEFINE n == [r EXCEPT !.pc = "error"]
  <2>1. obj' = [obj EXCEPT !.cl[c] = n] /\ r.pc = "file"
    BY <1>3 DEF F!Connect, F!Becomes
  <2> HIDE DEF r
  <2>2. n \in ClientState /\ n.pc = "error" /\ n.back = r.back /\ n.reply = r.reply /\ n.file = r.file /\ n.range = r.range /\ n.files = r.files
    BY Zenon, <1>1 DEF ClientState
  <2> HIDE DEF n
  <2>3. ClientOk(n, c)
    BY <1>1, <2>2 DEF ClientOk, Working
  <2> QED
    BY <2>1, <2>3, FBecomes
<1> QED
  BY Zenon, <1>2, <1>3

\* Most steps change where a client is and what is on its streams.
LEMMA FSend ==
  ASSUME FInv, NEW c \in Clients, F!Send(c)
  PROVE FInv'
<1> DEFINE r == obj.cl[c]
<1>1. ClientOk(r, c) /\ r \in ClientState
  BY DEF FInv, ClientOk
<1>2. PICK n : /\ obj' = [obj EXCEPT !.cl[c] = n]
               /\ \/ n = [r EXCEPT !.pc = "error"]
                  \/ \E k \in 1 .. r.togo : n = [r EXCEPT !.togo = @ - k, !.wire = @ + k, !.pc = IF k = r.togo THEN "size" ELSE "send"]
  BY Zenon DEF F!Send, F!Becomes
<1>3. r.pc = "send"
  BY Zenon DEF F!Send
<1> HIDE DEF r
<1>4. n \in ClientState /\ SameWork(n, r) /\ n.back = r.back /\ n.reply = r.reply /\ n.pc # "read"
  <2>1. CASE n = [r EXCEPT !.pc = "error"]
    BY <1>1, <2>1 DEF ClientState, SameWork, Working
  <2>2. ASSUME NEW k \in 1 .. r.togo, n = [r EXCEPT !.togo = @ - k, !.wire = @ + k, !.pc = IF k = r.togo THEN "size" ELSE "send"]
        PROVE n \in ClientState /\ SameWork(n, r) /\ n.back = r.back /\ n.reply = r.reply /\ n.pc # "read"
    <3> DEFINE to == IF k = r.togo THEN "size" ELSE "send"
               a == r.togo - k
               b == r.wire + k
    <3>1. a \in Int /\ b \in Int
      BY <1>1 DEF ClientState
    <3>2. to \in {"size", "send"} /\ n = [r EXCEPT !.togo = a, !.wire = b, !.pc = to]
      BY <2>2
    <3> HIDE DEF to, a, b
    <3>3. n \in ClientState /\ n.back = r.back /\ n.reply = r.reply /\ n.pc = to /\ n.file = r.file /\ n.range = r.range /\ n.files = r.files
      BY <1>1, <3>1, <3>2, Zenon DEF ClientState
    <3> QED
      BY <1>3, <3>2, <3>3 DEF SameWork, Working
  <2> QED
    BY <1>2, <2>1, <2>2, Zenon
<1>5. n.back > 0 \/ n.pc = "read" => n.reply = Whole(n.range, c)
  BY <1>1, <1>4 DEF ClientOk, SameWork
<1> QED
  BY <1>1, <1>2, <1>4, <1>5, FSameWork, FBecomes, Zenon

\* recv of the four bytes of the length.
LEMMA FRecvSize ==
  ASSUME FInv, NEW c \in Clients, F!RecvSize(c)
  PROVE FInv'
<1> DEFINE r == obj.cl[c]
<1>1. ClientOk(r, c) /\ r \in ClientState
  BY DEF FInv, ClientOk
<1>2. PICK n : /\ obj' = [obj EXCEPT !.cl[c] = n]
               /\ \/ n = [r EXCEPT !.pc = "error"]
                  \/ \E k \in 1 .. 4 : k <= r.back /\ n = [r EXCEPT !.back = @ - k, !.left = Len(r.reply), !.pc = IF k = 4 THEN "read" ELSE "error"]
  BY Zenon DEF F!RecvSize, F!Becomes, F!Prefix
<1>3. r.pc = "size"
  BY Zenon DEF F!RecvSize
<1> HIDE DEF r
<1>4. /\ n \in ClientState /\ SameWork(n, r) /\ n.reply = r.reply
      /\ n.back > 0 \/ n.pc = "read" => r.back > 0
  <2>1. CASE n = [r EXCEPT !.pc = "error"]
    BY <1>1, <2>1 DEF ClientState, SameWork, Working
  <2>2. ASSUME NEW k \in 1 .. 4, k <= r.back, n = [r EXCEPT !.back = @ - k, !.left = Len(r.reply), !.pc = IF k = 4 THEN "read" ELSE "error"]
        PROVE n \in ClientState /\ SameWork(n, r) /\ n.reply = r.reply /\ r.back > 0
    <3> DEFINE to == IF k = 4 THEN "read" ELSE "error"
               a == r.back - k
               b == Len(r.reply)
    <3>0. r.back \in Nat /\ r.reply \in Replies
      BY <1>1 DEF ClientState
    <3>1. a \in Nat /\ b \in Int /\ r.back > 0
      BY <2>2, <3>0 DEF Replies
    <3>2. to \in {"read", "error"} /\ n = [r EXCEPT !.back = a, !.left = b, !.pc = to]
      BY <2>2
    <3> HIDE DEF to, a, b
    <3>3. n \in ClientState /\ n.reply = r.reply /\ n.pc = to /\ n.file = r.file /\ n.range = r.range /\ n.files = r.files
      BY <1>1, <3>1, <3>2, Zenon DEF ClientState
    <3> QED
      BY <1>3, <3>1, <3>3 DEF SameWork, Working
  <2> QED
    BY <1>2, <2>1, <2>2
<1>5. n.back > 0 \/ n.pc = "read" => n.reply = Whole(n.range, c)
  BY <1>1, <1>4 DEF ClientOk, SameWork
<1> QED
  BY <1>1, <1>2, <1>4, <1>5, FSameWork, FBecomes

\* recv of a part of the reply.
LEMMA FRecv ==
  ASSUME FInv, NEW c \in Clients, F!Recv(c)
  PROVE FInv'
<1> DEFINE r == obj.cl[c]
<1>1. ClientOk(r, c) /\ r \in ClientState
  BY DEF FInv, ClientOk
<1>2. PICK k \in 1 .. r.left : k <= r.back /\ obj' = [obj EXCEPT !.cl[c] = [r EXCEPT !.back = @ - k, !.left = @ - k]]
  BY Zenon DEF F!Recv, F!Becomes
<1>3. r.pc = "read"
  BY DEF F!Recv
<1> DEFINE a == r.back - k
           b == r.left - k
           n == [r EXCEPT !.back = a, !.left = b]
<1>4. obj' = [obj EXCEPT !.cl[c] = n]
  BY <1>2
<1> HIDE DEF r
<1>5. r.back \in Nat /\ r.left \in Int
  BY <1>1 DEF ClientState
<1>6. a \in Nat /\ b \in Int
  BY <1>2, <1>5
<1> HIDE DEF a, b
<1>7. n \in ClientState /\ n.reply = r.reply /\ n.pc = r.pc /\ n.file = r.file /\ n.range = r.range /\ n.files = r.files
  BY <1>1, <1>6, Zenon DEF ClientState
<1> HIDE DEF n
<1>8. n.reply = Whole(n.range, c)
  BY <1>1, <1>3, <1>7 DEF ClientOk
<1>9. SameWork(n, r)
  BY <1>7 DEF SameWork
<1> QED
  BY Zenon, <1>1, <1>4, <1>7, <1>8, <1>9, FSameWork, FBecomes

\* A timeout ends the client.
LEMMA FTimeout ==
  ASSUME FInv, NEW c \in Clients, F!Timeout(c)
  PROVE FInv'
<1> DEFINE r == obj.cl[c]
           n == [r EXCEPT !.pc = "exit"]
<1>1. ClientOk(r, c) /\ r \in ClientState
  BY DEF FInv, ClientOk
<1>2. obj' = [obj EXCEPT !.cl[c] = n]
  BY DEF F!Timeout, F!Becomes
<1> HIDE DEF r
<1>3. /\ n \in ClientState /\ n.pc = "exit" /\ n.reply = r.reply /\ n.back = r.back
      /\ n.file = r.file /\ n.range = r.range /\ n.files = r.files
  BY Zenon, <1>1 DEF ClientState
<1> HIDE DEF n
<1>4. ClientOk(n, c)
  BY <1>1, <1>3 DEF ClientOk, Working
<1> QED
  BY <1>2, <1>4, FBecomes

\* The file is written: it is as asked for, and the next one is untouched.
LEMMA FWriteReply ==
  ASSUME FInv, NEW c \in Clients, F!WriteReply(c)
  PROVE FInv'
<1> DEFINE r == obj.cl[c]
           k == r.file
           new == F!Joined(r.files[k], r.range, r.reply)
           files == [r.files EXCEPT ![k] = new]
           to == IF k = MaxFiles THEN "done" ELSE "file"
           n == [r EXCEPT !.files = files, !.file = k + 1, !.pc = to]
<1>1. ClientOk(r, c) /\ r \in ClientState
  BY DEF FInv, ClientOk
<1>2. obj' = [obj EXCEPT !.cl[c] = n] /\ r.pc = "read"
  BY DEF F!WriteReply, F!Becomes
<1> HIDE DEF r
<1>3. /\ k \in Nat /\ k \in 1 .. MaxFiles /\ r.reply = Whole(r.range, c) /\ r.range \in Ranges /\ r.files \in FileMaps
      /\ \A f \in 1 .. MaxFiles : r.files[f] = IF f < k THEN Asked(r.range, c) ELSE Untouched
  BY <1>1, <1>2, RemoteFormatAssumption DEF ClientOk, ClientState, Working
<1>4. r.files[k] = Untouched
  BY <1>3
<1>5. new = Asked(r.range, c)
  BY <1>3, <1>4, RemoteFormatAssumption, JoinedAsked, Zenon
<1>5a. new \in Contents
  BY <1>3, <1>5 DEF Contents
<1> HIDE DEF new
<1>6. files \in FileMaps /\ \A f \in 1 .. MaxFiles : files[f] = IF f = k THEN new ELSE r.files[f]
  BY <1>3, <1>5a, Zenon DEF FileMaps
<1>7. to \in {"done", "file"} /\ (to = "file" => k # MaxFiles)
  OBVIOUS
<1> HIDE DEF files, to
<1>8. k + 1 \in Nat /\ k + 1 \in 1 .. MaxFiles + 1 /\ (k # MaxFiles => k + 1 <= MaxFiles)
  BY <1>3, RemoteFormatAssumption
<1>9. n \in ClientState /\ n.files = files /\ n.file = k + 1 /\ n.pc = to /\ n.range = r.range /\ n.reply = r.reply
  <2> DEFINE m == k + 1
  <2>1. m \in Nat
    BY <1>8
  <2> HIDE DEF m
  <2>2. n = [r EXCEPT !.files = files, !.file = m, !.pc = to]
    BY DEF m
  <2> QED
    BY <1>1, <1>6, <1>7, <2>1, <2>2, Zenon DEF ClientState, m
<1> HIDE DEF n
<1>10. \A f \in 1 .. MaxFiles : files[f] = IF f < k + 1 THEN Asked(r.range, c) ELSE Untouched
  <2>1. \A f \in 1 .. MaxFiles : (f < k + 1) <=> (f < k \/ f = k)
    BY <1>3
  <2> QED
    BY Zenon, <1>3, <1>5, <1>6, <2>1
<1>11. ClientOk(n, c)
  BY <1>3, <1>7, <1>8, <1>9, <1>10 DEF ClientOk, Working
<1> QED
  BY <1>2, <1>11, FBecomes

\* Echo: the reply is put on the stream whole.
LEMMA FDataReceived ==
  ASSUME FInv, NEW c \in Clients, F!DataReceived(c)
  PROVE FInv'
<1> DEFINE r == obj.cl[c]
           reply == Whole(r.range, c)
<1>1. ClientOk(r, c) /\ r \in ClientState
  BY DEF FInv, ClientOk
<1>2. PICK k \in 1 .. r.wire :
        LET a == [r EXCEPT !.wire = @ - k, !.data = @ + k]
            b == IF a.len = -1 /\ a.data >= 4 THEN [a EXCEPT !.len = Pickle, !.data = @ - 4] ELSE a
        IN IF a.data >= 4 /\ b.len \notin {-1, 0} /\ b.data = b.len
           THEN F!OnMessage(b, c) ELSE obj' = [obj EXCEPT !.cl[c] = b]
  BY Zenon DEF F!DataReceived, F!Prefix, F!None
<1> DEFINE a == [r EXCEPT !.wire = @ - k, !.data = @ + k]
           b == IF a.len = -1 /\ a.data >= 4 THEN [a EXCEPT !.len = Pickle, !.data = @ - 4] ELSE a
<1>3. F!OnMessage(b, c) \/ obj' = [obj EXCEPT !.cl[c] = b]
  BY <1>2
<1> HIDE DEF r
<1>4. /\ a \in ClientState /\ a.pc = r.pc /\ a.reply = r.reply /\ a.back = r.back
      /\ a.file = r.file /\ a.range = r.range /\ a.files = r.files
  <2> DEFINE x == r.wire - k
             y == r.data + k
  <2>1. r.wire \in Int /\ r.data \in Int
    BY <1>1 DEF ClientState
  <2>2. x \in Int /\ y \in Int
    BY <2>1
  <2>3. a = [r EXCEPT !.wire = x, !.data = y]
    OBVIOUS
  <2> HIDE DEF x, y, a
  <2> QED
    BY <1>1, <2>2, <2>3, Zenon DEF ClientState
<1> HIDE DEF a
<1>5. /\ b \in ClientState /\ b.pc = r.pc /\ b.reply = r.reply /\ b.back = r.back
      /\ b.file = r.file /\ b.range = r.range /\ b.files = r.files
  <2>1. CASE b = a
    BY <1>4, <2>1
  <2>2. CASE b = [a EXCEPT !.len = Pickle, !.data = @ - 4]
    <3> DEFINE y == a.data - 4
    <3>1. y \in Int /\ Pickle \in Int
      BY <1>4, RemoteFormatAssumption DEF ClientState
    <3>2. b = [a EXCEPT !.len = Pickle, !.data = y]
      BY <2>2
    <3> HIDE DEF y, b
    <3> QED
      BY <1>4, <3>1, <3>2, Zenon DEF ClientState
  <2> QED
    BY <2>1, <2>2
<1> HIDE DEF b
<1>6. ClientOk(b, c)
  <2>1. SameWork(b, r)
    BY Zenon, <1>5 DEF SameWork
  <2>2. b.back > 0 \/ b.pc = "read" => b.reply = Whole(b.range, c)
    BY <1>1, <1>5 DEF ClientOk
  <2> QED
    BY Zenon, <1>1, <1>5, <2>1, <2>2, FSameWork
<1>7. CASE obj' = [obj EXCEPT !.cl[c] = b]
  BY <1>6, <1>7, FBecomes
<1>8. CASE F!OnMessage(b, c)
  <2> DEFINE whole == Whole(b.range, c)
             back == 4 + Len(whole)
             n == [b EXCEPT !.reply = whole, !.back = back, !.closed = TRUE]
             e == [b EXCEPT !.closed = TRUE]
  <2>1. obj' = [obj EXCEPT !.cl[c] = n] \/ obj' = [obj EXCEPT !.cl[c] = e]
    BY <1>8, Zenon DEF F!OnMessage, F!Prefix, Whole
  <2>2. whole \in Replies /\ back \in Nat
    <3>1. b.range \in Ranges
      BY <1>5 DEF ClientState
    <3>2. PICK p, q : SplitAt(F!Split(b.range), Lines, b.range, p, q)
      BY <3>1, RemoteFormatAssumption, SplitParts
    <3>3. q \in Nat /\ Len(F!Split(b.range).content) = q
      BY <3>2 DEF SplitAt
    <3>4. whole = [i \in 1 .. q |-> c]
      BY <3>3 DEF Whole
    <3> HIDE DEF whole
    <3>5. whole \in Replies /\ Len(whole) = q
      BY <3>3, <3>4 DEF Replies
    <3> QED
      BY <3>3, <3>5
  <2> HIDE DEF whole, back
  <2>3. n \in ClientState /\ n.pc = b.pc /\ n.reply = whole /\ n.file = b.file /\ n.range = b.range /\ n.files = b.files
    BY <1>5, <2>2, Zenon DEF ClientState
  <2>4. /\ e \in ClientState /\ e.pc = b.pc /\ e.reply = b.reply /\ e.back = b.back
        /\ e.file = b.file /\ e.range = b.range /\ e.files = b.files
    BY <1>5, Zenon DEF ClientState
  <2> HIDE DEF n, e
  <2>5. ClientOk(n, c)
    <3>1. n.reply = Whole(n.range, c)
      BY <2>3 DEF whole
    <3>2. SameWork(n, b)
      BY Zenon, <2>3 DEF SameWork
    <3> QED
      BY Zenon, <1>6, <2>3, <3>1, <3>2, FSameWork
  <2>6. ClientOk(e, c)
    BY <1>6, <2>4 DEF ClientOk
  <2> QED
    BY <2>1, <2>5, <2>6, FBecomes
<1> QED
  BY <1>3, <1>7, <1>8

\* The server ends: some of what came back is lost, none of it is changed.
LEMMA FCrash == ASSUME FInv, F!Crash PROVE FInv'
<1>1. PICK kept \in [Clients -> 0 .. 4 + Lines] :
        /\ \A c \in Clients : kept[c] <= obj.cl[c].back
        /\ obj' = [up |-> FALSE, cl |-> [c \in Clients |-> [obj.cl[c] EXCEPT !.closed = TRUE, !.back = kept[c]]]]
  BY Zenon DEF F!Crash, F!Prefix
<1>2. ASSUME NEW c \in Clients PROVE ClientOk([obj.cl[c] EXCEPT !.closed = TRUE, !.back = kept[c]], c)
  <2> DEFINE r == obj.cl[c]
             k == kept[c]
             n == [r EXCEPT !.closed = TRUE, !.back = k]
  <2>1. ClientOk(r, c) /\ r \in ClientState
    BY DEF FInv, ClientOk
  <2>2. k \in Nat /\ k <= r.back
    <3>1. Lines \in Nat
      BY RemoteFormatAssumption
    <3>2. k \in 0 .. 4 + Lines
      OBVIOUS
    <3>3. k \in Nat
      BY <3>1, <3>2
    <3> QED
      BY <1>1, <3>3, Zenon
  <2> HIDE DEF r, k
  <2>3. /\ n \in ClientState /\ n.pc = r.pc /\ n.reply = r.reply /\ n.back = k
        /\ n.file = r.file /\ n.range = r.range /\ n.files = r.files
    BY <2>1, <2>2, Zenon DEF ClientState
  <2>4. n.back > 0 \/ n.pc = "read" => r.back > 0 \/ r.pc = "read"
    BY <2>1, <2>2, <2>3 DEF ClientState
  <2> HIDE DEF n
  <2>5. ClientOk(n, c)
    BY <2>1, <2>3, <2>4 DEF ClientOk
  <2> QED
    BY Zenon, <2>5 DEF n, r, k
<1>3. \A c \in Clients : [obj.cl[c] EXCEPT !.closed = TRUE, !.back = kept[c]] \in ClientState
  BY <1>2, Zenon DEF ClientOk
<1>4. obj' \in [up : BOOLEAN, cl : [Clients -> ClientState]]
  BY <1>1, <1>3, Zenon
<1>5. \A c \in Clients : obj'.cl[c] = [obj.cl[c] EXCEPT !.closed = TRUE, !.back = kept[c]]
  BY <1>1, Zenon
<1> QED
  BY <1>2, <1>4, <1>5, Zenon DEF FInv

\* The server is started again.
LEMMA FRestart == ASSUME FInv, F!Restart PROVE FInv'
<1>1. obj \in [up : BOOLEAN, cl : [Clients -> ClientState]] /\ obj' = [obj EXCEPT !.up = TRUE]
  BY DEF FInv, F!Restart
<1>2. obj' \in [up : BOOLEAN, cl : [Clients -> ClientState]] /\ obj'.cl = obj.cl
  BY <1>1, Zenon
<1> QED
  BY <1>2 DEF FInv

\* Every step of clients and server keeps the invariant.
LEMMA FNext == ASSUME FInv, F!Next PROVE FInv'
BY Zenon, FConnect, FSend, FRecvSize, FRecv, FWriteReply, FTimeout, FDataReceived, FCrash, FRestart DEF F!Next, F!Formats

-----------------------------------------------------------------------------
(***************************************************************************)
(* The programs side by side.                                              *)
(***************************************************************************)

TextFilesInv ==
  /\ kind = "LogOutput" => OInv
  /\ kind = "RemoteFormat" => FInv

\* Both programs begin in their invariants.
LEMMA TextFilesInvInit == TextFilesInit => TextFilesInv
BY OInit, FInit DEF TextFilesInit, TextFilesInv

\* A step of one program keeps its invariant.
LEMMA TextFilesInvNext == TextFilesInv /\ [TextFilesNext]_vars => TextFilesInv'
<1> SUFFICES ASSUME TextFilesInv, [TextFilesNext]_vars PROVE TextFilesInv'
  OBVIOUS
<1>1. CASE kind = "LogOutput" /\ O!Next /\ UNCHANGED kind
  BY <1>1, ONext DEF TextFilesInv
<1>2. CASE kind = "RemoteFormat" /\ F!Next /\ UNCHANGED kind
  BY <1>2, FNext DEF TextFilesInv
<1>3. CASE UNCHANGED vars
  <2>1. kind' = kind /\ obj' = obj /\ ref' = ref
    BY <1>3 DEF vars
  <2>2. OInv => OInv'
    BY <2>1 DEF OInv
  <2>3. FInv => FInv'
    BY <2>1 DEF FInv
  <2> QED
    BY <2>1, <2>2, <2>3 DEF TextFilesInv
<1> QED
  BY <1>1, <1>2, <1>3 DEF TextFilesNext

\* LogFiles and logger, for any number of threads, any lines and any rotate_size_: whatever
\* steps of Append interleave and whatever writes come short, the files one after the other
\* hold the lines in the order they were written, bytes_written_ is what the open file took,
\* and no file exceeds rotate_size_ by more than a line. clang-format-client, for any number of
\* clients, files and lines and any range: a file is as it was or formatted where asked for,
\* in whatever pieces the streams come and whenever the server ends.
THEOREM FilesWholeAlways == TextFilesSpec => []FilesWhole
<1>1. TextFilesInv => FilesWhole
  BY OInvAgrees, FInvAgrees DEF TextFilesInv, FilesWhole
<1> QED
  BY TextFilesInvInit, TextFilesInvNext, <1>1, PTL DEF TextFilesSpec
=============================================================================

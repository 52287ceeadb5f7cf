--------------------------- MODULE HandoverProofs ---------------------------
(***************************************************************************)
(* What one side hands over, the other has once and whole: the messages in *)
(* the ring buffer of ProcessBus, for every block length, every size of an *)
(* int and every set of messages, and the gifts of ExchangeGifts, for any  *)
(* users and limits.                                                       *)
(***************************************************************************)
EXTENDS RingBuffer, Gifts, TLAPS, SequenceTheorems, FiniteSetTheorems, WellFoundedInduction

\* The time a leaf may take, which on a slow machine is more than the five seconds of the default.
USE SMTT(60)

(* The inductive invariant: the offsets and the bytes in memory describe the *)
(* unread messages.  None of its parts is inductive without the others.      *)
NonEmpty == \A i \in 1 .. Len(unread) : LenOf[unread[i].msg] # 0

IInv == TypeOK /\ Layout /\ UnreadIntact /\ NonEmpty /\ size = Len(unread)

Entry == [off : Offsets, msg : Messages]

\* A stored message takes the bytes of its length and of its payload.
LEMMA TotalPositive ==
  ASSUME NEW m \in Messages
  PROVE  Total(m) \in Nat /\ Total(m) > 0 /\ LenOf[m] \in Nat
         /\ Total(m) = SizeofLen + LenOf[m] /\ SizeofLen \in Nat /\ SizeofLen > 0
BY SizeofLenAssumption, LenOfAssumption DEF Total

\* An unread message begins inside the block and has an end after its beginning.
LEMMA EntryType ==
  ASSUME TypeOK, NEW i \in 1 .. Len(unread)
  PROVE  /\ unread[i] \in Entry /\ unread[i].msg \in Messages
         /\ First(i) \in Nat /\ First(i) < Length
         /\ End(i) \in Nat /\ First(i) < End(i)
<1>1. unread[i] \in Entry
  BY Zenon, ElementOfSeq DEF TypeOK, Entry
<1>2. unread[i].msg \in Messages /\ unread[i].off \in Offsets
  BY <1>1 DEF Entry
<1> QED
  BY <1>1, <1>2, TotalPositive, LengthAssumption DEF First, End, Offsets

\* Nothing is stored.
LEMMA InitIInv == Init => IInv
BY LengthAssumption
DEF Init, IInv, TypeOK, Layout, OffsetsMatch, Consecutive, InRange, InOrder,
    UnreadIntact, NonEmpty, Wrapped, AtPadding, Offsets, Bytes

\* Listen resets the offsets.
LEMMA ListenIInv == IInv /\ Listen => IInv'
BY LengthAssumption
DEF Listen, IInv, TypeOK, Layout, OffsetsMatch, Consecutive, InRange, InOrder,
    UnreadIntact, NonEmpty, Wrapped, AtPadding, Offsets

(* Nothing in the invariant speaks of ret. *)
LEMMA UnchangedIInv == IInv /\ UNCHANGED <<offsets, mem, unread>> => IInv'
BY DEF offsets, IInv, TypeOK, Layout, OffsetsMatch, Consecutive, InRange, InOrder,
       UnreadIntact, NonEmpty, Wrapped, AtPadding, First, End

(* Where Write puts a message: above all unread data, or in the gap between  *)
(* back_ and front_, strictly before front_.                                 *)
WriteAt(m) == IF NeedsPadding(m) THEN 0 ELSE back_offset

\* Push of a message for which there is room.
LEMMA PushIInv ==
  ASSUME IInv, NEW m \in Messages, CanPush(m), Write(m),
         size' = size + 1, UNCHANGED front_offset
  PROVE  IInv'
<1> DEFINE at == WriteAt(m)
           T == Total(m)
<1>0. PICK n \in Nat : n = Len(unread)
  BY LenProperties DEF IInv, TypeOK
<1>1. T \in Nat /\ T > 0
  BY TotalPositive
<1>2. /\ front_offset \in Nat /\ front_offset < Length
      /\ back_offset \in Nat /\ back_offset < Length
      /\ padding \in Nat /\ Length \in Nat
  BY LengthAssumption DEF IInv, TypeOK, Offsets
<1>3. /\ at \in Nat /\ at + T < Length
      /\ back_offset' = at + T
      /\ NeedsPadding(m) => /\ at = 0 /\ T < front_offset
                            /\ front_offset <= back_offset
                            /\ padding' = Length - back_offset
      /\ ~NeedsPadding(m) => at = back_offset /\ padding' = padding
      /\ Wrapped => at + T < front_offset /\ ~NeedsPadding(m)
  BY <1>1, <1>2 DEF CanPush, CheckCanWrite, NeedsPadding, Write, WriteAt, Wrapped
<1>4. /\ unread' \in Seq(Entry)
      /\ Len(unread') = n + 1
      /\ \A i \in 1 .. n : unread'[i] = unread[i]
      /\ unread'[n + 1] = [off |-> at, msg |-> m]
  <2>1. [off |-> at, msg |-> m] \in Entry
    BY <1>1, <1>2, <1>3 DEF Entry, Offsets
  <2>2. unread \in Seq(Entry) /\ unread' = Append(unread, [off |-> at, msg |-> m])
    BY DEF IInv, TypeOK, Entry, Write, WriteAt
  <2> QED
    BY <1>0, <2>1, <2>2, AppendProperties
<1>5. /\ \A i \in 1 .. n : First(i)' = First(i) /\ End(i)' = End(i)
      /\ First(n + 1)' = at /\ End(n + 1)' = at + T
  BY <1>4 DEF First, End, Total
<1>6. \A i \in 1 .. n : /\ First(i) \in Nat /\ End(i) \in Nat /\ First(i) < End(i)
  BY <1>0, EntryType DEF IInv
<1>7. Wrapped' <=> Wrapped \/ NeedsPadding(m)
  BY <1>1, <1>2, <1>3 DEF Wrapped, NeedsPadding
<1>8. OffsetsMatch'
  <2>1. unread' # <<>>
    BY <1>4, <1>0
  <2>2. (Wrapped <=> padding > 0)'
    BY <1>1, <1>2, <1>3, <1>7 DEF IInv, Layout, OffsetsMatch
  <2>3. (Wrapped => front_offset + padding <= Length)'
    BY <1>1, <1>2, <1>3, <1>7 DEF IInv, Layout, OffsetsMatch
  <2>4. front_offset' # back_offset'
    BY <1>1, <1>2, <1>3, <1>7 DEF IInv, Layout, OffsetsMatch, Wrapped, NeedsPadding
  <2>5. End(Len(unread))' = back_offset'
    BY <1>3, <1>4, <1>5
  <2>6. First(1)' = IF AtPadding' THEN 0 ELSE front_offset'
    <3>1. CASE n = 0
      BY <3>1, <1>0, <1>1, <1>2, <1>3, <1>5 DEF IInv, Layout, OffsetsMatch, AtPadding
    <3>2. CASE n > 0
      <4>1. First(1)' = First(1) /\ unread # <<>> /\ front_offset # back_offset
        BY <3>2, <1>0, <1>5 DEF IInv, Layout, OffsetsMatch
      <4> QED
        BY <4>1, <1>1, <1>2, <1>3 DEF IInv, Layout, OffsetsMatch, AtPadding, Wrapped
    <3> QED
      BY <3>1, <3>2
  <2> QED
    BY <2>1, <2>2, <2>3, <2>4, <2>5, <2>6 DEF OffsetsMatch
<1>9. Consecutive'
  <2>1. SUFFICES ASSUME NEW i \in 1 .. n
                 PROVE  (\/ First(i + 1) = End(i)
                         \/ Wrapped /\ End(i) = Length - padding /\ First(i + 1) = 0)'
    BY <1>4 DEF Consecutive
  <2>2. CASE i < n
    <3>1. /\ First(i)' = First(i) /\ End(i)' = End(i) /\ First(i + 1)' = First(i + 1)
          /\ i \in 1 .. Len(unread) - 1
      BY <2>2, <1>0, <1>5
    <3> QED
      BY <3>1, <1>3, <1>7 DEF IInv, Layout, Consecutive
  <2>3. CASE i = n
    <3>1. End(i)' = back_offset /\ First(i + 1)' = at
      BY <2>3, <1>0, <1>5 DEF IInv, Layout, OffsetsMatch
    <3> QED
      BY <3>1, <1>2, <1>3, <1>7
  <2> QED
    BY <2>2, <2>3
<1>10. InRange'
  <2>1. SUFFICES ASSUME NEW i \in 1 .. n + 1
                 PROVE (\/ ~Wrapped /\ front_offset <= First(i) /\ End(i) <= back_offset
                        \/ Wrapped /\ front_offset <= First(i) /\ End(i) <= Length - padding
                        \/ Wrapped /\ End(i) <= back_offset)'
    BY <1>4 DEF InRange
  <2>2. CASE i \in 1 .. n
    BY <2>2, <1>0, <1>1, <1>2, <1>3, <1>5, <1>6, <1>7 DEF IInv, Layout, InRange, Wrapped
  <2>3. CASE i = n + 1
    BY <2>3, <1>1, <1>2, <1>3, <1>5, <1>7 DEF Wrapped
  <2> QED
    BY <2>2, <2>3
<1>11. InOrder'
  <2>1. SUFFICES ASSUME NEW i \in 1 .. n + 1, NEW j \in 1 .. n + 1, i < j
                 PROVE  (\/ End(i) <= First(j)
                         \/ Wrapped /\ front_offset <= First(i) /\ End(j) <= back_offset)'
    BY <1>4 DEF InOrder
  <2>2. i \in 1 .. n /\ First(i)' = First(i) /\ End(i)' = End(i)
    BY <1>5, <2>1
  <2>3. CASE j \in 1 .. n
    BY <2>1, <2>2, <2>3, <1>0, <1>1, <1>2, <1>3, <1>5, <1>6, <1>7
    DEF IInv, Layout, InOrder, Wrapped
  <2>4. CASE j = n + 1
    BY <2>2, <2>4, <1>0, <1>1, <1>2, <1>3, <1>5, <1>6, <1>7
    DEF IInv, Layout, InRange, Wrapped
  <2> QED
    BY <2>3, <2>4
<1>12. \A o \in Offsets :
         /\ o >= at /\ o < at + T => mem'[o] = Image(m, o - at)
         /\ (o < at \/ o >= at + T) /\ ~(NeedsPadding(m) /\ o >= back_offset)
              => mem'[o] = mem[o]
  BY <1>1, <1>2, <1>3 DEF Write, WriteAt, Offsets
<1>13. UnreadIntact'
  <2>1. SUFFICES ASSUME NEW i \in 1 .. n + 1, NEW p \in 0 .. Total(unread'[i].msg) - 1
                 PROVE  mem'[First(i)' + p] = Image(unread'[i].msg, p)
    BY <1>4 DEF UnreadIntact, Total, Image
  <2>2. CASE i \in 1 .. n
    <3>1. /\ First(i)' = First(i) /\ unread'[i] = unread[i]
          /\ p \in Nat /\ First(i) + p < End(i)
      BY <2>1, <2>2, <1>0, <1>4, <1>5, <1>6, EntryType, TotalPositive DEF End, First, IInv
    <3>2. /\ First(i) + p \in Offsets
          /\ First(i) + p < at \/ First(i) + p >= at + T
          /\ ~(NeedsPadding(m) /\ First(i) + p >= back_offset)
      <4>1. \/ ~Wrapped /\ front_offset <= First(i) /\ End(i) <= back_offset
            \/ Wrapped /\ front_offset <= First(i) /\ End(i) <= Length - padding
            \/ Wrapped /\ End(i) <= back_offset
        BY <2>2, <1>0 DEF IInv, Layout, InRange
      <4>2. First(i) \in Nat /\ End(i) \in Nat
        BY <2>2, <1>6
      <4>3. First(i) + p \in Offsets
        BY <4>1, <4>2, <3>1, <1>2 DEF Offsets
      <4>4. CASE Wrapped
        BY <4>1, <4>2, <4>3, <4>4, <3>1, <1>1, <1>2, <1>3 DEF Wrapped
      <4>5. CASE ~Wrapped
        BY <4>1, <4>2, <4>3, <4>5, <3>1, <1>1, <1>2, <1>3 DEF Wrapped
      <4> QED
        BY <4>4, <4>5
    <3>3. mem[First(i) + p] = Image(unread[i].msg, p)
      BY <2>1, <2>2, <3>1, <1>0 DEF IInv, UnreadIntact
    <3> QED
      BY <3>1, <3>2, <3>3, <1>12
  <2>3. CASE i = n + 1
    <3>1. First(i)' = at /\ unread'[i].msg = m /\ p \in Nat /\ p < T
      BY <2>1, <2>3, <1>1, <1>4, <1>5
    <3>2. at + p \in Offsets /\ at + p >= at /\ at + p < at + T /\ (at + p) - at = p
      BY <3>1, <1>1, <1>2, <1>3 DEF Offsets
    <3> QED
      BY <3>1, <3>2, <1>12
  <2> QED
    BY <2>2, <2>3
<1>14. TypeOK'
  <2>1. mem' \in [Offsets -> Bytes]
    <3>1. \A o \in Offsets : o >= at /\ o < at + T => Image(m, o - at) \in Bytes
      <4>1. \A p \in 0 .. T - 1 : Image(m, p) \in Bytes
        BY DEF Bytes
      <4> QED
        BY <4>1, <1>1, <1>2, <1>3 DEF Offsets
    <3>2. Zero \in Bytes
      BY DEF Bytes
    <3> QED
      BY <3>1, <3>2 DEF IInv, TypeOK, Write, WriteAt
  <2>2. size' \in Nat /\ back_offset' \in Offsets /\ padding' \in 0 .. Length
    BY <1>1, <1>2, <1>3 DEF IInv, TypeOK, Offsets
  <2> QED
    BY <2>1, <2>2, <1>4 DEF IInv, TypeOK, Entry
<1>15. NonEmpty'
  BY <1>0, <1>4 DEF IInv, NonEmpty, CanPush
<1> QED
  BY <1>0, <1>4, <1>8, <1>9, <1>10, <1>11, <1>13, <1>14, <1>15 DEF IInv, Layout

(* Pop's test, used() == 0, is exact. *)
LEMMA UsedZero ==
  ASSUME IInv
  PROVE  used = 0 <=> unread = <<>>
<1>1. /\ front_offset \in Nat /\ back_offset \in Nat /\ padding \in Nat
      /\ Length \in Nat /\ Len(unread) \in Nat
  BY LengthAssumption, LenProperties DEF IInv, TypeOK, Offsets
<1>2. CASE unread = <<>>
  BY <1>1, <1>2 DEF IInv, Layout, OffsetsMatch, used
<1>3. CASE unread # <<>>
  <2>1. Len(unread) \in 1 .. Len(unread)
    BY <1>1, <1>3, EmptySeq DEF IInv, TypeOK
  <2>2. back_offset > 0 /\ front_offset # back_offset
    BY <1>1, <1>3, <2>1, EntryType DEF IInv, Layout, OffsetsMatch
  <2> QED
    BY <1>1, <1>3, <2>2 DEF IInv, Layout, OffsetsMatch, Wrapped, used
<1> QED
  BY <1>2, <1>3

(* ReadNext finds the length and the payload of the oldest unread message.   *)
LEMMA ReadsFirst ==
  ASSUME IInv, unread # <<>>
  PROVE  /\ 1 \in 1 .. Len(unread)
         /\ First(1) = IF AtPadding THEN 0 ELSE front_offset
         /\ IntsAt(First(1)) = {LenOf[unread[1].msg]}
         /\ BytesAt(First(1) + SizeofLen, LenOf[unread[1].msg]) = unread[1].msg
<1> DEFINE m == unread[1].msg
<1>1. Len(unread) \in Nat /\ 1 \in 1 .. Len(unread)
  BY LenProperties, EmptySeq DEF IInv, TypeOK
<1>2. /\ m \in Messages /\ First(1) \in Nat /\ LenOf[m] \in Nat /\ LenOf[m] # 0
      /\ SizeofLen \in Nat /\ SizeofLen > 0 /\ Total(m) = SizeofLen + LenOf[m]
  BY <1>1, EntryType, TotalPositive DEF IInv, NonEmpty
<1>3. First(1) + Total(m) <= Length
  <2>1. End(1) <= back_offset \/ End(1) <= Length - padding
    BY <1>1 DEF IInv, Layout, InRange
  <2>2. /\ End(1) = First(1) + Total(m) /\ padding \in Nat
        /\ back_offset \in Nat /\ back_offset < Length /\ Length \in Nat
    BY LengthAssumption DEF IInv, TypeOK, Offsets, End, First
  <2> QED
    BY <1>2, <2>1, <2>2
<1>4. \A p \in 0 .. Total(m) - 1 :
        First(1) + p \in Offsets /\ mem[First(1) + p] = Image(m, p)
  BY <1>1, <1>2, <1>3, LengthAssumption DEF IInv, UnreadIntact, Offsets
<1>5. IntsAt(First(1)) = {LenOf[m]}
  <2>1. IsIntAt(First(1), LenOf[m])
    <3>1. \A p \in 0 .. SizeofLen - 1 : p \in 0 .. Total(m) - 1 /\ p < SizeofLen
      BY <1>2
    <3>2. \A p \in 0 .. SizeofLen - 1 : Image(m, p) = <<LenOf[m], p>>
      BY <3>1 DEF Image
    <3> QED
      BY <1>4, <3>1, <3>2 DEF IsIntAt
  <2>2. ASSUME NEW k, IsIntAt(First(1), k)
        PROVE  k = LenOf[m]
    BY <1>2, <2>1, <2>2 DEF IsIntAt
  <2> QED
    BY <1>2, <2>1, <2>2 DEF IntsAt
<1>6. BytesAt(First(1) + SizeofLen, LenOf[m]) = m
  <2>1. IsPayloadAt(First(1) + SizeofLen, LenOf[m], m)
    <3>1. SUFFICES ASSUME NEW p \in 0 .. LenOf[m] - 1
                   PROVE  /\ First(1) + SizeofLen + p \in Offsets
                          /\ mem[First(1) + SizeofLen + p] = <<m, p>>
      BY DEF IsPayloadAt
    <3>2. /\ SizeofLen + p \in 0 .. Total(m) - 1 /\ ~(SizeofLen + p < SizeofLen)
          /\ (SizeofLen + p) - SizeofLen = p
          /\ First(1) + (SizeofLen + p) = First(1) + SizeofLen + p
      BY <1>2
    <3> QED
      BY Zenon, <3>2, <1>4 DEF Image
  <2>2. ASSUME NEW k, IsPayloadAt(First(1) + SizeofLen, LenOf[m], k)
        PROVE  k = m
    <3>1. 0 \in 0 .. LenOf[m] - 1
      BY <1>2
    <3> QED
      BY <3>1, <2>1, <2>2 DEF IsPayloadAt
  <2> QED
    BY <1>2, <2>1, <2>2 DEF BytesAt
<1> QED
  BY <1>1, <1>5, <1>6 DEF IInv, Layout, OffsetsMatch

\* Pop of a buffer that is not empty.
LEMMA PopIInv ==
  ASSUME IInv, Pop, used # 0
  PROVE  IInv'
<1>0. PICK n \in Nat : n = Len(unread)
  BY Zenon, LenProperties DEF IInv, TypeOK
<1>1. /\ unread # <<>> /\ n > 0
      /\ unread' = Tail(unread) /\ Len(unread') = n - 1
      /\ unread' \in Seq(Entry)
      /\ \A i \in 1 .. n - 1 : unread'[i] = unread[i + 1]
  BY <1>0, UsedZero, EmptySeq, HeadTailProperties DEF IInv, TypeOK, Entry, Pop
<1>2. /\ front_offset \in Nat /\ front_offset < Length
      /\ back_offset \in Nat /\ back_offset < Length
      /\ padding \in Nat /\ Length \in Nat
  BY LengthAssumption DEF IInv, TypeOK, Offsets
<1>3. /\ First(1) = IF AtPadding THEN 0 ELSE front_offset
      /\ front_offset' = End(1) /\ back_offset' = back_offset
      /\ padding' = IF AtPadding THEN 0 ELSE padding
      /\ size' = size - 1 /\ mem' = mem
  <2>1. unread[1].msg \in Messages /\ First(1) \in Nat
    BY <1>1, ReadsFirst, EntryType DEF IInv
  <2>2. First(1) + SizeofLen + LenOf[unread[1].msg] = End(1)
    BY <2>1, TotalPositive DEF First, End
  <2> QED
    BY <1>1, <2>2, ReadsFirst DEF Pop, ReadNext
<1>4. \A i \in 1 .. n - 1 : /\ i + 1 \in 1 .. n
                           /\ First(i)' = First(i + 1) /\ End(i)' = End(i + 1)
  BY <1>1 DEF First, End, Total
<1>5. \A i \in 1 .. n : /\ First(i) \in Nat /\ End(i) \in Nat /\ First(i) < End(i)
  BY <1>0, EntryType DEF IInv
<1>6. \A i \in 1 .. n :
        \/ ~Wrapped /\ front_offset <= First(i) /\ End(i) <= back_offset
        \/ Wrapped /\ front_offset <= First(i) /\ End(i) <= Length - padding
        \/ Wrapped /\ End(i) <= back_offset
  BY <1>0 DEF IInv, Layout, InRange
<1>7. \A i \in 1 .. n - 1 :
        \/ End(1) <= First(i + 1)
        \/ Wrapped /\ front_offset <= First(1) /\ End(i + 1) <= back_offset
  BY <1>0 DEF IInv, Layout, InOrder
<1>8. 1 \in 1 .. n /\ First(1) \in Nat /\ End(1) \in Nat /\ First(1) < End(1)
  BY <1>1, <1>5
(* Before the padding, the data still wraps; past it, it does not any more.  *)
<1>9. /\ AtPadding => /\ Wrapped /\ ~Wrapped'
                      /\ \A i \in 1 .. n : End(i) <= back_offset
      /\ ~AtPadding => (Wrapped' <=> Wrapped)
      /\ Wrapped' => End(1) <= Length - padding
  <2>1. CASE AtPadding
    <3>1. Wrapped
      BY <2>1, <1>2 DEF IInv, Layout, OffsetsMatch, AtPadding
    <3>2. \A i \in 1 .. n : End(i) <= back_offset
      BY <2>1, <3>1, <1>2, <1>5, <1>6 DEF AtPadding
    <3> QED
      BY <2>1, <3>1, <3>2, <1>2, <1>3, <1>8 DEF Wrapped
  <2>2. CASE ~AtPadding
    BY <2>2, <1>2, <1>3, <1>6, <1>8 DEF Wrapped
  <2> QED
    BY <2>1, <2>2
<1>10. InRange'
  <2>1. SUFFICES ASSUME NEW i \in 1 .. n - 1
                 PROVE (\/ ~Wrapped /\ front_offset <= First(i) /\ End(i) <= back_offset
                        \/ Wrapped /\ front_offset <= First(i) /\ End(i) <= Length - padding
                        \/ Wrapped /\ End(i) <= back_offset)'
    BY <1>1 DEF InRange
  <2>2. /\ i + 1 \in 1 .. n /\ First(i)' = First(i + 1) /\ End(i)' = End(i + 1)
        /\ First(i + 1) \in Nat /\ End(i + 1) \in Nat /\ First(i + 1) < End(i + 1)
    BY <1>4, <1>5
  <2>3. CASE AtPadding
    BY <2>2, <2>3, <1>2, <1>3, <1>7, <1>8, <1>9 DEF Wrapped
  <2>4. CASE ~AtPadding
    BY <2>2, <2>4, <1>2, <1>3, <1>6, <1>7, <1>8, <1>9 DEF Wrapped
  <2> QED
    BY <2>3, <2>4
<1>11. Consecutive'
  <2>1. SUFFICES ASSUME NEW i \in 1 .. n - 2
                 PROVE  (\/ First(i + 1) = End(i)
                         \/ Wrapped /\ End(i) = Length - padding /\ First(i + 1) = 0)'
    BY <1>1 DEF Consecutive
  <2>2. /\ i + 1 \in 1 .. n /\ End(i)' = End(i + 1) /\ End(i + 1) \in Nat
        /\ First(i + 1)' = First(i + 1 + 1)
    BY <1>4, <1>5
  <2>3. \/ First(i + 1 + 1) = End(i + 1)
        \/ Wrapped /\ End(i + 1) = Length - padding /\ First(i + 1 + 1) = 0
    BY <1>0 DEF IInv, Layout, Consecutive
  <2>4. CASE AtPadding
    BY <2>2, <2>3, <2>4, <1>2, <1>9 DEF Wrapped, AtPadding
  <2>5. CASE ~AtPadding
    BY <2>2, <2>3, <2>5, <1>3, <1>9
  <2> QED
    BY <2>4, <2>5
<1>12. InOrder'
  <2>1. SUFFICES ASSUME NEW i \in 1 .. n - 1, NEW j \in 1 .. n - 1, i < j
                 PROVE  (\/ End(i) <= First(j)
                         \/ Wrapped /\ front_offset <= First(i) /\ End(j) <= back_offset)'
    BY <1>1 DEF InOrder
  <2>2. /\ i + 1 \in 1 .. n /\ First(i)' = First(i + 1) /\ End(i)' = End(i + 1)
        /\ j + 1 \in 1 .. n /\ First(j)' = First(j + 1) /\ End(j)' = End(j + 1)
        /\ First(i + 1) \in Nat /\ End(i + 1) \in Nat /\ First(i + 1) < End(i + 1)
    BY <1>4, <1>5
  <2>3. \/ End(i + 1) <= First(j + 1)
        \/ Wrapped /\ front_offset <= First(i + 1) /\ End(j + 1) <= back_offset
    BY <2>1, <1>0 DEF IInv, Layout, InOrder
  <2>4. CASE AtPadding
    BY <2>2, <2>3, <2>4, <1>2, <1>9 DEF Wrapped
  <2>5. CASE ~AtPadding
    <3>1. \/ ~Wrapped
          \/ End(1) <= First(i + 1)
          \/ End(i + 1) <= back_offset
      BY <1>7
    <3> QED
      BY <3>1, <2>2, <2>3, <2>5, <1>2, <1>3, <1>9 DEF Wrapped
  <2> QED
    BY <2>4, <2>5
<1>13. OffsetsMatch'
  <2>1. (Wrapped <=> padding > 0)' /\ (Wrapped => front_offset + padding <= Length)'
    BY <1>2, <1>3, <1>8, <1>9 DEF IInv, Layout, OffsetsMatch
  <2>2. End(n) = back_offset
    BY <1>0, <1>1 DEF IInv, Layout, OffsetsMatch
  <2>3. CASE n = 1
    <3>1. unread' = <<>>
      BY <2>3, <1>1, EmptySeq
    <3>2. front_offset' = back_offset'
      BY <2>2, <2>3, <1>3
    <3> QED
      BY <2>1, <3>1, <3>2 DEF OffsetsMatch
  <2>4. CASE n > 1
    <3>1. /\ unread' # <<>> /\ n - 1 \in 1 .. n - 1 /\ 1 \in 1 .. n - 1
          /\ n - 1 + 1 = n /\ 1 + 1 = 2 /\ n \in 1 .. n /\ 2 \in 1 .. n
      <4>1. unread' # <<>>
        <5>1. Len(unread') = n - 1
          BY <1>1
        <5>2. Len(unread') # 0
          BY <5>1, <2>4
        <5> QED
          BY <5>2
      <4> QED
        BY <2>4, <4>1
    <3>2. End(Len(unread))' = back_offset'
      BY <2>2, <3>1, <1>1, <1>3, <1>4
    <3>3. front_offset' # back_offset'
      <4>1. \/ End(1) <= First(n)
            \/ Wrapped /\ front_offset <= First(1) /\ ~AtPadding
        <5>1. \/ End(1) <= First(n - 1 + 1)
              \/ Wrapped /\ front_offset <= First(1) /\ End(n - 1 + 1) <= back_offset
          BY <3>1, <1>7
        <5> QED
          BY <5>1, <3>1, <1>2, <1>3 DEF Wrapped
      <4> QED
        BY <4>1, <2>2, <3>1, <1>2, <1>3, <1>5, <1>8, <1>9 DEF Wrapped
    <3>4. First(1)' = IF AtPadding' THEN 0 ELSE front_offset'
      <4>1. First(1)' = First(2) /\ First(2) \in Nat /\ End(2) \in Nat /\ First(2) < End(2)
        BY <3>1, <1>4, <1>5
      <4>2. \/ First(2) = End(1)
            \/ Wrapped /\ End(1) = Length - padding /\ First(2) = 0
        <5>1. 1 \in 1 .. Len(unread) - 1
          BY <2>4, <1>0
        <5> QED
          BY <5>1, <3>1 DEF IInv, Layout, Consecutive
      <4>3. CASE AtPadding
        BY <4>1, <4>2, <4>3, <1>2, <1>3, <1>8, <1>9 DEF AtPadding, Wrapped
      <4>4. CASE ~AtPadding
        BY <4>1, <4>2, <4>4, <3>1, <1>2, <1>3, <1>6, <1>8, <1>9
        DEF IInv, Layout, OffsetsMatch, AtPadding, Wrapped
      <4> QED
        BY <4>3, <4>4
    <3> QED
      BY <2>1, <3>1, <3>2, <3>3, <3>4 DEF OffsetsMatch
  <2> QED
    BY <2>3, <2>4, <1>1
<1>14. UnreadIntact' /\ NonEmpty'
  <2>1. \A i \in 1 .. n - 1 : First(i)' = First(i + 1) /\ unread'[i].msg = unread[i + 1].msg
                             /\ i + 1 \in 1 .. Len(unread)
    BY <1>0, <1>1, <1>4
  <2>2. UnreadIntact'
    <3>1. SUFFICES ASSUME NEW i \in 1 .. n - 1, NEW p \in 0 .. Total(unread'[i].msg) - 1
                   PROVE  mem'[First(i)' + p] = Image(unread'[i].msg, p)
      BY Zenon, <1>1 DEF UnreadIntact, Total, Image
    <3> QED
      BY <2>1, <1>3 DEF IInv, UnreadIntact
  <2>3. NonEmpty'
    BY <2>1, <1>1 DEF IInv, NonEmpty
  <2> QED
    BY <2>2, <2>3
<1>15. TypeOK'
  <2>1. size' \in Nat /\ back_offset' \in Offsets /\ padding' \in 0 .. Length
    BY <1>0, <1>1, <1>2, <1>3 DEF IInv, TypeOK, Offsets
  <2>2. front_offset' \in Offsets
    BY <1>2, <1>3, <1>6, <1>8, <1>9 DEF Wrapped, Offsets, IInv, Layout, OffsetsMatch
  <2> QED
    BY <2>1, <2>2, <1>1, <1>3 DEF IInv, TypeOK, Entry
<1> QED
  BY <1>0, <1>1, <1>3, <1>10, <1>11, <1>12, <1>13, <1>14, <1>15 DEF IInv, Layout

\* Every call keeps the invariant.
LEMMA NextIInv == IInv /\ [Next]_busVars => IInv'
<1> SUFFICES ASSUME IInv, [Next]_busVars PROVE IInv'
  OBVIOUS
<1>1. ASSUME NEW m \in Messages, Push(m) PROVE IInv'
  BY Zenon, <1>1, PushIInv, UnchangedIInv DEF Push
<1>2. CASE Pop
  BY <1>2, PopIInv, UnchangedIInv DEF Pop
<1>3. CASE Listen
  BY <1>3, ListenIInv
<1>4. CASE UNCHANGED busVars
  BY <1>4, UnchangedIInv DEF busVars, offsets
<1> QED
  BY <1>1, <1>2, <1>3, <1>4 DEF Next

\* The invariant of RingBuffer holds in every reachable state.
LEMMA AlwaysIInv == Spec => []IInv
BY InitIInv, NextIInv, PTL DEF Spec

(* The offsets stay inside the block and the history has its type: set_front *)
(* and set_back never leave [start_, end_).                                  *)
THEOREM TypeCorrect == Spec => []TypeOK
<1>1. IInv => TypeOK
  BY DEF IInv
<1> QED
  BY <1>1, AlwaysIInv, PTL

(* front_, back_ and padding_ describe exactly the unread messages, for every *)
(* block length: the messages are disjoint, in order, and inside the block.   *)
THEOREM LayoutCorrect == Spec => []Layout
<1>1. IInv => Layout
  BY DEF IInv
<1> QED
  BY <1>1, AlwaysIInv, PTL

(* Write never overwrites a message that Pop has not returned yet.            *)
THEOREM NoOverwrite == Spec => []UnreadIntact
<1>1. IInv => UnreadIntact
  BY DEF IInv
<1> QED
  BY <1>1, AlwaysIInv, PTL

(* size() counts the messages that Pop will return, and is 0 exactly when     *)
(* used() is.                                                                 *)
THEOREM CountsCorrect == Spec => []CountsAgree
<1>1. IInv => CountsAgree
  <2>1. IInv => (unread = <<>> <=> Len(unread) = 0)
    BY EmptySeq DEF IInv, TypeOK
  <2> QED
    BY <2>1, UsedZero DEF IInv, CountsAgree
<1> QED
  BY <1>1, AlwaysIInv, PTL

(* CheckCanWrite lets an empty buffer take every message of less than half of *)
(* the block.                                                                 *)
THEOREM SmallAccepted == Spec => []EmptyAcceptsSmall
<1>1. IInv => EmptyAcceptsSmall
  <2>1. SUFFICES ASSUME IInv, size = 0,
                        NEW m \in Messages, LenOf[m] # 0, 2 * Total(m) < Length
                 PROVE  CanPush(m)
    BY DEF EmptyAcceptsSmall
  <2>2. front_offset = back_offset
    BY Zenon, <2>1, EmptySeq DEF IInv, TypeOK, Layout, OffsetsMatch
  <2>3. /\ front_offset \in Nat /\ front_offset < Length /\ Length \in Nat
    BY <2>1, LengthAssumption DEF IInv, TypeOK, Offsets
  <2> QED
    BY <2>1, <2>2, <2>3, TotalPositive DEF CanPush, CheckCanWrite, NeedsPadding
<1> QED
  BY <1>1, AlwaysIInv, PTL

-----------------------------------------------------------------------------
(* The refinement mapping: the queue is the sequence of unread messages.     *)
Queue(u) == [i \in 1 .. Len(u) |-> u[i].msg]

\* The queue is the unread messages in order.
LEMMA QueueType ==
  ASSUME NEW u \in Seq(Entry)
  PROVE  /\ Queue(u) \in Seq(Messages) /\ Len(Queue(u)) = Len(u)
         /\ \A i \in 1 .. Len(u) : Queue(u)[i] = u[i].msg
<1>1. Len(u) \in Nat /\ \A i \in 1 .. Len(u) : u[i] \in Entry
  BY LenProperties, ElementOfSeq
<1>2. \A i \in 1 .. Len(u) : u[i].msg \in Messages
  BY <1>1 DEF Entry
<1> QED
  BY <1>1, <1>2 DEF Queue

\* Push appends to the queue.
LEMMA QueueAppend ==
  ASSUME NEW u \in Seq(Entry), NEW e \in Entry
  PROVE  Queue(Append(u, e)) = Append(Queue(u), e.msg)
<1> DEFINE s == Queue(Append(u, e))
           t == Append(Queue(u), e.msg)
<1>1. /\ Append(u, e) \in Seq(Entry) /\ Len(Append(u, e)) = Len(u) + 1
      /\ \A i \in 1 .. Len(u) : Append(u, e)[i] = u[i]
      /\ Append(u, e)[Len(u) + 1] = e
  BY AppendProperties
<1>2. e.msg \in Messages /\ Len(u) \in Nat
  BY LenProperties DEF Entry
<1>3. /\ s \in Seq(Messages) /\ Len(s) = Len(u) + 1
      /\ \A i \in 1 .. Len(u) + 1 : s[i] = Append(u, e)[i].msg
  BY Zenon, <1>1, QueueType
<1>4. /\ t \in Seq(Messages) /\ Len(t) = Len(u) + 1
      /\ \A i \in 1 .. Len(u) : t[i] = u[i].msg
      /\ t[Len(u) + 1] = e.msg
  BY <1>2, QueueType, AppendProperties
<1>5. \A i \in 1 .. Len(s) : s[i] = t[i]
  BY <1>1, <1>2, <1>3, <1>4
<1> QED
  BY <1>3, <1>4, <1>5, SeqEqual

\* Pop takes the head of the queue.
LEMMA QueueTail ==
  ASSUME NEW u \in Seq(Entry), u # <<>>
  PROVE  /\ Queue(u) # <<>> /\ Head(Queue(u)) = u[1].msg
         /\ Queue(Tail(u)) = Tail(Queue(u))
<1>1. /\ Len(u) \in Nat /\ Len(u) # 0
      /\ Tail(u) \in Seq(Entry) /\ Len(Tail(u)) = Len(u) - 1
      /\ \A i \in 1 .. Len(Tail(u)) : Tail(u)[i] = u[i + 1]
  BY LenProperties, EmptySeq, HeadTailProperties
<1>2. Queue(u) # <<>>
  BY <1>1, QueueType, EmptySeq
<1>3. /\ Tail(Queue(u)) \in Seq(Messages) /\ Len(Tail(Queue(u))) = Len(u) - 1
      /\ \A i \in 1 .. Len(u) - 1 : Tail(Queue(u))[i] = Queue(u)[i + 1]
  BY <1>1, <1>2, QueueType, HeadTailProperties
<1>4. \A i \in 1 .. Len(u) - 1 : Queue(Tail(u))[i] = Tail(Queue(u))[i]
  <2>1. SUFFICES ASSUME NEW i \in 1 .. Len(u) - 1
                 PROVE  Queue(Tail(u))[i] = Tail(Queue(u))[i]
    BY Zenon
  <2>2. i \in 1 .. Len(Tail(u)) /\ i + 1 \in 1 .. Len(u)
    BY <1>1
  <2>3. Queue(Tail(u))[i] = Tail(u)[i].msg
    BY Zenon, <2>2, <1>1, QueueType
  <2>4. Queue(u)[i + 1] = u[i + 1].msg
    BY <2>2, QueueType
  <2> QED
    BY <2>2, <2>3, <2>4, <1>1, <1>3
<1>5. Queue(Tail(u)) \in Seq(Messages) /\ Len(Queue(Tail(u))) = Len(u) - 1
  BY Zenon, <1>1, QueueType
<1>6. Queue(Tail(u)) = Tail(Queue(u))
  BY Zenon, <1>3, <1>4, <1>5, SeqEqual
<1>7. Head(Queue(u)) = u[1].msg
  <2>1. Head(Queue(u)) = Queue(u)[1] /\ 1 \in 1 .. Len(u)
    BY <1>1, <1>2, QueueType
  <2> QED
    BY <2>1, QueueType
<1> QED
  BY <1>2, <1>6, <1>7

(* Seen through the unread messages, Push, Pop and Listen are the operations  *)
(* of a FIFO queue: the messages come out complete and in the order in which  *)
(* they were accepted, and Pop returns NULL only when there is none.          *)
THEOREM BufferIsFifo == Spec => FifoSpec
<1>1. Init => Fifo!Init
  BY DEF Init, Fifo!Init
<1>2. IInv /\ [Next]_busVars => [Fifo!Next]_(Fifo!vars)
  <2> SUFFICES ASSUME IInv, [Next]_busVars PROVE [Fifo!Next]_(Fifo!vars)
    OBVIOUS
  <2>0. unread \in Seq(Entry)
    BY DEF IInv, TypeOK, Entry
  <2>1. ASSUME NEW m \in Messages, Push(m)
        PROVE  Fifo!Push(m)
    <3>1. CASE CanPush(m) /\ Write(m) /\ ret' = <<"Push", TRUE>>
      <4>1. PICK e \in Entry : unread' = Append(unread, e) /\ e.msg = m
        <5>1. WriteAt(m) \in Offsets
          BY LengthAssumption DEF IInv, TypeOK, WriteAt, Offsets
        <5> QED
          BY <3>1, <5>1 DEF Write, WriteAt, Entry
      <4>2. Queue(unread') = Append(Queue(unread), m)
        BY <4>1, <2>0, QueueAppend
      <4> QED
        BY Zenon, <3>1, <4>2 DEF Fifo!Push, Queue
    <3>2. CASE ret' = <<"Push", FALSE>> /\ UNCHANGED unread
      BY <3>2 DEF Fifo!Push
    <3> QED
      BY Zenon, <2>1, <3>1, <3>2 DEF Push
  <2>2. ASSUME Pop PROVE Fifo!Pop
    <3>1. CASE used = 0
      <4>1. unread = <<>> /\ unread' = <<>>
        BY <2>2, <3>1, UsedZero DEF Pop
      <4> QED
        BY <2>2, <3>1, <4>1 DEF Pop, Fifo!Pop
    <3>2. CASE used # 0
      <4>1. unread # <<>> /\ unread' = Tail(unread)
        BY <2>2, <3>2, UsedZero DEF Pop
      <4>2. ret' = <<"Pop", unread[1].msg>>
        BY <2>2, <3>2, <4>1, ReadsFirst DEF Pop, ReadNext
      <4>3. /\ Queue(unread) # <<>> /\ Head(Queue(unread)) = unread[1].msg
            /\ Queue(unread') = Tail(Queue(unread))
        BY <2>0, <4>1, QueueTail
      <4> QED
        BY Zenon, <4>2, <4>3 DEF Fifo!Pop, Queue
    <3> QED
      BY <3>1, <3>2
  <2>3. ASSUME Listen PROVE Fifo!Listen
    BY <2>3 DEF Listen, Fifo!Listen
  <2>4. CASE UNCHANGED busVars
    BY <2>4 DEF busVars, Fifo!vars
  <2> QED
    BY <2>1, <2>2, <2>3, <2>4 DEF Next, Fifo!Next
<1> QED
  BY <1>1, <1>2, AlwaysIInv, PTL DEF Spec, FifoSpec, Fifo!Spec
-----------------------------------------------------------------------------
(***************************************************************************)
(* Gifts. A position is a slot of an info. ReplyGiftRequest frees one      *)
(* position and fills another, ReceiveGift frees one: so a gift stays in   *)
(* one place (Once) as long as the two infos of a reply are two, and is    *)
(* not lost (Present) as long as the position that is filled was not there *)
(* before. For this the infos are under their own uins (InfosOk), as they  *)
(* are written back under the uin they contain, and the one under uin 0,   *)
(* which every user without an info shares, is an info (ZeroOk) until      *)
(* ClearInfoIfExpired saves what it kept there. The ids of a user's notes  *)
(* are below the next one (NotesOk), so the limit on ids bounds the slots. *)
(***************************************************************************)

Uins == Users \cup {Stranger, 0}
Times == {0, 1, Now}
Types == {"REQUEST_GIFT", "RECEIVE_GIFT", "NIL"}
Notes == [uin : Uins, id : Nat, type : Types, time : Times, goods : Nat]
Infos == [uin : Nat, sends : Seq(Uins), receives : Seq(Uins), requests : {<<>>}, notes : Seq(Notes),
          login : {0, Now + Day + 1}, next : Nat, unprocessed : Nat]

\* A notification is blank or has been numbered; no two have a number in common.
NotesOk(notes, next) ==
  /\ \A i \in 1 .. Len(notes) : notes[i].id < next \/ (notes[i].id = 0 /\ notes[i].goods = 0)
  /\ \A i, j \in 1 .. Len(notes) : i # j /\ notes[i].id = notes[j].id =>
       notes[i].id = 0 /\ (notes[i].goods = 0 \/ notes[j].goods = 0)
SendsOk(sends) ==
  /\ Len(sends) <= MaxSends + 1
  /\ \A v \in Users : Cardinality({i \in DOMAIN sends : sends[i] = v}) <= MaxToSame + 1
UserOk(u, info) ==
  /\ info \in Infos /\ info.uin = u /\ NotesOk(info.notes, info.next)
  /\ Len(info.notes) <= info.next /\ info.next <= MaxIds
  /\ SendsOk(info.sends) /\ Len(info.receives) <= MaxReceives + 1

\* GetExchangeGiftsInfo finds the info of a uin under it.
InfosOk(o) ==
  /\ o = [infos |-> o.infos, halt |-> o.halt]
  /\ Users \subseteq DOMAIN o.infos /\ DOMAIN o.infos \subseteq Users \cup {0}
  /\ \A u \in Users : UserOk(u, o.infos[u])
  /\ 0 \in DOMAIN o.infos => "uin" \in DOMAIN o.infos[0] /\ o.infos[0].uin = 0
ZeroOk(o) == 0 \in DOMAIN o.infos => o.infos[0] \in Infos

FlagNames == {"self", "stranger", "reused", "evicted", "cleared"}
RefOk(r) == r \in [gifts : SUBSET (Nat \ {0}), taken : Seq(Nat), flags : SUBSET FlagNames]

\* Gift g is in slot j of user x.
Held(o, x, j, g) == x \in DOMAIN o.infos /\ j \in 1 .. Len(o.infos[x].notes) /\ o.infos[x].notes[j].goods = g
Taken(r, a, g) == a \in 1 .. Len(r.taken) /\ r.taken[a] = g
Once(o, r) == \A g \in r.gifts :
  /\ \A x, j, y, k : Held(o, x, j, g) /\ Held(o, y, k, g) => x = y /\ j = k
  /\ \A a, b : Taken(r, a, g) /\ Taken(r, b, g) => a = b
  /\ \A x, j, a : ~(Held(o, x, j, g) /\ Taken(r, a, g))
Present(o, r) == \A g \in r.gifts :
  (\E u \in Users : \E j : Held(o, u, j, g)) \/ (\E a : Taken(r, a, g))

GiftsOk(o, r) ==
  /\ InfosOk(o) /\ RefOk(r)
  /\ "cleared" \notin r.flags => ZeroOk(o)
  /\ r.flags \cap {"self", "cleared"} = {} => Once(o, r)
  /\ r.flags \cap {"reused", "evicted", "stranger"} = {} => Present(o, r)

GiftsInv ==
  /\ obj.halt = "no" => GiftsOk(obj, ref)
  /\ obj.halt # "no" => obj.infos = <<>> /\ ref.gifts = {}

\* r with the flags of a reply.
FlagsSet(r, s, A, B, C, D) ==
  /\ RefOk(s) /\ r.flags \subseteq s.flags /\ s.gifts = r.gifts /\ s.taken = r.taken
  /\ (A => "self" \in s.flags) /\ (B => "stranger" \in s.flags)
  /\ (C => "reused" \in s.flags) /\ (D => "evicted" \in s.flags)
  /\ ("cleared" \in s.flags => "cleared" \in r.flags)

\* Flagged adds the conditions that hold to the flags.
LEMMA Flags ==
  ASSUME NEW r, RefOk(r), NEW A \in BOOLEAN, NEW B \in BOOLEAN, NEW C \in BOOLEAN, NEW D \in BOOLEAN,
         NEW s, s = Flagged(r, [self |-> A, stranger |-> B, reused |-> C, evicted |-> D])
  PROVE FlagsSet(r, s, A, B, C, D)
<1> DEFINE k == [self |-> A, stranger |-> B, reused |-> C, evicted |-> D]
<1>1. DOMAIN k = {"self", "stranger", "reused", "evicted"}
  BY Zenon
<1>2. k["self"] = A /\ k["stranger"] = B /\ k["reused"] = C /\ k["evicted"] = D
  BY Zenon
<1>3. s = [r EXCEPT !.flags = r.flags \cup {c \in DOMAIN k : k[c]}]
  BY Zenon DEF Flagged
<1> HIDE DEF k
<1>4. s.flags = r.flags \cup {c \in DOMAIN k : k[c]} /\ s.gifts = r.gifts /\ s.taken = r.taken
  BY <1>3, Zenon DEF RefOk
<1>5. r.flags \subseteq FlagNames
  BY Zenon DEF RefOk
<1>6. {c \in DOMAIN k : k[c]} \subseteq FlagNames
  BY <1>1, Zenon DEF FlagNames
<1>7. r.flags \cup {c \in DOMAIN k : k[c]} \in SUBSET FlagNames
  BY <1>5, <1>6, Zenon
<1>8. RefOk(s)
  BY <1>3, <1>7, Zenon DEF RefOk
<1>9. "cleared" \notin DOMAIN k
  BY <1>1, Zenon
<1> QED
  BY <1>1, <1>2, <1>4, <1>8, <1>9, Zenon DEF FlagsSet

\* A note after Clear.
LEMMA ClearedNote == Cleared \in Notes /\ Cleared.id = 0 /\ Cleared.goods = 0
BY DEF Cleared, Notes, Uins, Times, Types

\* The notes are as before but for slot i, which has note n.
NotesChanged(old, i, n, new) ==
  /\ new \in Seq(Notes) /\ Len(new) = Len(old)
  /\ \A j \in 1 .. Len(old) : j # i => new[j] = old[j]
  /\ i \in 1 .. Len(old) => new[i] = n

\* A function on 1 .. n is a sequence of length n.
LEMMA SeqOf ==
  ASSUME NEW S, NEW n \in Nat, NEW f \in [1 .. n -> S]
  PROVE f \in Seq(S) /\ Len(f) = n
OBVIOUS

\* EXCEPT changes one slot of the notes, or none.
LEMMA NotesSet ==
  ASSUME NEW old \in Seq(Notes), NEW i, NEW n, i \in 1 .. Len(old) => n \in Notes, NEW new, new = [old EXCEPT ![i] = n]
  PROVE NotesChanged(old, i, n, new)
<1>0. DOMAIN old = 1 .. Len(old) /\ Len(old) \in Nat /\ DOMAIN new = DOMAIN old
  OBVIOUS
<1>1. \A j \in 1 .. Len(old) : new[j] = IF j = i THEN n ELSE old[j]
  BY <1>0, Zenon
<1>2. \A j \in 1 .. Len(old) : new[j] \in Notes
  <2>1. \A j \in 1 .. Len(old) : old[j] \in Notes
    OBVIOUS
  <2> QED
    BY <1>1, <2>1, Zenon
<1>3. new = [j \in 1 .. Len(old) |-> new[j]]
  BY <1>0, Zenon
<1>4. new \in [1 .. Len(old) -> Notes]
  BY <1>2, <1>3, Zenon
<1>5. new \in Seq(Notes) /\ Len(new) = Len(old)
  BY <1>0, <1>4, SeqOf, Zenon
<1> QED
  BY <1>1, <1>5, Zenon DEF NotesChanged

\* Note n was appended.
NoteAdded(old, n, new) ==
  /\ new \in Seq(Notes) /\ Len(new) = Len(old) + 1 /\ new[Len(old) + 1] = n
  /\ \A j \in 1 .. Len(old) + 1 : j # Len(old) + 1 => j \in 1 .. Len(old) /\ new[j] = old[j]
  /\ \A j \in 1 .. Len(old) : j \in 1 .. Len(old) + 1 /\ j # Len(old) + 1 /\ new[j] = old[j]

\* Append adds a slot and leaves the others.
LEMMA NotesEnd ==
  ASSUME NEW old \in Seq(Notes), NEW n \in Notes
  PROVE NoteAdded(old, n, Append(old, n))
BY DEF NoteAdded

FreedNote == [Cleared EXCEPT !.type = "NIL"]

\* A freed slot has no gift.
LEMMA FreedNoteFacts == FreedNote \in Notes /\ FreedNote.id = 0 /\ FreedNote.goods = 0
<1>1. "NIL" \in Types
  BY Zenon DEF Types
<1> QED
  BY <1>1, ClearedNote, Zenon DEF FreedNote, Notes

\* Only the notes differ, by a freed slot.
FreedAs(info, i, e) ==
  /\ e \in Infos /\ e.uin = info.uin /\ e.sends = info.sends /\ e.receives = info.receives /\ e.next = info.next
  /\ NotesChanged(info.notes, i, FreedNote, e.notes)

\* Freed changes slot i of the notes and nothing else.
LEMMA FreedFacts ==
  ASSUME NEW info \in Infos, NEW i, NEW e, e = Freed(info, i)
  PROVE FreedAs(info, i, e)
<1> DEFINE m == [info.notes EXCEPT ![i] = FreedNote]
<1>1. e = [info EXCEPT !.notes = m]
  BY Zenon DEF Freed, FreedNote
<1>2. info.notes \in Seq(Notes)
  BY Zenon DEF Infos
<1>3. NotesChanged(info.notes, i, FreedNote, m)
  BY <1>2, FreedNoteFacts, NotesSet, Zenon
<1>4. m \in Seq(Notes)
  BY <1>3, Zenon DEF NotesChanged
<1> HIDE DEF m
<1>5. e \in Infos /\ e.uin = info.uin /\ e.sends = info.sends /\ e.receives = info.receives /\ e.next = info.next /\ e.notes = m
  BY <1>1, <1>4, Zenon DEF Infos
<1> QED
  BY <1>3, <1>5, Zenon DEF FreedAs

\* Freeing a slot keeps the notes numbered apart: a freed slot has id 0 and no gift.
LEMMA NotesFreed ==
  ASSUME NEW old \in Seq(Notes), NEW next \in Nat, NotesOk(old, next), NEW i, NEW new, NotesChanged(old, i, FreedNote, new)
  PROVE NotesOk(new, next)
<1> USE FreedNoteFacts
<1>1. \A j \in 1 .. Len(old) : new[j] = old[j] \/ (new[j].id = 0 /\ new[j].goods = 0)
  BY Zenon DEF NotesChanged
<1>2. Len(new) = Len(old)
  BY Zenon DEF NotesChanged
<1>3. \A j \in 1 .. Len(new) : new[j].id < next \/ (new[j].id = 0 /\ new[j].goods = 0)
  BY <1>1, <1>2, Zenon DEF NotesOk
<1>4. ASSUME NEW j \in 1 .. Len(new), NEW k \in 1 .. Len(new), j # k, new[j].id = new[k].id
      PROVE new[j].id = 0 /\ (new[j].goods = 0 \/ new[k].goods = 0)
  <2>1. CASE new[j] = old[j] /\ new[k] = old[k]
    BY <1>2, <1>4, <2>1, ZenonT(60) DEF NotesOk
  <2>2. CASE ~(new[j] = old[j] /\ new[k] = old[k])
    BY <1>1, <1>2, <1>4, <2>2, Zenon
  <2> QED
    BY <2>1, <2>2, Zenon
<1> QED
  BY <1>3, <1>4, Zenon DEF NotesOk

\* The new slot: what NewNotification leaves of the notes.
SlotGiven(old, new, s) ==
  /\ new \in Seq(Notes) /\ Len(new) <= Len(old) + 1 /\ Len(old) \in Nat
  /\ \A j \in 1 .. Len(new) : j # s => j \in 1 .. Len(old) /\ new[j] = old[j]
Reused(notes, s) == s \in DOMAIN notes /\ notes[s].type = "NIL"
Evicted(notes) == Cardinality({k \in DOMAIN notes : notes[k].type = "RECEIVE_GIFT"}) >= MaxNotes
SlotAdded(old, new, s) ==
  s \in 1 .. Len(new) /\ \A j \in 1 .. Len(old) : j # s /\ j \in 1 .. Len(new) /\ new[j] = old[j]

\* The greatest of some slots is one of them.
LEMMA MaxFacts == ASSUME NEW n \in Nat, NEW T \in SUBSET (1 .. n), T # {} PROVE Max(T) \in T
<1> DEFINE U == {k \in Nat : \A x \in T : x <= k}
<1>1. n \in U
  OBVIOUS
<1>2. \E m \in U : \A k \in U : m <= k
  <2> DEFINE R == OpToRel(<, Nat)
  <2>0. \A x, y \in Nat : y < x => <<y, x>> \in R
    BY Zenon DEF OpToRel
  <2>1. \E x \in U : \A y \in U : ~ (<<y, x>> \in R)
    BY <1>1, NatLessThanWellFounded, WFMin, Zenon
  <2>2. PICK x \in U : \A y \in U : ~ (<<y, x>> \in R)
    BY Zenon, <2>1
  <2> HIDE DEF R
  <2>3. \A y \in U : y \in Nat /\ x \in Nat
    BY Zenon
  <2> HIDE DEF U
  <2>4. \A y \in U : ~(y < x)
    BY <2>0, <2>2, <2>3, Zenon
  <2> QED
    BY <2>3, <2>4
<1>3. PICK m \in U : \A k \in U : m <= k
  BY <1>2
<1>4. m \in T
  <2> SUFFICES ASSUME m \notin T PROVE FALSE
    OBVIOUS
  <2>1. \A x \in T : x <= m - 1 /\ x >= 1
    BY <1>3
  <2>2. m - 1 \in Nat
    <3>1. PICK x \in T : TRUE
      BY Zenon
    <3>2. x \in Nat /\ x <= m /\ x >= 1 /\ m \in Nat
      BY <1>3, <2>1
    <3> QED
      BY <3>2
  <2>3. m - 1 \in U
    BY <2>1, <2>2
  <2> QED
    BY <1>3, <2>2, <2>3
<1>5. \A x \in T : m >= x
  BY <1>3
<1> QED
  BY <1>4, <1>5, Zenon DEF Max

\* NewNotification gives slot s of the notes new.
NewAs(old, new, s) ==
  /\ SlotGiven(old, new, s)
  /\ ~Reused(old, s) /\ ~Evicted(old) => SlotAdded(old, new, s)

\* The earliest of too many notes is cleared and keeps its type.
LEMMA ReceiveNote == [Cleared EXCEPT !.type = "RECEIVE_GIFT"] \in Notes
<1>1. "RECEIVE_GIFT" \in Types
  BY Zenon DEF Types
<1> QED
  BY <1>1, ClearedNote, Zenon DEF Notes

\* NewNotification leaves every slot but the one it gives out; unless it evicts or reuses, that
\* one is new.
LEMMA NewFacts ==
  ASSUME NEW old \in Seq(Notes), NEW w, w = NewNotification(old)
  PROVE NewAs(old, w.notes, w.slot)
<1> DEFINE same == {i \in DOMAIN old : old[i].type = "RECEIVE_GIFT"}
           free == {i \in DOMAIN old : old[i].type = "NIL"}
           earliest == Min({i \in same : \A j \in same : old[i].time <= old[j].time})
           blank == [Cleared EXCEPT !.type = "RECEIVE_GIFT"]
<1>0. DOMAIN old = 1 .. Len(old) /\ Len(old) \in Nat /\ Len(old) <= Len(old) + 1
  OBVIOUS
<1>1. CASE Evicted(old)
  <2>1. w.notes = [old EXCEPT ![earliest] = blank] /\ w.slot = earliest
    BY <1>1, Zenon DEF NewNotification, Evicted
  <2>2. blank \in Notes
    BY ReceiveNote, Zenon
  <2> HIDE DEF earliest, blank
  <2>3. NotesChanged(old, earliest, blank, w.notes)
    BY <2>1, <2>2, NotesSet, Zenon
  <2>4. SlotGiven(old, w.notes, w.slot)
    BY <1>0, <2>1, <2>3, Zenon DEF NotesChanged, SlotGiven
  <2> QED
    BY <1>1, <2>4, Zenon DEF NewAs
<1>2. CASE ~Evicted(old) /\ free = {}
  <2>1. w.notes = Append(old, Cleared) /\ w.slot = Len(old) + 1
    BY <1>2, Zenon DEF NewNotification, Evicted
  <2>2. NoteAdded(old, Cleared, w.notes)
    BY <2>1, ClearedNote, NotesEnd, Zenon
  <2>3. Len(old) + 1 \in 1 .. Len(old) + 1 /\ Len(old) + 1 <= Len(old) + 1
    BY <1>0
  <2>4. SlotGiven(old, w.notes, w.slot)
    BY <1>0, <2>1, <2>2, <2>3, Zenon DEF SlotGiven, NoteAdded
  <2>5. SlotAdded(old, w.notes, w.slot)
    BY <2>1, <2>2, <2>3, Zenon DEF SlotAdded, NoteAdded
  <2> QED
    BY <2>4, <2>5, Zenon DEF NewAs
<1>3. CASE ~Evicted(old) /\ free # {}
  <2>1. w.notes = old /\ w.slot = Max(free)
    BY <1>3, Zenon DEF NewNotification, Evicted
  <2>2. free \in SUBSET (1 .. Len(old))
    BY <1>0, Zenon
  <2>3. \A T \in SUBSET (1 .. Len(old)) : T # {} => Max(T) \in T
    BY <1>0, MaxFacts, Zenon
  <2>4. w.slot \in free
    BY <1>3, <2>1, <2>2, <2>3, Zenon
  <2>5. Reused(old, w.slot)
    BY <2>4, Zenon DEF Reused
  <2>6. SlotGiven(old, w.notes, w.slot)
    BY <1>0, <2>1, Zenon DEF SlotGiven
  <2> QED
    BY <2>5, <2>6, Zenon DEF NewAs
<1> QED
  BY <1>1, <1>2, <1>3, Zenon

\* Info q is info with a gift added in slot s.
Notified(info, s, goods, q) ==
  /\ q \in Infos /\ q.uin = info.uin /\ q.sends = info.sends /\ q.receives = info.receives
  /\ q.next = info.next + 1
  /\ NewAs(info.notes, q.notes, s)
  /\ s \in 1 .. Len(q.notes) => q.notes[s].id = info.next /\ q.notes[s].goods = goods

\* Notify puts the gift into the slot that NewNotification gives out, under the next id.
LEMMA NotifyFacts ==
  ASSUME NEW info \in Infos, NEW uin \in Uins, NEW goods \in Nat, NEW time \in Times,
         NEW q, q = Notify(info, uin, goods, time)
  PROVE Notified(info, NewNotification(info.notes).slot, goods, q)
<1> DEFINE w == NewNotification(info.notes)
           n == [w.notes[w.slot] EXCEPT !.uin = uin, !.id = info.next, !.time = time, !.goods = goods]
           m == [w.notes EXCEPT ![w.slot] = n]
<1>1. q = [info EXCEPT !.notes = m, !.next = info.next + 1, !.unprocessed = info.unprocessed + 1]
  BY Zenon DEF Notify
<1>2. info.notes \in Seq(Notes) /\ info.next \in Nat /\ info.unprocessed \in Nat
  BY Zenon DEF Infos
<1>3. NewAs(info.notes, w.notes, w.slot)
  BY <1>2, NewFacts, Zenon
<1> HIDE DEF w
<1>4. w.notes \in Seq(Notes)
  BY <1>3, Zenon DEF NewAs, SlotGiven
<1>5. \A j \in 1 .. Len(w.notes) : w.notes[j] \in Notes
  BY <1>4
<1>6. w.slot \in 1 .. Len(w.notes) => n \in Notes /\ n.id = info.next /\ n.goods = goods
  <2> SUFFICES ASSUME w.slot \in 1 .. Len(w.notes) PROVE n \in Notes /\ n.id = info.next /\ n.goods = goods
    BY Zenon
  <2>1. w.notes[w.slot] \in Notes
    BY <1>5, Zenon
  <2> QED
    BY <1>2, <2>1, Zenon DEF Notes
<1> HIDE DEF n
<1>7. NotesChanged(w.notes, w.slot, n, m)
  BY <1>4, <1>6, NotesSet, Zenon
<1> HIDE DEF m
<1>8. m \in Seq(Notes)
  BY <1>7, Zenon DEF NotesChanged
<1>9. info.next + 1 \in Nat /\ info.unprocessed + 1 \in Nat
  BY <1>2
<1>10. /\ q \in Infos /\ q.uin = info.uin /\ q.sends = info.sends /\ q.receives = info.receives
       /\ q.next = info.next + 1 /\ q.notes = m
  BY <1>1, <1>8, <1>9, Zenon DEF Infos
<1>11. SlotGiven(info.notes, m, w.slot)
  BY <1>3, <1>7, Zenon DEF NewAs, SlotGiven, NotesChanged
<1>12. SlotAdded(info.notes, w.notes, w.slot) => SlotAdded(info.notes, m, w.slot)
  BY <1>7, Zenon DEF SlotAdded, NotesChanged
<1>13. NewAs(info.notes, m, w.slot)
  BY <1>3, <1>11, <1>12, Zenon DEF NewAs
<1>14. w.slot \in 1 .. Len(m) => m[w.slot].id = info.next /\ m[w.slot].goods = goods
  BY <1>6, <1>7, Zenon DEF NotesChanged
<1> QED
  BY <1>10, <1>13, <1>14, Zenon DEF Notified, w

\* Whatever the info, Notify leaves its uin: it is saved where it was found.
LEMMA NotifyUin ==
  ASSUME NEW info, NEW uin, NEW goods, NEW time, "uin" \in DOMAIN info
  PROVE "uin" \in DOMAIN Notify(info, uin, goods, time) /\ Notify(info, uin, goods, time).uin = info.uin
<1> DEFINE q == Notify(info, uin, goods, time)
           w == NewNotification(info.notes)
           m == [w.notes EXCEPT ![w.slot] = [w.notes[w.slot] EXCEPT !.uin = uin, !.id = info.next, !.time = time, !.goods = goods]]
<1>1. q = [info EXCEPT !.notes = m, !.next = info.next + 1, !.unprocessed = info.unprocessed + 1]
  BY Zenon DEF Notify
<1> HIDE DEF m, q
<1>2. "uin" \in DOMAIN q /\ q.uin = info.uin
  BY <1>1, Zenon
<1> QED
  BY <1>2, Zenon DEF q

\* The least of some slots is one of them.
LEMMA MinFacts == ASSUME NEW n \in Nat, NEW T \in SUBSET (1 .. n), T # {} PROVE Min(T) \in T
<1> DEFINE R == OpToRel(<, Nat)
<1>0. \A x, y \in Nat : y < x => <<y, x>> \in R
  BY Zenon DEF OpToRel
<1>1. T \subseteq Nat
  OBVIOUS
<1>2. \E x \in T : \A y \in T : ~ (<<y, x>> \in R)
  BY <1>1, NatLessThanWellFounded, WFMin, Zenon
<1> HIDE DEF R
<1>3. PICK x \in T : \A y \in T : ~ (<<y, x>> \in R)
  BY <1>2
<1>4. \A y \in T : ~(y < x)
  BY <1>0, <1>1, <1>3, Zenon
<1>5. \A y \in T : x <= y
  BY <1>1, <1>4
<1> QED
  BY <1>3, <1>5, Zenon DEF Min

\* FindNotification finds a slot there is.
LEMMA FindFacts ==
  ASSUME NEW notes \in Seq(Notes), NEW id, NEW i, i = FindNotification(notes, id), i # 0
  PROVE i \in 1 .. Len(notes) /\ notes[i] \in Notes
<1> DEFINE at == {j \in DOMAIN notes : notes[j].id = id}
<1>0. DOMAIN notes = 1 .. Len(notes) /\ Len(notes) \in Nat /\ \A j \in 1 .. Len(notes) : notes[j] \in Notes
  OBVIOUS
<1>1. at \in SUBSET (1 .. Len(notes))
  BY <1>0, Zenon
<1>2. at # {} /\ i = Min(at)
  BY Zenon DEF FindNotification
<1> HIDE DEF at
<1>3. i \in at
  BY <1>0, <1>1, <1>2, MinFacts, Zenon
<1> QED
  BY <1>0, <1>1, <1>3, Zenon

\* The info of a uin that has none.
LEMMA EmptyInfo == Empty \in Infos /\ Empty.uin = 0 /\ Empty.notes = <<>> /\ "uin" \in DOMAIN Empty
<1>1. <<>> \in Seq(Uins) /\ <<>> \in Seq(Notes) /\ 0 \in Nat
  OBVIOUS
<1> QED
  BY <1>1, Zenon DEF Empty, Infos

\* What GetExchangeGiftsInfo finds for uin x.
FoundAs(o, x, t) ==
  /\ "uin" \in DOMAIN t /\ t.uin \in Users \cup {0}
  /\ t.uin \in Users => x = t.uin /\ t = o.infos[t.uin] /\ UserOk(x, t)
  /\ t.uin \notin Users => x \notin Users /\ ((0 \in DOMAIN o.infos /\ t = o.infos[0]) \/ t = Empty)
  /\ ZeroOk(o) => t \in Infos

\* No user has uin 0.
LEMMA NoZero == 0 \notin Users
BY GiftsAssumption

\* GetExchangeGiftsInfo finds the info of a user, the one under uin 0, or an empty one.
LEMMA FoundFacts ==
  ASSUME NEW o, InfosOk(o), NEW x, NEW t, t = GetExchangeGiftsInfo(o, x)
  PROVE FoundAs(o, x, t)
<1>1. CASE x \in Users
  <2>1. t = o.infos[x] /\ UserOk(x, t)
    BY <1>1, Zenon DEF GetExchangeGiftsInfo, InfosOk
  <2>2. t.uin = x /\ t \in Infos
    BY <2>1, Zenon DEF UserOk
  <2>3. "uin" \in DOMAIN t
    BY <2>2, Zenon DEF Infos
  <2> QED
    BY <1>1, <2>1, <2>2, <2>3, Zenon DEF FoundAs
<1>2. CASE x \in DOMAIN o.infos /\ x \notin Users
  <2>1. x = 0 /\ t = o.infos[0]
    BY <1>2, Zenon DEF GetExchangeGiftsInfo, InfosOk
  <2>2. "uin" \in DOMAIN t /\ t.uin = 0
    BY <1>2, <2>1, Zenon DEF InfosOk
  <2> QED
    BY <1>2, <2>1, <2>2, NoZero, Zenon DEF FoundAs, ZeroOk
<1>3. CASE x \notin DOMAIN o.infos /\ x \notin Users
  <2>1. t = Empty
    BY <1>3, Zenon DEF GetExchangeGiftsInfo
  <2> QED
    BY <1>3, <2>1, EmptyInfo, NoZero, Zenon DEF FoundAs
<1> QED
  BY <1>1, <1>2, <1>3, Zenon

\* Only the info under its uin differs.
Updated(o, info, p) ==
  /\ p = [infos |-> p.infos, halt |-> o.halt]
  /\ DOMAIN p.infos = DOMAIN o.infos \cup {info.uin}
  /\ p.infos[info.uin] = info
  /\ \A x \in DOMAIN o.infos : x # info.uin => p.infos[x] = o.infos[x]

\* The two fields of the manager.
LEMMA Fields == ASSUME NEW a, NEW b, NEW p, p = [infos |-> a, halt |-> b] PROVE p.infos = a /\ p.halt = b
BY Zenon

\* UpdateExchangeGiftsInfo replaces the info under one uin.
LEMMA UpdateFacts ==
  ASSUME NEW o, o = [infos |-> o.infos, halt |-> o.halt], NEW info, NEW p, p = UpdateExchangeGiftsInfo(o, info)
  PROVE Updated(o, info, p)
<1> DEFINE f == [uin \in DOMAIN o.infos \cup {info.uin} |-> IF uin = info.uin THEN info ELSE o.infos[uin]]
<1>1. p = [o EXCEPT !.infos = f]
  BY Zenon DEF UpdateExchangeGiftsInfo
<1>2. /\ DOMAIN f = DOMAIN o.infos \cup {info.uin} /\ f[info.uin] = info
      /\ \A x \in DOMAIN o.infos : x # info.uin => f[x] = o.infos[x]
  BY Zenon
<1> HIDE DEF f
<1>3. p = [infos |-> f, halt |-> o.halt]
  BY <1>1, Zenon
<1>4. p.infos = f
  BY <1>3, Fields, ZenonT(60)
<1> QED
  BY <1>2, <1>3, <1>4, Zenon DEF Updated

\* The infos stay those of their uins when an info of a user or of uin 0 is saved.
LEMMA UpdatedOk ==
  ASSUME NEW o, InfosOk(o), NEW info, NEW p, Updated(o, info, p), "uin" \in DOMAIN info,
         info.uin \in Users \cup {0}, info.uin \in Users => UserOk(info.uin, info)
  PROVE InfosOk(p) /\ p.halt = o.halt
<1>1. p.halt = o.halt
  BY Fields DEF Updated
<1>2. p = [infos |-> p.infos, halt |-> p.halt]
  BY <1>1, Zenon DEF Updated
<1>3. Users \subseteq DOMAIN p.infos /\ DOMAIN p.infos \subseteq Users \cup {0}
  BY Zenon DEF Updated, InfosOk
<1>4. \A u \in Users : UserOk(u, p.infos[u])
  BY Zenon DEF Updated, InfosOk
<1>5. 0 \in DOMAIN p.infos => "uin" \in DOMAIN p.infos[0] /\ p.infos[0].uin = 0
  BY Zenon DEF Updated, InfosOk
<1> QED
  BY <1>1, <1>2, <1>3, <1>4, <1>5, Zenon DEF InfosOk

\* The info under uin 0 stays an info until one is cleared.
LEMMA UpdatedZero ==
  ASSUME NEW o, ZeroOk(o), NEW info \in Infos, NEW p, Updated(o, info, p)
  PROVE ZeroOk(p)
BY Zenon DEF ZeroOk, Updated

\* A user's info stays in order when a gift is added: the next id is above all ids.
LEMMA NotifiedOk ==
  ASSUME NEW u, NEW info, UserOk(u, info), info.next < MaxIds, NEW s, NEW goods, NEW q, Notified(info, s, goods, q)
  PROVE UserOk(u, q)
<1> DEFINE old == info.notes
           new == q.notes
<1>0. /\ info \in Infos /\ info.uin = u /\ NotesOk(old, info.next)
      /\ Len(old) <= info.next /\ info.next <= MaxIds
      /\ SendsOk(info.sends) /\ Len(info.receives) <= MaxReceives + 1
  BY Zenon DEF UserOk
<1>1. info.next \in Nat /\ old \in Seq(Notes)
  BY <1>0, Zenon DEF Infos
<1>2. /\ q \in Infos /\ q.uin = info.uin /\ q.sends = info.sends /\ q.receives = info.receives
      /\ q.next = info.next + 1
      /\ s \in 1 .. Len(new) => new[s].id = info.next
  BY Zenon DEF Notified
<1>3. /\ new \in Seq(Notes) /\ Len(new) <= Len(old) + 1 /\ Len(old) \in Nat
      /\ \A j \in 1 .. Len(new) : j # s => j \in 1 .. Len(old) /\ new[j] = old[j]
  BY Zenon DEF Notified, NewAs, SlotGiven
<1> HIDE DEF old, new
<1>4. Len(new) <= info.next + 1 /\ info.next + 1 <= MaxIds
  <2>1. Len(new) \in Nat
    BY <1>3
  <2> QED
    BY <1>0, <1>1, <1>3, <2>1, GiftsAssumption
<1>5. \A j \in 1 .. Len(old) : old[j].id \in Nat
  <2>1. \A j \in 1 .. Len(old) : old[j] \in Notes
    BY <1>1
  <2> QED
    BY <2>1, Zenon DEF Notes
<1>6. \A a \in Nat : a < info.next => a < info.next + 1 /\ a # info.next
  BY <1>1
<1>7. \A j \in 1 .. Len(new) : new[j].id < info.next + 1 \/ (new[j].id = 0 /\ new[j].goods = 0)
  <2>1. info.next < info.next + 1
    BY <1>1
  <2> QED
    BY <1>0, <1>2, <1>3, <1>5, <1>6, <2>1, ZenonT(60) DEF NotesOk
<1>8. ASSUME NEW j \in 1 .. Len(new), NEW k \in 1 .. Len(new), j # k, new[j].id = new[k].id
      PROVE new[j].id = 0 /\ (new[j].goods = 0 \/ new[k].goods = 0)
  <2>1. CASE j # s /\ k # s
    BY <1>0, <1>3, <1>8, <2>1, ZenonT(60) DEF NotesOk
  <2>2. CASE j = s
    <3>1. k \in 1 .. Len(old) /\ new[k] = old[k] /\ old[k].id = info.next
      BY <1>2, <1>3, <1>8, <2>2, Zenon
    <3> QED
      BY <1>0, <1>5, <1>6, <1>8, <3>1, Zenon DEF NotesOk
  <2>3. CASE k = s
    <3>1. j \in 1 .. Len(old) /\ new[j] = old[j] /\ old[j].id = info.next
      BY <1>2, <1>3, <1>8, <2>3, Zenon
    <3> QED
      BY <1>0, <1>5, <1>6, <1>8, <3>1, Zenon DEF NotesOk
  <2> QED
    BY <2>1, <2>2, <2>3, Zenon
<1>9. NotesOk(new, info.next + 1)
  BY <1>7, <1>8, Zenon DEF NotesOk
<1> QED
  BY <1>0, <1>2, <1>4, <1>9, Zenon DEF UserOk, new

Places(records, v) == {i \in DOMAIN records : records[i] = v}

\* The places of a value in a sequence can be counted.
LEMMA PlacesFinite ==
  ASSUME NEW S, NEW records \in Seq(S), NEW v
  PROVE IsFiniteSet(Places(records, v)) /\ Cardinality(Places(records, v)) \in Nat
<1>1. DOMAIN records = 1 .. Len(records) /\ Len(records) \in Nat
  OBVIOUS
<1>2. IsFiniteSet(1 .. Len(records))
  BY <1>1, FS_Interval
<1>3. IsFiniteSet(Places(records, v))
  BY <1>1, <1>2, FS_Subset, Zenon DEF Places
<1> QED
  BY <1>3, FS_CardinalityType, Zenon

\* Append adds one place of the value appended.
LEMMA PlacesAppend ==
  ASSUME NEW S, NEW records \in Seq(S), NEW x \in S, NEW v
  PROVE /\ v # x => Places(Append(records, x), v) = Places(records, v)
        /\ v = x => Cardinality(Places(Append(records, x), v)) = Cardinality(Places(records, v)) + 1
<1> DEFINE new == Append(records, x)
           l == Len(records) + 1
<1>1. /\ DOMAIN new = 1 .. l /\ DOMAIN records = 1 .. Len(records)
      /\ new[l] = x /\ l \in 1 .. l
      /\ \A i \in 1 .. Len(records) : i \in 1 .. l /\ i # l /\ new[i] = records[i]
      /\ \A i \in 1 .. l : i # l => i \in 1 .. Len(records)
  OBVIOUS
<1> HIDE DEF new, l
<1>2. CASE v # x
  BY <1>1, <1>2, Zenon DEF Places, new
<1>3. CASE v = x
  <2>1. Places(new, v) = Places(records, v) \cup {l} /\ l \notin Places(records, v)
    BY <1>1, <1>3, Zenon DEF Places
  <2>2. IsFiniteSet(Places(records, v))
    BY PlacesFinite, Zenon
  <2> QED
    BY <1>3, <2>1, <2>2, FS_AddElement, ZenonT(60) DEF new
<1> QED
  BY <1>2, <1>3, Zenon

\* A user who was below both limits is at most one above them after a gift was sent.
LEMMA SendsAppend ==
  ASSUME NEW sends \in Seq(Uins), SendsOk(sends), NEW x \in Uins, Len(sends) <= MaxSends, ~ReachToSameUinLimit(sends, x)
  PROVE SendsOk(Append(sends, x)) /\ Append(sends, x) \in Seq(Uins)
<1>1. Append(sends, x) \in Seq(Uins) /\ Len(Append(sends, x)) = Len(sends) + 1 /\ Len(sends) \in Nat
  OBVIOUS
<1>2. Len(Append(sends, x)) <= MaxSends + 1
  BY <1>1, GiftsAssumption
<1>3. ~(Cardinality(Places(sends, x)) > MaxToSame)
  BY Zenon DEF ReachToSameUinLimit, Places
<1>4. Cardinality(Places(sends, x)) + 1 <= MaxToSame + 1
  <2>1. Cardinality(Places(sends, x)) \in Nat
    BY PlacesFinite, Zenon
  <2> QED
    BY <1>3, <2>1, GiftsAssumption
<1>5. ASSUME NEW v \in Users PROVE Cardinality(Places(Append(sends, x), v)) <= MaxToSame + 1
  <2>1. Cardinality(Places(sends, v)) <= MaxToSame + 1
    BY Zenon DEF SendsOk, Places
  <2>2. v # x => Places(Append(sends, x), v) = Places(sends, v)
    BY PlacesAppend, Zenon
  <2>3. v = x => Cardinality(Places(Append(sends, x), v)) = Cardinality(Places(sends, v)) + 1
    BY PlacesAppend, Zenon
  <2> QED
    BY <1>4, <2>1, <2>2, <2>3, Zenon
<1> QED
  BY <1>1, <1>2, <1>5, Zenon DEF SendsOk, Places

\* The info of u after it gave away what was in slot i.
GaveAway(u, info, i, sent) ==
  /\ UserOk(u, sent) /\ sent.next = info.next
  /\ NotesChanged(info.notes, i, FreedNote, sent.notes)

\* ReplyGiftRequest keeps the info of the user who replies in order.
LEMMA SentFacts ==
  ASSUME NEW u, NEW info, UserOk(u, info), NEW i, NEW x \in Uins, Len(info.sends) <= MaxSends,
         ~ReachToSameUinLimit(info.sends, x), NEW sent, sent = [Freed(info, i) EXCEPT !.sends = Append(@, x)]
  PROVE GaveAway(u, info, i, sent)
<1> DEFINE e == Freed(info, i)
           l == Append(e.sends, x)
<1>0. /\ info \in Infos /\ info.uin = u /\ NotesOk(info.notes, info.next)
      /\ Len(info.notes) <= info.next /\ info.next <= MaxIds
      /\ SendsOk(info.sends) /\ Len(info.receives) <= MaxReceives + 1
  BY Zenon DEF UserOk
<1>1. FreedAs(info, i, e)
  BY <1>0, FreedFacts, Zenon
<1>2. sent = [e EXCEPT !.sends = l]
  BY Zenon
<1> HIDE DEF e
<1>3. /\ e \in Infos /\ e.uin = info.uin /\ e.sends = info.sends /\ e.receives = info.receives /\ e.next = info.next
      /\ NotesChanged(info.notes, i, FreedNote, e.notes)
  BY <1>1, Zenon DEF FreedAs
<1>4. info.sends \in Seq(Uins) /\ info.notes \in Seq(Notes) /\ info.next \in Nat
  BY <1>0, Zenon DEF Infos
<1>5. SendsOk(l) /\ l \in Seq(Uins)
  BY <1>0, <1>3, <1>4, SendsAppend, Zenon
<1> HIDE DEF l
<1>6. sent \in Infos /\ sent.uin = e.uin /\ sent.sends = l /\ sent.receives = e.receives /\ sent.next = e.next /\ sent.notes = e.notes
  BY <1>2, <1>3, <1>5, Zenon DEF Infos
<1>7. NotesOk(e.notes, info.next)
  BY <1>0, <1>3, <1>4, NotesFreed, Zenon
<1>8. Len(e.notes) = Len(info.notes)
  BY <1>3, Zenon DEF NotesChanged
<1>9. UserOk(u, sent)
  BY <1>0, <1>3, <1>5, <1>6, <1>7, <1>8, Zenon DEF UserOk
<1> QED
  BY <1>3, <1>6, <1>9, Zenon DEF GaveAway

\* ReceiveGift keeps the info of the user in order.
LEMMA ReceivedFacts ==
  ASSUME NEW u, NEW info, UserOk(u, info), NEW i, NEW x \in Uins, Len(info.receives) <= MaxReceives,
         NEW sent, sent = [Freed(info, i) EXCEPT !.receives = Append(@, x)]
  PROVE GaveAway(u, info, i, sent)
<1> DEFINE e == Freed(info, i)
           l == Append(e.receives, x)
<1>0. /\ info \in Infos /\ info.uin = u /\ NotesOk(info.notes, info.next)
      /\ Len(info.notes) <= info.next /\ info.next <= MaxIds
      /\ SendsOk(info.sends) /\ Len(info.receives) <= MaxReceives + 1
  BY Zenon DEF UserOk
<1>1. FreedAs(info, i, e)
  BY <1>0, FreedFacts, Zenon
<1>2. sent = [e EXCEPT !.receives = l]
  BY Zenon
<1> HIDE DEF e
<1>3. /\ e \in Infos /\ e.uin = info.uin /\ e.sends = info.sends /\ e.receives = info.receives /\ e.next = info.next
      /\ NotesChanged(info.notes, i, FreedNote, e.notes)
  BY <1>1, Zenon DEF FreedAs
<1>4. info.receives \in Seq(Uins) /\ info.notes \in Seq(Notes) /\ info.next \in Nat
  BY <1>0, Zenon DEF Infos
<1>5. l \in Seq(Uins) /\ Len(l) <= MaxReceives + 1
  <2>1. \A r \in Seq(Uins) : Append(r, x) \in Seq(Uins) /\ Len(Append(r, x)) = Len(r) + 1 /\ Len(r) \in Nat
    OBVIOUS
  <2>2. \A k \in Nat : k <= MaxReceives => k + 1 <= MaxReceives + 1
    BY GiftsAssumption
  <2> QED
    BY <1>3, <1>4, <2>1, <2>2, Zenon
<1> HIDE DEF l
<1>6. sent \in Infos /\ sent.uin = e.uin /\ sent.sends = e.sends /\ sent.receives = l /\ sent.next = e.next /\ sent.notes = e.notes
  BY <1>2, <1>3, <1>5, Zenon DEF Infos
<1>7. NotesOk(e.notes, info.next)
  BY <1>0, <1>3, <1>4, NotesFreed, Zenon
<1>8. Len(e.notes) = Len(info.notes)
  BY <1>3, Zenon DEF NotesChanged
<1>9. UserOk(u, sent)
  BY <1>0, <1>3, <1>5, <1>6, <1>7, <1>8, Zenon DEF UserOk
<1> QED
  BY <1>3, <1>6, <1>9, Zenon DEF GaveAway

\* What self held in slot i is gone, and nothing else.
Less(o, p, self, i) ==
  /\ \A x, j, g : g # 0 /\ Held(p, x, j, g) => Held(o, x, j, g) /\ ~(x = self /\ j = i)
  /\ \A x, j, g : Held(o, x, j, g) /\ ~(x = self /\ j = i) => Held(p, x, j, g)

\* Saving the info with a freed slot takes the gift of that slot out, and no other.
LEMMA LessFacts ==
  ASSUME NEW o, NEW self, self \in DOMAIN o.infos, NEW i, NEW sent, sent.uin = self,
         NotesChanged(o.infos[self].notes, i, FreedNote, sent.notes), NEW p, Updated(o, sent, p)
  PROVE Less(o, p, self, i)
<1>1. DOMAIN p.infos = DOMAIN o.infos /\ p.infos[self] = sent /\ \A x \in DOMAIN o.infos : x # self => p.infos[x] = o.infos[x]
  BY Zenon DEF Updated
<1>2. /\ Len(sent.notes) = Len(o.infos[self].notes)
      /\ \A j \in 1 .. Len(o.infos[self].notes) : j # i => sent.notes[j] = o.infos[self].notes[j]
      /\ i \in 1 .. Len(o.infos[self].notes) => sent.notes[i].goods = 0
  BY FreedNoteFacts, Zenon DEF NotesChanged
<1>3. ASSUME NEW x, NEW j, NEW g, g # 0, Held(p, x, j, g) PROVE Held(o, x, j, g) /\ ~(x = self /\ j = i)
  <2>1. CASE x = self
    BY <1>1, <1>2, <1>3, <2>1, ZenonT(60) DEF Held
  <2>2. CASE x # self
    BY <1>1, <1>3, <2>2, Zenon DEF Held
  <2> QED
    BY <2>1, <2>2, Zenon
<1>4. ASSUME NEW x, NEW j, NEW g, Held(o, x, j, g), ~(x = self /\ j = i) PROVE Held(p, x, j, g)
  <2>1. CASE x = self
    BY <1>1, <1>2, <1>4, <2>1, Zenon DEF Held
  <2>2. CASE x # self
    BY <1>1, <1>4, <2>2, Zenon DEF Held
  <2> QED
    BY <2>1, <2>2, Zenon
<1> QED
  BY <1>3, <1>4, Zenon DEF Less

\* The gift that self gave away is in slot s of w, and no other is new.
Passed(o, p, self, i, w, s, goods) ==
  \A x, j, g : g # 0 /\ Held(p, x, j, g) =>
    (x = w /\ j = s /\ g = goods) \/ (Held(o, x, j, g) /\ ~(x = self /\ j = i))

\* Saving the requester's info puts the gift in, and no other.
LEMMA PassedFacts ==
  ASSUME NEW o, NEW m, NEW self, NEW i, Less(o, m, self, i), NEW t, NEW q, NEW s, NEW goods, NEW p, Updated(m, q, p),
         NewAs(t.notes, q.notes, s), s \in 1 .. Len(q.notes) => q.notes[s].goods = goods,
         (q.uin \in DOMAIN m.infos /\ t = m.infos[q.uin]) \/ t.notes = <<>>
  PROVE Passed(o, p, self, i, q.uin, s, goods)
<1> SUFFICES ASSUME NEW x, NEW j, NEW g, g # 0, Held(p, x, j, g)
             PROVE (x = q.uin /\ j = s /\ g = goods) \/ (Held(o, x, j, g) /\ ~(x = self /\ j = i))
  BY Zenon DEF Passed
<1>1. CASE x # q.uin
  <2>1. Held(m, x, j, g)
    BY <1>1, Zenon DEF Held, Updated
  <2> QED
    BY <2>1, Zenon DEF Less
<1>2. CASE x = q.uin /\ j = s
  BY <1>2, Zenon DEF Held, Updated
<1>3. CASE x = q.uin /\ j # s
  <2>1. j \in 1 .. Len(q.notes) /\ q.notes[j].goods = g
    BY <1>3, Zenon DEF Held, Updated
  <2>2. j \in 1 .. Len(t.notes) /\ q.notes[j] = t.notes[j]
    BY <1>3, <2>1, Zenon DEF NewAs, SlotGiven
  <2>3. t.notes # <<>>
    <3>1. \A k \in 1 .. Len(<<>>) : FALSE
      OBVIOUS
    <3> QED
      BY <2>2, <3>1, Zenon
  <2>4. Held(m, x, j, g)
    BY <1>3, <2>1, <2>2, <2>3, Zenon DEF Held
  <2> QED
    BY <2>4, Zenon DEF Less
<1> QED
  BY <1>1, <1>2, <1>3, Zenon

\* So a gift that was in one place is in one place after a reply.
LEMMA PassedOnce ==
  ASSUME NEW o, NEW p, NEW self, NEW i, NEW w, NEW s, NEW goods, Passed(o, p, self, i, w, s, goods),
         Held(o, self, i, goods), NEW r, RefOk(r), Once(o, r), NEW q, q.gifts = r.gifts, q.taken = r.taken
  PROVE Once(p, q)
<1> SUFFICES ASSUME NEW g \in r.gifts
             PROVE /\ \A x, j, y, k : Held(p, x, j, g) /\ Held(p, y, k, g) => x = y /\ j = k
                   /\ \A a, b : Taken(q, a, g) /\ Taken(q, b, g) => a = b
                   /\ \A x, j, a : ~(Held(p, x, j, g) /\ Taken(q, a, g))
  BY Zenon DEF Once
<1>1. g # 0
  BY Zenon DEF RefOk
<1>2. \A x, j, y, k : Held(o, x, j, g) /\ Held(o, y, k, g) => x = y /\ j = k
  BY Zenon DEF Once
<1>3. \A x, j, a : ~(Held(o, x, j, g) /\ Taken(r, a, g))
  BY Zenon DEF Once
<1>4. \A a : Taken(q, a, g) <=> Taken(r, a, g)
  BY Zenon DEF Taken
<1>5. \A a, b : Taken(q, a, g) /\ Taken(q, b, g) => a = b
  BY <1>4, Zenon DEF Once
<1>6. \A x, j : Held(p, x, j, g) => (x = w /\ j = s /\ g = goods) \/ (Held(o, x, j, g) /\ ~(x = self /\ j = i))
  BY <1>1, Zenon DEF Passed
<1>7. ASSUME NEW x, NEW j, NEW y, NEW k, Held(p, x, j, g), Held(p, y, k, g) PROVE x = y /\ j = k
  <2>1. CASE g = goods
    <3>1. Held(o, self, i, g)
      BY <2>1, Zenon
    <3>2. \A a, b : Held(o, a, b, g) => a = self /\ b = i
      BY <1>2, <3>1, Zenon
    <3>3. \A a, b : Held(p, a, b, g) => a = w /\ b = s
      BY <1>6, <3>2, Zenon
    <3>4. x = w /\ j = s
      BY <1>7, <3>3, Zenon
    <3>5. y = w /\ k = s
      BY <1>7, <3>3, Zenon
    <3> QED
      BY <3>4, <3>5
  <2>2. CASE g # goods
    <3>1. \A a, b : Held(p, a, b, g) => Held(o, a, b, g)
      BY <1>6, <2>2, Zenon
    <3> QED
      BY <1>2, <1>7, <3>1, Zenon
  <2> QED
    BY <2>1, <2>2, Zenon
<1>8. ASSUME NEW x, NEW j, NEW a, Held(p, x, j, g), Taken(q, a, g) PROVE FALSE
  BY <1>3, <1>4, <1>6, <1>8, Zenon
<1> QED
  BY <1>5, <1>7, <1>8, Zenon

\* A gift that was there still is, when the slot is a new one of a user.
LEMMA PassedPresent ==
  ASSUME NEW o, NEW m, NEW self, NEW i, Less(o, m, self, i), NEW t, NEW q, NEW s, NEW goods, NEW p, Updated(m, q, p),
         SlotAdded(t.notes, q.notes, s), s \in 1 .. Len(q.notes) => q.notes[s].goods = goods,
         q.uin \in Users, q.uin \in DOMAIN o.infos, t = o.infos[q.uin], Held(o, self, i, goods),
         NEW r, Present(o, r), NEW z, z.gifts = r.gifts, z.taken = r.taken
  PROVE Present(p, z)
<1> SUFFICES ASSUME NEW g \in r.gifts
             PROVE (\E u \in Users : \E j : Held(p, u, j, g)) \/ (\E a : Taken(z, a, g))
  BY Zenon DEF Present
<1>1. CASE \E a : Taken(r, a, g)
  BY <1>1, Zenon DEF Taken
<1>2. CASE \E u \in Users : \E j : Held(o, u, j, g)
  <2>1. PICK u \in Users : \E j : Held(o, u, j, g)
    BY Zenon, <1>2
  <2>2. PICK j : Held(o, u, j, g)
    BY <2>1, Zenon
  <2>3. CASE u = q.uin
    <3>1. j \in 1 .. Len(t.notes) /\ t.notes[j].goods = g
      BY <2>2, <2>3, Zenon DEF Held
    <3>2. j \in 1 .. Len(q.notes) /\ q.notes[j].goods = g
      BY <3>1, Zenon DEF SlotAdded
    <3>3. Held(p, u, j, g)
      BY <2>3, <3>2, Zenon DEF Held, Updated
    <3> QED
      BY <3>3, Zenon
  <2>4. CASE u = self /\ j = i
    <3>1. g = goods
      BY <2>2, <2>4, Zenon DEF Held
    <3>2. s \in 1 .. Len(q.notes) /\ q.notes[s].goods = g
      BY <3>1, Zenon DEF SlotAdded
    <3>3. Held(p, q.uin, s, g)
      BY <3>2, Zenon DEF Held, Updated
    <3> QED
      BY <3>3, Zenon
  <2>5. CASE u # q.uin /\ ~(u = self /\ j = i)
    <3>1. Held(m, u, j, g)
      BY <2>2, <2>5, Zenon DEF Less
    <3>2. Held(p, u, j, g)
      BY <2>5, <3>1, Zenon DEF Held, Updated
    <3> QED
      BY <3>2, Zenon
  <2> QED
    BY <2>3, <2>4, <2>5, Zenon
<1> QED
  BY <1>1, <1>2, Zenon DEF Present

\* The gift in a slot is held there.
LEMMA HeldAt ==
  ASSUME NEW o, NEW self, self \in DOMAIN o.infos, NEW i, i \in 1 .. Len(o.infos[self].notes)
  PROVE Held(o, self, i, o.infos[self].notes[i].goods)
BY Zenon DEF Held

\* A user is asked by the info of a user, by that under uin 0 or by an empty one.
LEMMA GiftsReply ==
  ASSUME GiftsOk(obj, ref), NEW self \in Users, NEW id, ReplyGiftRequest(self, id)
  PROVE GiftsOk(obj', ref') /\ obj'.halt = "no"
<1> DEFINE mine == GetExchangeGiftsInfo(obj, self)
           i == FindNotification(mine.notes, id)
           n == mine.notes[i]
           theirs == GetExchangeGiftsInfo(obj, n.uin)
           slot == NewNotification(theirs.notes).slot
           sent == [Freed(mine, i) EXCEPT !.sends = Append(@, n.uin)]
           mid == UpdateExchangeGiftsInfo(obj, sent)
           q == Notify(theirs, self, n.goods, Now)
           A == n.uin = self
           B == theirs.uin = 0
           C == slot \in DOMAIN theirs.notes /\ theirs.notes[slot].type = "NIL"
           D == Cardinality({k \in DOMAIN theirs.notes : theirs.notes[k].type = "RECEIVE_GIFT"}) >= MaxNotes
<1>1. /\ Len(mine.sends) <= MaxSends /\ i # 0 /\ ~ReachToSameUinLimit(mine.sends, n.uin)
      /\ theirs.next < MaxIds /\ obj.halt = "no"
      /\ obj' = UpdateExchangeGiftsInfo(mid, q)
  BY Zenon DEF ReplyGiftRequest
<1>2. ref' = Flagged(ref, [self |-> A, stranger |-> B, reused |-> C, evicted |-> D])
  BY Zenon DEF ReplyGiftRequest
<1>3. InfosOk(obj) /\ RefOk(ref) /\ obj = [infos |-> obj.infos, halt |-> obj.halt] /\ self \in DOMAIN obj.infos
  BY Zenon DEF GiftsOk, InfosOk
<1>4. A \in BOOLEAN /\ B \in BOOLEAN /\ C \in BOOLEAN /\ D \in BOOLEAN
  <2> HIDE DEF mine, i, n, theirs, slot
  <2> QED
    OBVIOUS
<1>5. FoundAs(obj, self, mine) /\ FoundAs(obj, n.uin, theirs)
  BY <1>3, FoundFacts, Zenon
<1>6. C <=> Reused(theirs.notes, slot)
  BY Zenon DEF Reused
<1>7. D <=> Evicted(theirs.notes)
  BY Zenon DEF Evicted
<1> HIDE DEF A, B, C, D
<1>8. FlagsSet(ref, ref', A, B, C, D)
  BY <1>2, <1>3, <1>4, Flags, ZenonT(60)
<1>81. ref'.gifts = ref.gifts /\ ref'.taken = ref.taken
  BY <1>8, Zenon DEF FlagsSet
<1> HIDE DEF mine
<1>9. mine = obj.infos[self] /\ UserOk(self, mine)
  <2>1. mine.uin = self
    BY <1>5, Zenon DEF FoundAs
  <2> QED
    BY <1>5, <2>1, Zenon DEF FoundAs
<1>10. mine.notes \in Seq(Notes)
  BY <1>9, Zenon DEF UserOk, Infos
<1>11. i \in 1 .. Len(mine.notes) /\ n \in Notes
  BY <1>1, <1>10, FindFacts, Zenon
<1> HIDE DEF i
<1>12. n.uin \in Uins /\ n.goods \in Nat /\ self \in Uins /\ Now \in Times
  BY <1>11, Zenon DEF Notes, Uins, Times
<1>13. Held(obj, self, i, n.goods)
  BY <1>3, <1>9, <1>11, HeldAt, Zenon
<1> HIDE DEF n
<1>14. GaveAway(self, mine, i, sent)
  BY <1>1, <1>9, <1>12, SentFacts, Zenon
<1> HIDE DEF theirs
<1>15. "uin" \in DOMAIN q /\ q.uin = theirs.uin
  <2>1. "uin" \in DOMAIN theirs
    BY <1>5, Zenon DEF FoundAs
  <2> QED
    BY <2>1, NotifyUin, ZenonT(60)
<1>16. theirs \in Infos => Notified(theirs, slot, n.goods, q)
  BY <1>12, NotifyFacts, Zenon
<1> HIDE DEF sent, q, slot
<1>17. UserOk(self, sent) /\ NotesChanged(mine.notes, i, FreedNote, sent.notes) /\ sent \in Infos /\ sent.uin = self /\ "uin" \in DOMAIN sent
  <2>1. UserOk(self, sent) /\ NotesChanged(mine.notes, i, FreedNote, sent.notes)
    BY <1>14, Zenon DEF GaveAway
  <2>2. sent \in Infos /\ sent.uin = self
    BY <2>1, Zenon DEF UserOk
  <2>3. "uin" \in DOMAIN sent
    BY <2>2, Zenon DEF Infos
  <2> QED
    BY <2>1, <2>2, <2>3, Zenon
<1>18. Updated(obj, sent, mid)
  BY <1>3, UpdateFacts, Zenon
<1> HIDE DEF mid
<1>19. InfosOk(mid) /\ mid.halt = obj.halt
  BY <1>3, <1>17, <1>18, UpdatedOk, Zenon
<1>20. mid = [infos |-> mid.infos, halt |-> mid.halt]
  BY <1>19, Zenon DEF InfosOk
<1>21. Updated(mid, q, obj')
  BY <1>1, <1>20, UpdateFacts, Zenon
<1>22. theirs.uin \in Users \cup {0} /\ (theirs.uin \in Users => UserOk(theirs.uin, theirs) /\ theirs = obj.infos[theirs.uin] /\ n.uin = theirs.uin)
  BY <1>5, Zenon DEF FoundAs
<1>23. theirs.uin \in Users => UserOk(theirs.uin, q)
  <2> SUFFICES ASSUME theirs.uin \in Users PROVE UserOk(theirs.uin, q)
    BY Zenon
  <2>1. theirs \in Infos /\ UserOk(theirs.uin, theirs)
    BY <1>22, Zenon DEF UserOk
  <2>2. Notified(theirs, slot, n.goods, q)
    BY <1>16, <2>1, Zenon
  <2> QED
    BY <1>1, <2>1, <2>2, NotifiedOk, Zenon
<1>24. InfosOk(obj') /\ obj'.halt = mid.halt
  BY <1>15, <1>19, <1>21, <1>22, <1>23, UpdatedOk, Zenon
<1>25. Less(obj, mid, self, i)
  BY <1>3, <1>9, <1>17, <1>18, LessFacts, Zenon
<1>26. ASSUME "cleared" \notin ref'.flags PROVE ZeroOk(obj') /\ theirs \in Infos
  <2>1. ZeroOk(obj)
    BY <1>8, <1>26, Zenon DEF GiftsOk, FlagsSet
  <2>2. theirs \in Infos
    BY <1>5, <2>1, Zenon DEF FoundAs
  <2>3. q \in Infos
    BY <1>16, <2>2, Zenon DEF Notified
  <2>4. ZeroOk(mid)
    BY <1>17, <1>18, <2>1, UpdatedZero, Zenon
  <2>5. ZeroOk(obj')
    BY <1>21, <2>3, <2>4, UpdatedZero, Zenon
  <2> QED
    BY <2>2, <2>5, Zenon
<1>27. ASSUME ref'.flags \cap {"self", "cleared"} = {} PROVE Once(obj', ref')
  <2>1. "cleared" \notin ref'.flags /\ ~A
    BY <1>8, <1>27, Zenon DEF FlagsSet
  <2>2. theirs \in Infos
    BY <1>26, <2>1, Zenon
  <2>3. Notified(theirs, slot, n.goods, q)
    BY <1>16, <2>2, Zenon
  <2>4. NewAs(theirs.notes, q.notes, slot) /\ (slot \in 1 .. Len(q.notes) => q.notes[slot].goods = n.goods)
    BY <2>3, Zenon DEF Notified
  <2>5. (q.uin \in DOMAIN mid.infos /\ theirs = mid.infos[q.uin]) \/ theirs.notes = <<>>
    <3>1. CASE theirs.uin \in Users
      <4>1. theirs.uin # self
        BY <1>22, <2>1, <3>1, Zenon DEF A
      <4>2. theirs.uin \in DOMAIN obj.infos
        BY <1>3, <3>1, Zenon DEF InfosOk
      <4> QED
        BY <1>15, <1>17, <1>18, <1>22, <3>1, <4>1, <4>2, Zenon DEF Updated
    <3>2. CASE theirs.uin \notin Users
      <4>1. theirs.uin = 0 /\ self # 0
        BY <1>22, <3>2, NoZero, Zenon
      <4>2. CASE 0 \in DOMAIN obj.infos /\ theirs = obj.infos[0]
        BY <1>15, <1>17, <1>18, <4>1, <4>2, Zenon DEF Updated
      <4>3. CASE theirs = Empty
        BY <4>3, EmptyInfo, Zenon
      <4> QED
        BY <1>5, <3>2, <4>2, <4>3, Zenon DEF FoundAs
    <3> QED
      BY <3>1, <3>2, Zenon
  <2>6. Passed(obj, obj', self, i, q.uin, slot, n.goods)
    BY <1>21, <1>25, <2>4, <2>5, PassedFacts, Zenon
  <2>7. Once(obj, ref)
    BY <1>8, <1>27, Zenon DEF GiftsOk, FlagsSet
  <2> QED
    BY <1>3, <1>81, <1>13, <2>6, <2>7, PassedOnce, Zenon
<1>28. ASSUME ref'.flags \cap {"reused", "evicted", "stranger"} = {} PROVE Present(obj', ref')
  <2>1. ~B /\ ~C /\ ~D
    BY <1>8, <1>28, Zenon DEF FlagsSet
  <2>2. theirs.uin \in Users
    BY <1>22, <2>1, Zenon DEF B
  <2>3. theirs \in Infos /\ theirs = obj.infos[theirs.uin] /\ theirs.uin \in DOMAIN obj.infos
    BY <1>3, <1>22, <2>2, Zenon DEF UserOk, InfosOk
  <2>4. Notified(theirs, slot, n.goods, q)
    BY <1>16, <2>3, Zenon
  <2>5. SlotAdded(theirs.notes, q.notes, slot) /\ (slot \in 1 .. Len(q.notes) => q.notes[slot].goods = n.goods)
    BY <1>6, <1>7, <2>1, <2>4, Zenon DEF Notified, NewAs
  <2>6. Present(obj, ref)
    BY <1>8, <1>28, Zenon DEF GiftsOk, FlagsSet
  <2>7. q.uin \in Users /\ q.uin \in DOMAIN obj.infos /\ theirs = obj.infos[q.uin]
    BY <1>15, <2>2, <2>3, Zenon
  <2> QED
    BY <1>81, <1>13, <1>21, <1>25, <2>5, <2>6, <2>7, PassedPresent, Zenon
<1> QED
  BY <1>1, <1>8, <1>19, <1>24, <1>26, <1>27, <1>28, Zenon DEF GiftsOk, FlagsSet

\* ReceiveGift moves the gift of a slot to those received.
LEMMA GiftsReceive ==
  ASSUME GiftsOk(obj, ref), NEW self \in Users, NEW id, ReceiveGift(self, id)
  PROVE GiftsOk(obj', ref') /\ obj'.halt = "no"
<1> DEFINE mine == GetExchangeGiftsInfo(obj, self)
           i == FindNotification(mine.notes, id)
           n == mine.notes[i]
           sent == [Freed(mine, i) EXCEPT !.receives = Append(@, n.uin)]
           l == IF n.goods = 0 THEN ref.taken ELSE Append(ref.taken, n.goods)
<1>1. /\ i # 0 /\ Len(mine.receives) <= MaxReceives /\ obj.halt = "no"
      /\ obj' = UpdateExchangeGiftsInfo(obj, sent)
      /\ ref' = [ref EXCEPT !.taken = l]
  BY Zenon DEF ReceiveGift
<1>3. InfosOk(obj) /\ RefOk(ref) /\ obj = [infos |-> obj.infos, halt |-> obj.halt] /\ self \in DOMAIN obj.infos
  BY Zenon DEF GiftsOk, InfosOk
<1>5. FoundAs(obj, self, mine)
  BY <1>3, FoundFacts, Zenon
<1> HIDE DEF mine
<1>9. mine = obj.infos[self] /\ UserOk(self, mine)
  <2>1. mine.uin = self
    BY <1>5, Zenon DEF FoundAs
  <2> QED
    BY <1>5, <2>1, Zenon DEF FoundAs
<1>10. mine.notes \in Seq(Notes)
  BY <1>9, Zenon DEF UserOk, Infos
<1>11. i \in 1 .. Len(mine.notes) /\ n \in Notes
  BY <1>1, <1>10, FindFacts, Zenon
<1> HIDE DEF i
<1>12. n.uin \in Uins /\ n.goods \in Nat
  BY <1>11, Zenon DEF Notes
<1>13. Held(obj, self, i, n.goods)
  BY <1>3, <1>9, <1>11, HeldAt, Zenon
<1> HIDE DEF n
<1>14. GaveAway(self, mine, i, sent)
  BY <1>1, <1>9, <1>12, ReceivedFacts, Zenon
<1> HIDE DEF sent
<1>17. UserOk(self, sent) /\ NotesChanged(mine.notes, i, FreedNote, sent.notes) /\ sent \in Infos /\ sent.uin = self /\ "uin" \in DOMAIN sent
  <2>1. UserOk(self, sent) /\ NotesChanged(mine.notes, i, FreedNote, sent.notes)
    BY <1>14, Zenon DEF GaveAway
  <2>2. sent \in Infos /\ sent.uin = self
    BY <2>1, Zenon DEF UserOk
  <2>3. "uin" \in DOMAIN sent
    BY <2>2, Zenon DEF Infos
  <2> QED
    BY <2>1, <2>2, <2>3, Zenon
<1>18. Updated(obj, sent, obj')
  BY <1>1, <1>3, UpdateFacts, Zenon
<1>19. InfosOk(obj') /\ obj'.halt = obj.halt
  BY <1>3, <1>17, <1>18, UpdatedOk, Zenon
<1>20. Less(obj, obj', self, i)
  BY <1>3, <1>9, <1>17, <1>18, LessFacts, Zenon
<1>21. ref.taken \in Seq(Nat)
  BY <1>3, Zenon DEF RefOk
<1>22. l \in Seq(Nat)
  BY <1>12, <1>21
<1>23. \A a, g : g # 0 /\ a \in 1 .. Len(l) /\ l[a] = g =>
         (a \in 1 .. Len(ref.taken) /\ ref.taken[a] = g) \/ (a = Len(ref.taken) + 1 /\ g = n.goods)
  BY <1>12, <1>21
<1>24. \A a, g : a \in 1 .. Len(ref.taken) /\ ref.taken[a] = g => a \in 1 .. Len(l) /\ l[a] = g
  BY <1>12, <1>21
<1>25. n.goods # 0 => Len(ref.taken) + 1 \in 1 .. Len(l) /\ l[Len(ref.taken) + 1] = n.goods
  BY <1>12, <1>21
<1> HIDE DEF l
<1>26. RefOk(ref') /\ ref'.flags = ref.flags /\ ref'.gifts = ref.gifts /\ ref'.taken = l
  BY <1>1, <1>3, <1>22, Zenon DEF RefOk
<1>27. \A a, g : g # 0 /\ Taken(ref', a, g) => Taken(ref, a, g) \/ (a = Len(ref.taken) + 1 /\ g = n.goods)
  BY <1>23, <1>26, Zenon DEF Taken
<1>28. \A a, g : Taken(ref, a, g) => Taken(ref', a, g)
  BY <1>24, <1>26, Zenon DEF Taken
<1>29. n.goods # 0 => Taken(ref', Len(ref.taken) + 1, n.goods)
  BY <1>25, <1>26, Zenon DEF Taken
<1>30. \A g \in ref.gifts : g # 0
  BY <1>3, Zenon DEF RefOk
<1>31. ZeroOk(obj) => ZeroOk(obj')
  BY <1>17, <1>18, UpdatedZero, Zenon
<1>32. ASSUME Once(obj, ref) PROVE Once(obj', ref')
  <2> SUFFICES ASSUME NEW g \in ref.gifts
               PROVE /\ \A x, j, y, k : Held(obj', x, j, g) /\ Held(obj', y, k, g) => x = y /\ j = k
                     /\ \A a, b : Taken(ref', a, g) /\ Taken(ref', b, g) => a = b
                     /\ \A x, j, a : ~(Held(obj', x, j, g) /\ Taken(ref', a, g))
    BY <1>26, Zenon DEF Once
  <2>1. g # 0
    BY <1>30, Zenon
  <2>2. \A x, j, y, k : Held(obj, x, j, g) /\ Held(obj, y, k, g) => x = y /\ j = k
    BY <1>32, Zenon DEF Once
  <2>3. \A x, j, a : ~(Held(obj, x, j, g) /\ Taken(ref, a, g))
    BY <1>32, Zenon DEF Once
  <2>4. \A a, b : Taken(ref, a, g) /\ Taken(ref, b, g) => a = b
    BY <1>32, Zenon DEF Once
  <2>5. \A x, j : Held(obj', x, j, g) => Held(obj, x, j, g) /\ ~(x = self /\ j = i)
    BY <1>20, <2>1, Zenon DEF Less
  <2>6. \A x, j, y, k : Held(obj', x, j, g) /\ Held(obj', y, k, g) => x = y /\ j = k
    BY <2>2, <2>5, Zenon
  <2>7. CASE g = n.goods
    <3>1. Held(obj, self, i, g)
      BY <1>13, <2>7, Zenon
    <3>2. \A x, j : ~Held(obj', x, j, g)
      BY <2>2, <2>5, <3>1, Zenon
    <3>3. \A a : Taken(ref', a, g) => a = Len(ref.taken) + 1
      BY <1>27, <2>1, <2>3, <3>1, Zenon
    <3>4. \A a, b : Taken(ref', a, g) /\ Taken(ref', b, g) => a = b
      BY <3>3
    <3> QED
      BY <3>2, <3>4, Zenon
  <2>8. CASE g # n.goods
    <3>1. \A a : Taken(ref', a, g) => Taken(ref, a, g)
      BY <1>27, <2>1, <2>8, Zenon
    <3>2. \A a, b : Taken(ref', a, g) /\ Taken(ref', b, g) => a = b
      BY <2>4, <3>1, Zenon
    <3>3. \A x, j, a : ~(Held(obj', x, j, g) /\ Taken(ref', a, g))
      BY <2>3, <2>5, <3>1, Zenon
    <3> QED
      BY <2>6, <3>2, <3>3, Zenon
  <2> QED
    BY <2>7, <2>8, Zenon
<1>33. ASSUME Present(obj, ref) PROVE Present(obj', ref')
  <2> SUFFICES ASSUME NEW g \in ref.gifts
               PROVE (\E u \in Users : \E j : Held(obj', u, j, g)) \/ (\E a : Taken(ref', a, g))
    BY <1>26, Zenon DEF Present
  <2>1. g # 0
    BY <1>30, Zenon
  <2>2. CASE \E a : Taken(ref, a, g)
    BY <1>28, <2>2, Zenon
  <2>3. CASE \E u \in Users : \E j : Held(obj, u, j, g)
    <3>1. PICK u \in Users : \E j : Held(obj, u, j, g)
      BY <2>3
    <3>2. PICK j : Held(obj, u, j, g)
      BY <3>1, Zenon
    <3>3. CASE u = self /\ j = i
      <4>1. g = n.goods
        BY <1>13, <3>2, <3>3, Zenon DEF Held
      <4> QED
        BY <1>29, <2>1, <4>1, Zenon
    <3>4. CASE ~(u = self /\ j = i)
      BY <1>20, <3>2, <3>4, Zenon DEF Less
    <3> QED
      BY <3>3, <3>4, Zenon
  <2> QED
    BY <1>33, <2>2, <2>3, Zenon DEF Present
<1> QED
  BY <1>1, <1>19, <1>26, <1>31, <1>32, <1>33, Zenon DEF GiftsOk

\* The rest of a cleared info is saved under uin 0, which is not that of a user.
LEMMA GiftsClear ==
  ASSUME GiftsOk(obj, ref), NEW self \in Users, ClearInfoIfExpired(self)
  PROVE GiftsOk(obj', ref') /\ obj'.halt = "no"
<1> DEFINE kept == SelectSeq(GetExchangeGiftsInfo(obj, self).notes, NotificationNotExpired)
           info == [Empty EXCEPT !.login = Now, !.notes = kept]
           k == [cleared |-> TRUE]
<1>1. /\ obj.halt = "no" /\ obj' = UpdateExchangeGiftsInfo(obj, info) /\ ref' = Flagged(ref, k)
  BY Zenon DEF ClearInfoIfExpired
<1>2. InfosOk(obj) /\ RefOk(ref) /\ obj = [infos |-> obj.infos, halt |-> obj.halt]
  BY Zenon DEF GiftsOk, InfosOk
<1> HIDE DEF kept
<1>3. "uin" \in DOMAIN info /\ info.uin = 0
  BY EmptyInfo, Zenon
<1> HIDE DEF info
<1>4. Updated(obj, info, obj')
  BY <1>1, <1>2, UpdateFacts, Zenon
<1>5. InfosOk(obj') /\ obj'.halt = obj.halt
  BY <1>2, <1>3, <1>4, NoZero, UpdatedOk, Zenon
<1>6. DOMAIN k = {"cleared"} /\ k["cleared"] = TRUE
  BY Zenon
<1>7. ref' = [ref EXCEPT !.flags = ref.flags \cup {c \in DOMAIN k : k[c]}]
  BY <1>1, Zenon DEF Flagged
<1> HIDE DEF k
<1>8. {c \in DOMAIN k : k[c]} = {"cleared"}
  BY <1>6, Zenon
<1>9. ref.flags \cup {"cleared"} \in SUBSET FlagNames
  BY <1>2, Zenon DEF RefOk, FlagNames
<1>10. RefOk(ref') /\ ref'.flags = ref.flags \cup {"cleared"} /\ ref'.gifts = ref.gifts /\ ref'.taken = ref.taken
  BY <1>2, <1>7, <1>8, <1>9, Zenon DEF RefOk
<1>11. \A u \in Users : \A j, g : Held(obj, u, j, g) => Held(obj', u, j, g)
  BY <1>3, <1>4, NoZero, Zenon DEF Held, Updated
<1>12. \A a, g : Taken(ref, a, g) => Taken(ref', a, g)
  BY <1>10, Zenon DEF Taken
<1>13. Present(obj, ref) => Present(obj', ref')
  BY <1>10, <1>11, <1>12, Zenon DEF Present
<1>14. "cleared" \in ref'.flags /\ ref.flags \subseteq ref'.flags
  BY <1>10, Zenon
<1>15. ref'.flags \cap {"reused", "evicted", "stranger"} = {} => ref.flags \cap {"reused", "evicted", "stranger"} = {}
  BY <1>14, Zenon
<1>16. ref'.flags \cap {"self", "cleared"} # {}
  BY <1>14, Zenon
<1> QED
  BY <1>1, <1>5, <1>10, <1>13, <1>14, <1>15, <1>16, Zenon DEF GiftsOk

\* A set whose elements are all equal.
LEMMA AtMostOne ==
  ASSUME NEW S, \A x, y \in S : x = y
  PROVE IsFiniteSet(S) /\ Cardinality(S) \in Nat /\ Cardinality(S) <= 1
<1>1. CASE S = {}
  BY <1>1, FS_EmptySet
<1>2. CASE S # {}
  <2>1. PICK x \in S : TRUE
    BY <1>2
  <2>2. S = {x}
    BY <2>1, Zenon
  <2>3. IsFiniteSet({x}) /\ Cardinality({x}) = 1
    BY Zenon, FS_Singleton
  <2>4. IsFiniteSet(S) /\ Cardinality(S) = 1
    BY <2>2, <2>3, Zenon
  <2> QED
    BY <2>4
<1> QED
  BY <1>1, <1>2

\* A set that is not empty.
LEMMA AtLeastOne ==
  ASSUME NEW S, IsFiniteSet(S), S # {}
  PROVE Cardinality(S) \in Nat /\ Cardinality(S) >= 1
<1>1. Cardinality(S) \in Nat /\ Cardinality(S) # 0
  BY FS_CardinalityType, FS_EmptySet, Zenon
<1> QED
  BY <1>1

\* The counts of the property are those of the slots and of the gifts received.
LEMMA HoldingFacts ==
  ASSUME InfosOk(obj), NEW g
  PROVE /\ IsFiniteSet(Holding(g))
        /\ ZeroOk(obj) => \A h \in Holding(g) : h = <<h[1], h[2]>> /\ Held(obj, h[1], h[2], g)
        /\ \A u \in Users : \A j : Held(obj, u, j, g) => <<u, j>> \in Holding(g)
<1> DEFINE P == (DOMAIN obj.infos) \X (1 .. MaxIds)
<1>1. IsFiniteSet(Users \cup {0})
  BY GiftsAssumption, FS_AddElement, Zenon
<1>2. IsFiniteSet(DOMAIN obj.infos)
  BY <1>1, FS_Subset, Zenon DEF InfosOk
<1>3. IsFiniteSet(1 .. MaxIds)
  BY GiftsAssumption, FS_Interval
<1>4. IsFiniteSet(P)
  BY <1>2, <1>3, FS_Product, Zenon
<1>5. Holding(g) \subseteq P
  BY Zenon DEF Holding
<1>6. IsFiniteSet(Holding(g))
  BY <1>4, <1>5, FS_Subset, Zenon
<1>7. ASSUME ZeroOk(obj), NEW h \in Holding(g) PROVE h = <<h[1], h[2]>> /\ Held(obj, h[1], h[2], g)
  <2>1. /\ h \in P /\ h[2] \in DOMAIN obj.infos[h[1]].notes /\ obj.infos[h[1]].notes[h[2]].goods = g
    BY Zenon DEF Holding
  <2>2. h = <<h[1], h[2]>> /\ h[1] \in DOMAIN obj.infos
    BY <2>1
  <2>3. obj.infos[h[1]] \in Infos
    BY <1>7, <2>2, Zenon DEF InfosOk, UserOk, ZeroOk
  <2>4. obj.infos[h[1]].notes \in Seq(Notes)
    BY <2>3, Zenon DEF Infos
  <2>5. DOMAIN obj.infos[h[1]].notes = 1 .. Len(obj.infos[h[1]].notes)
    BY <2>4
  <2> QED
    BY <2>1, <2>2, <2>5, Zenon DEF Held
<1>8. ASSUME NEW u \in Users, NEW j, Held(obj, u, j, g) PROVE <<u, j>> \in Holding(g)
  <2>1. u \in DOMAIN obj.infos /\ j \in 1 .. Len(obj.infos[u].notes) /\ obj.infos[u].notes[j].goods = g
    BY <1>8, Zenon DEF Held
  <2>2. UserOk(u, obj.infos[u])
    BY Zenon DEF InfosOk
  <2>3. obj.infos[u].notes \in Seq(Notes) /\ obj.infos[u].next \in Nat
    BY <2>2, Zenon DEF UserOk, Infos
  <2>4. Len(obj.infos[u].notes) <= obj.infos[u].next /\ obj.infos[u].next <= MaxIds
    BY <2>2, Zenon DEF UserOk
  <2>5. DOMAIN obj.infos[u].notes = 1 .. Len(obj.infos[u].notes) /\ Len(obj.infos[u].notes) \in Nat
    BY <2>3
  <2>6. j \in 1 .. MaxIds
    BY <2>1, <2>3, <2>4, <2>5, GiftsAssumption
  <2>7. <<u, j>> \in P
    BY <2>1, <2>6, Zenon
  <2>8. <<u, j>>[1] = u /\ <<u, j>>[2] = j
    OBVIOUS
  <2> QED
    BY <2>1, <2>5, <2>7, <2>8, Zenon DEF Holding
<1> QED
  BY <1>6, <1>7, <1>8, Zenon

\* Received counts the places of a gift in those received.
LEMMA TakenFacts ==
  ASSUME RefOk(ref), NEW g
  PROVE /\ IsFiniteSet(Places(ref.taken, g)) /\ Received(g) = Cardinality(Places(ref.taken, g))
        /\ \A a : a \in Places(ref.taken, g) <=> Taken(ref, a, g)
<1>1. ref.taken \in Seq(Nat)
  BY Zenon DEF RefOk
<1>2. DOMAIN ref.taken = 1 .. Len(ref.taken)
  BY <1>1
<1>3. \A a : a \in Places(ref.taken, g) <=> Taken(ref, a, g)
  BY <1>2, Zenon DEF Places, Taken
<1>4. Received(g) = Cardinality(Places(ref.taken, g))
  BY Zenon DEF Received, Places
<1> QED
  BY <1>1, <1>3, <1>4, PlacesFinite, Zenon

\* What the property states of a gift.
CopiesAgree(g) ==
  /\ ref.flags \cap {"self", "cleared"} = {} => Cardinality(Holding(g)) + Received(g) <= 1
  /\ ref.flags \cap {"reused", "evicted", "stranger"} = {} => Cardinality(Holding(g)) + Received(g) >= 1

\* At most one copy where Once holds, at least one where Present does.
LEMMA CopiesFacts ==
  ASSUME GiftsOk(obj, ref), NEW g \in ref.gifts
  PROVE CopiesAgree(g)
<1> DEFINE H == Holding(g)
           T == Places(ref.taken, g)
<1>1. InfosOk(obj) /\ RefOk(ref)
  BY Zenon DEF GiftsOk
<1>2. /\ IsFiniteSet(H)
      /\ ZeroOk(obj) => \A h \in H : h = <<h[1], h[2]>> /\ Held(obj, h[1], h[2], g)
      /\ \A u \in Users : \A j : Held(obj, u, j, g) => <<u, j>> \in H
  BY <1>1, HoldingFacts, Zenon
<1>3. IsFiniteSet(T) /\ Received(g) = Cardinality(T) /\ \A a : a \in T <=> Taken(ref, a, g)
  BY <1>1, TakenFacts, Zenon
<1>4. Cardinality(Holding(g)) = Cardinality(H)
  BY Zenon
<1> HIDE DEF H, T
<1>5. Cardinality(H) \in Nat /\ Cardinality(T) \in Nat
  BY <1>2, <1>3, FS_CardinalityType, Zenon
<1>6. ASSUME ref.flags \cap {"self", "cleared"} = {} PROVE Cardinality(H) + Cardinality(T) <= 1
  <2>1. Once(obj, ref) /\ ZeroOk(obj)
    BY <1>6, Zenon DEF GiftsOk
  <2>2. \A h \in H : h = <<h[1], h[2]>> /\ Held(obj, h[1], h[2], g)
    BY <1>2, <2>1, Zenon
  <2>3. \A x, y \in H : x = y
    <3> SUFFICES ASSUME NEW x \in H, NEW y \in H PROVE x = y
      BY Zenon
    <3>1. x[1] = y[1] /\ x[2] = y[2]
      BY <2>1, <2>2, ZenonT(60) DEF Once
    <3>2. x = <<x[1], x[2]>> /\ y = <<y[1], y[2]>>
      BY <2>2, Zenon
    <3>3. <<x[1], x[2]>> = <<y[1], y[2]>>
      BY <3>1, Zenon
    <3> QED
      BY <3>2, <3>3, Zenon
  <2>4. \A x, y \in T : x = y
    BY <1>3, <2>1, Zenon DEF Once
  <2>5. H = {} \/ T = {}
    <3>1. \A x, j, a : ~(Held(obj, x, j, g) /\ Taken(ref, a, g))
      BY <2>1, Zenon DEF Once
    <3>2. \A h \in H, a \in T : FALSE
      BY <1>3, <2>2, <3>1, Zenon
    <3> QED
      BY <3>2, Zenon
  <2>6. Cardinality(H) <= 1
    BY <2>3, AtMostOne, Zenon
  <2>7. Cardinality(T) <= 1
    BY <2>4, AtMostOne, Zenon
  <2>8. Cardinality(H) = 0 \/ Cardinality(T) = 0
    BY <2>5, FS_EmptySet, Zenon
  <2> QED
    BY <1>5, <2>6, <2>7, <2>8
<1>7. ASSUME ref.flags \cap {"reused", "evicted", "stranger"} = {} PROVE Cardinality(H) + Cardinality(T) >= 1
  <2>1. Present(obj, ref)
    BY <1>7, Zenon DEF GiftsOk
  <2>2. H # {} \/ T # {}
    BY <1>2, <1>3, <2>1, Zenon DEF Present
  <2>3. Cardinality(H) >= 1 \/ Cardinality(T) >= 1
    BY <1>2, <1>3, <2>2, AtLeastOne, Zenon
  <2> QED
    BY <1>5, <2>3
<1> QED
  BY <1>3, <1>4, <1>6, <1>7, Zenon DEF CopiesAgree

\* What the property states of a user.
UserAgrees(info) ==
  /\ Len(info.sends) <= MaxSends + 1 /\ Len(info.receives) <= MaxReceives + 1
  /\ \A v \in Users : Cardinality({i \in DOMAIN info.sends : info.sends[i] = v}) <= MaxToSame + 1
  /\ \A i, j \in DOMAIN info.notes :
       i # j /\ info.notes[i].id = info.notes[j].id =>
         info.notes[i].id = 0 /\ (info.notes[i].goods = 0 \/ info.notes[j].goods = 0)

\* A user's info in order has what the property states.
LEMMA UserOkAgrees == ASSUME NEW u, NEW info, UserOk(u, info) PROVE UserAgrees(info)
<1>1. info.notes \in Seq(Notes)
  BY Zenon DEF UserOk, Infos
<1>2. DOMAIN info.notes = 1 .. Len(info.notes)
  BY <1>1
<1>3. \A v \in Users : Cardinality({i \in DOMAIN info.sends : info.sends[i] = v}) <= MaxToSame + 1
  BY Zenon DEF UserOk, SendsOk
<1>4. Len(info.sends) <= MaxSends + 1 /\ Len(info.receives) <= MaxReceives + 1
  BY Zenon DEF UserOk, SendsOk
<1>5. \A i, j \in DOMAIN info.notes :
             i # j /\ info.notes[i].id = info.notes[j].id =>
               info.notes[i].id = 0 /\ (info.notes[i].goods = 0 \/ info.notes[j].goods = 0)
  BY <1>2, Zenon DEF UserOk, NotesOk
<1> QED
  BY <1>3, <1>4, <1>5, Zenon DEF UserAgrees

\* The property follows from the invariant.
LEMMA GiftsAgree == GiftsInv => GiftsAccounted
<1> SUFFICES ASSUME GiftsInv PROVE GiftsAccounted
  BY Zenon
<1>1. CASE obj.halt = "no"
  <2>1. GiftsOk(obj, ref)
    BY <1>1, Zenon DEF GiftsInv
  <2>2. \A u \in DOMAIN obj.infos \cap Users : UserOk(u, obj.infos[u])
    BY <2>1, Zenon DEF GiftsOk, InfosOk
  <2>3. \A u \in DOMAIN obj.infos \cap Users : UserAgrees(obj.infos[u])
    BY <2>2, UserOkAgrees, Zenon
  <2>4. \A g \in ref.gifts : CopiesAgree(g)
    BY <2>1, CopiesFacts, Zenon
  <2> QED
    BY <2>3, <2>4, Zenon DEF GiftsAccounted, UserAgrees, CopiesAgree
<1>2. CASE obj.halt # "no"
  <2>1. obj.infos = <<>> /\ ref.gifts = {}
    BY <1>2, Zenon DEF GiftsInv
  <2>2. DOMAIN <<>> = {}
    OBVIOUS
  <2>3. DOMAIN obj.infos \cap Users = {}
    BY <2>1, <2>2, Zenon
  <2> QED
    BY <2>1, <2>3, Zenon DEF GiftsAccounted
<1> QED
  BY <1>1, <1>2, Zenon

\* The info of user u has k gifts.
StoredAs(u, k, s) ==
  /\ UserOk(u, s) /\ Len(s.notes) = k
  /\ \A i \in 1 .. k : s.notes[i].goods = 10 * u + i

\* A stored info is in order, and its gifts are those of its user.
LEMMA StoredFacts ==
  ASSUME NEW u \in Users, NEW k \in 0 .. 2, NEW type \in {"REQUEST_GIFT", "RECEIVE_GIFT"}, NEW login \in {0, Now + Day + 1},
         NEW from \in [1 .. 2 -> Users \cup {Stranger}], NEW s, s = Stored(u, k, type, from, login)
  PROVE StoredAs(u, k, s)
<1> DEFINE note(i) == [Cleared EXCEPT !.uin = from[i], !.id = i - 1, !.time = i - 1, !.type = type, !.goods = 10 * u + i]
           m == [i \in 1 .. k |-> note(i)]
<1>1. s = [Empty EXCEPT !.uin = u, !.login = login, !.next = k, !.notes = m]
  BY Zenon DEF Stored
<1>2. u \in Nat /\ k \in Nat
  BY GiftsAssumption
<1>3. ASSUME NEW i \in 1 .. k PROVE note(i) \in Notes /\ note(i).id = i - 1 /\ note(i).goods = 10 * u + i
  <2>1. i - 1 \in Nat /\ i - 1 \in {0, 1} /\ i \in 1 .. 2 /\ 10 * u + i \in Nat
    BY <1>2
  <2>2. from[i] \in Uins /\ i - 1 \in Times /\ type \in Types
    BY <2>1, Zenon DEF Uins, Times, Types
  <2> QED
    BY <2>1, <2>2, ClearedNote, Zenon DEF Notes
<1> HIDE DEF note
<1>4. m \in [1 .. k -> Notes] /\ \A i \in 1 .. k : m[i].id = i - 1 /\ m[i].goods = 10 * u + i
  BY <1>3, Zenon
<1> HIDE DEF m
<1>5. m \in Seq(Notes) /\ Len(m) = k
  BY <1>2, <1>4, SeqOf, Zenon
<1>6. Empty.sends = <<>> /\ Empty.receives = <<>>
  BY Zenon DEF Empty
<1>7. s \in Infos /\ s.uin = u /\ s.next = k /\ s.notes = m /\ s.sends = <<>> /\ s.receives = <<>>
  BY <1>1, <1>2, <1>5, <1>6, EmptyInfo, ZenonT(60) DEF Infos
<1>8. NotesOk(m, k)
  <2>1. \A i \in 1 .. k : i - 1 < k
    BY <1>2
  <2>2. \A i, j \in 1 .. k : i - 1 = j - 1 => i = j
    BY <1>2
  <2>3. \A i \in 1 .. Len(m) : i \in 1 .. k /\ m[i].id = i - 1
    BY <1>4, <1>5, Zenon
  <2>4. ASSUME NEW i \in 1 .. Len(m), NEW j \in 1 .. Len(m), i # j, m[i].id = m[j].id PROVE FALSE
    <3>1. i - 1 = j - 1
      BY <2>3, <2>4, Zenon
    <3> QED
      BY <2>2, <2>3, <2>4, <3>1, Zenon
  <2>5. \A i \in 1 .. Len(m) : m[i].id < k
    BY <2>1, <2>3, Zenon
  <2> QED
    BY <2>4, <2>5, Zenon DEF NotesOk
<1>9. SendsOk(<<>>)
  <2>1. Len(<<>>) <= MaxSends + 1 /\ DOMAIN <<>> = {}
    BY GiftsAssumption
  <2>2. \A v : {i \in DOMAIN <<>> : <<>>[i] = v} = {}
    BY <2>1, Zenon
  <2>3. Cardinality({}) <= MaxToSame + 1
    BY FS_EmptySet, GiftsAssumption
  <2> QED
    BY <2>1, <2>2, <2>3, Zenon DEF SendsOk
<1>10. Len(m) <= k /\ k <= MaxIds /\ Len(<<>>) <= MaxReceives + 1
  BY <1>2, <1>5, GiftsAssumption
<1>11. UserOk(u, s)
  BY <1>7, <1>8, <1>9, <1>10, Zenon DEF UserOk
<1> QED
  BY <1>4, <1>5, <1>7, <1>11, Zenon DEF StoredAs

\* The users' infos are stored under their uins, every gift with one user.
LEMMA InitGiftsInv == GiftsInit => GiftsInv
<1> SUFFICES ASSUME GiftsInit PROVE GiftsInv
  BY Zenon
<1>1. PICK k \in [Users -> 0 .. 2], type \in {"REQUEST_GIFT", "RECEIVE_GIFT"},
           login \in {0, Now + Day + 1}, from \in [1 .. 2 -> Users \cup {Stranger}] :
        /\ obj = [infos |-> [u \in Users |-> Stored(u, k[u], type, from, login)], halt |-> "no"]
        /\ ref = [gifts |-> UNION {{10 * u + i : i \in 1 .. k[u]} : u \in Users}, taken |-> <<>>, flags |-> {}]
  BY ZenonT(60) DEF GiftsInit
<1> DEFINE f == [u \in Users |-> Stored(u, k[u], type, from, login)]
           gifts == UNION {{10 * u + i : i \in 1 .. k[u]} : u \in Users}
<1>2. obj.infos = f /\ obj.halt = "no"
  BY <1>1, Fields, Zenon
<1>3. ref.gifts = gifts /\ ref.taken = <<>> /\ ref.flags = {} /\ ref = [gifts |-> gifts, taken |-> <<>>, flags |-> {}]
  BY <1>1, Zenon
<1>4. \A u \in Users : k[u] \in 0 .. 2
  BY Zenon
<1>5. \A u \in Users : f[u] = Stored(u, k[u], type, from, login)
  BY Zenon
<1>6. \A u \in Users : StoredAs(u, k[u], f[u])
  <2> HIDE DEF f
  <2> TAKE u \in Users
  <2>1. k[u] \in 0 .. 2 /\ f[u] = Stored(u, k[u], type, from, login)
    BY <1>4, <1>5, Zenon
  <2> QED
    BY <2>1, StoredFacts, Zenon
<1>7. DOMAIN f = Users
  BY Zenon
<1>8. obj = [infos |-> obj.infos, halt |-> obj.halt]
  BY <1>1, <1>2, Zenon
<1> HIDE DEF f
<1>9. InfosOk(obj) /\ ZeroOk(obj)
  BY <1>2, <1>6, <1>7, <1>8, NoZero, Zenon DEF InfosOk, ZeroOk, StoredAs
<1>10. \A g \in gifts : \E u \in Users : \E i \in 1 .. k[u] : g = 10 * u + i
  BY Zenon
<1> HIDE DEF gifts
<1>11. gifts \in SUBSET (Nat \ {0})
  <2>1. \A u \in Users : \A i \in 1 .. k[u] : 10 * u + i \in Nat \ {0}
    <3> TAKE u \in Users
    <3>1. u \in Nat /\ k[u] \in 0 .. 2
      BY <1>4, GiftsAssumption
    <3> QED
      BY <3>1
  <2>2. ASSUME NEW g \in gifts PROVE g \in Nat \ {0}
    <3>1. PICK u \in Users : \E i \in 1 .. k[u] : g = 10 * u + i
      BY <1>10, Zenon
    <3>2. PICK i \in 1 .. k[u] : g = 10 * u + i
      BY <3>1, Zenon
    <3>3. 10 * u + i \in Nat \ {0}
      BY <2>1, Zenon
    <3> QED
      BY <3>2, <3>3, Zenon
  <2> QED
    BY <2>2, Zenon
<1>12. RefOk(ref)
  <2>1. <<>> \in Seq(Nat)
    OBVIOUS
  <2> QED
    BY <1>3, <1>11, <2>1, Zenon DEF RefOk
<1>13. \A a, g : ~Taken(ref, a, g)
  <2>1. \A a : a \notin 1 .. Len(<<>>)
    OBVIOUS
  <2> QED
    BY <1>3, <2>1, Zenon DEF Taken
<1>14. \A x, j, g : Held(obj, x, j, g) => x \in Users /\ j \in 1 .. k[x] /\ g = 10 * x + j
  BY <1>2, <1>6, <1>7, ZenonT(60) DEF Held, StoredAs
<1>15. \A u \in Users : \A j : j \in 1 .. k[u] => Held(obj, u, j, 10 * u + j)
  BY <1>2, <1>6, <1>7, Zenon DEF Held, StoredAs
<1>16. \A x, y \in Users : \A i \in 1 .. k[x], j \in 1 .. k[y] : 10 * x + i = 10 * y + j => x = y /\ i = j
  <2> TAKE x, y \in Users
  <2>1. x \in Nat /\ k[x] \in 0 .. 2 /\ y \in Nat /\ k[y] \in 0 .. 2
    BY <1>4, GiftsAssumption
  <2> QED
    BY <2>1
<1>17. Once(obj, ref)
  <2>1. ASSUME NEW g, NEW x, NEW j, NEW y, NEW i, Held(obj, x, j, g), Held(obj, y, i, g) PROVE x = y /\ j = i
    <3>1. x \in Users /\ j \in 1 .. k[x] /\ g = 10 * x + j
      BY <1>14, <2>1, Zenon
    <3>2. y \in Users /\ i \in 1 .. k[y] /\ g = 10 * y + i
      BY <1>14, <2>1, Zenon
    <3>3. 10 * x + j = 10 * y + i
      BY <3>1, <3>2, Zenon
    <3>4. \A a \in 1 .. k[x], b \in 1 .. k[y] : 10 * x + a = 10 * y + b => x = y /\ a = b
      BY <1>16, <3>1, <3>2, Zenon
    <3> QED
      BY <3>1, <3>2, <3>3, <3>4, Zenon
  <2> QED
    BY <1>13, <2>1, Zenon DEF Once
<1>18. Present(obj, ref)
  <2> SUFFICES ASSUME NEW g \in gifts PROVE \E u \in Users : \E j : Held(obj, u, j, g)
    BY <1>3, Zenon DEF Present
  <2>1. PICK u \in Users : \E i \in 1 .. k[u] : g = 10 * u + i
    BY <1>10, Zenon
  <2>2. PICK i \in 1 .. k[u] : g = 10 * u + i
    BY <2>1, Zenon
  <2>3. Held(obj, u, i, 10 * u + i)
    BY <1>15, Zenon
  <2>4. Held(obj, u, i, g)
    BY <2>2, <2>3, Zenon
  <2> QED
    BY <2>4, Zenon
<1> QED
  BY <1>2, <1>9, <1>12, <1>17, <1>18, Zenon DEF GiftsInv, GiftsOk

\* Every handler keeps the invariant.
LEMMA NextGiftsInv == GiftsInv /\ GiftsNext => GiftsInv'
<1> SUFFICES ASSUME GiftsInv, GiftsNext PROVE GiftsInv'
  BY Zenon
<1>1. PICK self \in Users :
        \/ ClearInfoIfExpired(self)
        \/ \E recipient \in Users : AskForGifts(self, recipient) \/ SendGifts(self, recipient)
        \/ \E id \in 0 .. MaxIds - 1 : ReplyGiftRequest(self, id) \/ ReceiveGift(self, id)
  BY Zenon DEF GiftsNext
<1>2. obj.halt = "no"
  BY <1>1, Zenon DEF ClearInfoIfExpired, AskForGifts, SendGifts, ReplyGiftRequest, ReceiveGift
<1>3. GiftsOk(obj, ref)
  BY <1>2, Zenon DEF GiftsInv
<1>4. CASE ClearInfoIfExpired(self)
  BY <1>3, <1>4, GiftsClear, Zenon DEF GiftsInv
<1>5. CASE \E recipient \in Users : AskForGifts(self, recipient) \/ SendGifts(self, recipient)
  <2>1. Abort("gifts_")
    BY <1>5, Zenon DEF AskForGifts, SendGifts
  <2>2. obj' = [infos |-> <<>>, halt |-> "gifts_"] /\ ref' = [gifts |-> {}, taken |-> <<>>, flags |-> {}]
    BY <2>1, Zenon DEF Abort
  <2>3. obj'.infos = <<>> /\ obj'.halt = "gifts_"
    BY <2>2, Fields, Zenon
  <2>4. ref'.gifts = {}
    BY <2>2, Zenon
  <2> QED
    BY <2>3, <2>4, Zenon DEF GiftsInv
<1>6. ASSUME NEW id, ReplyGiftRequest(self, id) PROVE GiftsInv'
  BY <1>3, <1>6, GiftsReply, Zenon DEF GiftsInv
<1>7. ASSUME NEW id, ReceiveGift(self, id) PROVE GiftsInv'
  BY <1>3, <1>7, GiftsReceive, Zenon DEF GiftsInv
<1> QED
  BY <1>1, <1>4, <1>5, <1>6, <1>7, Zenon

\* The invariant holds in every reachable state.
LEMMA GiftsInvAlways == GiftsSpec => []GiftsInv
<1>1. GiftsInv /\ [GiftsNext]_vars => GiftsInv'
  <2> SUFFICES ASSUME GiftsInv, [GiftsNext]_vars PROVE GiftsInv'
    BY Zenon
  <2>1. CASE UNCHANGED vars
    <3>1. obj' = obj /\ ref' = ref
      BY <2>1 DEF vars
    <3>2. CASE obj.halt = "no"
      <4>1. GiftsOk(obj, ref)
        BY <3>2, Zenon DEF GiftsInv
      <4>2. GiftsOk(obj', ref')
        BY <3>1, <4>1
      <4> QED
        BY <3>1, <3>2, <4>2, Zenon DEF GiftsInv
    <3>3. CASE obj.halt # "no"
      BY <3>1, <3>3, Zenon DEF GiftsInv
    <3> QED
      BY <3>2, <3>3, Zenon
  <2> QED
    BY <2>1, NextGiftsInv, Zenon
<1> QED
  BY <1>1, InitGiftsInv, PTL DEF GiftsSpec

\* However many users there are, each starting with up to two notifications: a gift is with one
\* user or was received once, but for the cases stated, no limit is passed by more than one,
\* and no two gifts of a user have an id in common.
THEOREM GiftsAccountedAlways == GiftsSpec => []GiftsAccounted
BY GiftsAgree, GiftsInvAlways, PTL
=============================================================================

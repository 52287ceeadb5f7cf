---------------------------- MODULE RegionVector ----------------------------
(***************************************************************************)
(* RegionBasedContainer/RegionBasedVector: a fixed-capacity vector in      *)
(* caller-supplied memory, with an optional function run on every element  *)
(* that erase() or clear() removes.                                        *)
(***************************************************************************)
EXTENDS Integers, Sequences

CONSTANTS
  Values,
  Sizes,        \* region sizes Create is tried with
  HeaderSize,   \* kHeaderSize, the header being in the region
  ElemSize      \* sizeof(T), also its alignment

VARIABLES
  obj,          \* header_, capacity_, destroy_func_ set or not, the memory, and
                \* the elements destroy_func_ was given by the last call
  ref           \* the sequence, and the elements the last call removed

vars == <<obj, ref>>

DataStart == ((HeaderSize + ElemSize - 1) \div ElemSize) * ElemSize
Capacity(size) == (size - DataStart) \div ElemSize

Create(size) ==
  [cap |-> Capacity(size), current |-> 0, hook |-> FALSE, hooked |-> <<>>,
   cell |-> [i \in 1 .. Capacity(size) |-> CHOOSE x \in Values : TRUE]]

\* push_back; full: bad_alloc
PushBack(x) ==
  /\ obj.current # obj.cap
  /\ obj' = [obj EXCEPT !.current = @ + 1, !.cell[obj.current + 1] = x, !.hooked = <<>>]
  /\ ref' = [seq |-> Append(ref.seq, x), gone |-> <<>>]

\* erase(begin() + i - 1); anything else is out_of_range.
Erase(i) ==
  /\ i \in 1 .. obj.current
  /\ obj' = [obj EXCEPT
       !.hooked = IF obj.hook THEN <<obj.cell[i]>> ELSE <<>>,
       !.cell = [j \in DOMAIN @ |-> IF j \in i .. obj.current - 1 THEN @[j + 1] ELSE @[j]],
       !.current = @ - 1]
  /\ ref' = [seq |-> SubSeq(ref.seq, 1, i - 1) \o SubSeq(ref.seq, i + 1, Len(ref.seq)), gone |-> <<ref.seq[i]>>]

Clear ==
  /\ obj' = [obj EXCEPT !.hooked = IF obj.hook THEN SubSeq(obj.cell, 1, obj.current) ELSE <<>>,
                        !.current = 0]
  /\ ref' = [seq |-> <<>>, gone |-> ref.seq]

OnDestroy(set) ==
  /\ obj' = [obj EXCEPT !.hook = set, !.hooked = <<>>]
  /\ ref' = [ref EXCEPT !.gone = <<>>]

Init ==
  /\ \E size \in Sizes : size >= DataStart /\ obj = Create(size)
  /\ ref = [seq |-> <<>>, gone |-> <<>>]

Next ==
  \/ \E x \in Values : PushBack(x)
  \/ \E i \in DOMAIN ref.seq : Erase(i)
  \/ Clear
  \/ \E set \in BOOLEAN : OnDestroy(set)

Spec == Init /\ [][Next]_vars

\* Restore over the same region.
Restores == obj.current <= obj.cap

\* The elements are those the calls left, destroy_func_ saw exactly the removed ones in
\* order, and the region restores.
Agrees ==
  /\ obj.current = Len(ref.seq)
  /\ SubSeq(obj.cell, 1, obj.current) = ref.seq
  /\ obj.hooked = IF obj.hook THEN ref.gone ELSE <<>>
  /\ Restores
=============================================================================

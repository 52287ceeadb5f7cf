-------------------------------- MODULE List --------------------------------
(***************************************************************************)
(* The doubly linked list of udpserver/src/base/list.h. Its nodes are the  *)
(* slices of a MemoryList, which hands out the slice freed last; a free    *)
(* slice holds nothing the list reads again. An element is named by its    *)
(* slice, and Nil is kInvalidNodeId.                                       *)
(***************************************************************************)
EXTENDS Integers, Sequences

CONSTANT Capacity

VARIABLES
  obj,     \* header_ and ml_
  ref      \* the slices in list order

vars == <<obj, ref>>

Nil == -1
Ids == 0 .. Capacity - 1
Unused == [prev |-> Nil, next |-> Nil]

\* CreateFrom: Header::Init over a fresh MemoryList.
CreateFrom ==
  [head |-> Nil, tail |-> Nil, size |-> 0, node |-> [i \in Ids |-> Unused],
   free |-> [i \in 1 .. Capacity |-> i - 1], ok |-> TRUE]

Full(o) == o.free = <<>>

\* Mutant: tail is not moved when the last node goes.
UnlinkKeepsTail(o, id) ==
  LET p == o.node[id].prev  n == o.node[id].next
      a == IF p # Nil THEN [o EXCEPT !.node[p].next = n] ELSE [o EXCEPT !.head = n]
      b == IF n # Nil THEN [a EXCEPT !.node[n].prev = p] ELSE a
  IN [b EXCEPT !.size = @ - 1, !.node[id] = Unused, !.free = <<id>> \o @]

Unlink(o, id) ==
  LET p == o.node[id].prev  n == o.node[id].next
      a == IF p # Nil THEN [o EXCEPT !.node[p].next = n] ELSE [o EXCEPT !.head = n]
      b == IF n # Nil THEN [a EXCEPT !.node[n].prev = p] ELSE [a EXCEPT !.tail = p]
  IN [b EXCEPT !.size = @ - 1, !.node[id] = Unused, !.free = <<id>> \o @]

PushFrontImpl(o, id) ==
  LET a == [o EXCEPT !.free = Tail(@), !.size = @ + 1, !.head = id]
  IN IF o.head = Nil
     THEN [a EXCEPT !.tail = id, !.node[id] = Unused, !.ok = @ /\ o.tail = Nil]
     ELSE [a EXCEPT !.node[o.head].prev = id, !.node[id] = [prev |-> Nil, next |-> o.head]]

PushBackImpl(o, id) ==
  LET a == [o EXCEPT !.free = Tail(@), !.size = @ + 1, !.tail = id]
  IN IF o.tail = Nil
     THEN [a EXCEPT !.head = id, !.node[id] = Unused, !.ok = @ /\ o.head = Nil]
     ELSE [a EXCEPT !.node[o.tail].next = id, !.node[id] = [prev |-> o.tail, next |-> Nil]]

PushFront == ~Full(obj) /\ obj' = PushFrontImpl(obj, Head(obj.free)) /\ ref' = <<Head(obj.free)>> \o ref
PushBack == ~Full(obj) /\ obj' = PushBackImpl(obj, Head(obj.free)) /\ ref' = Append(ref, Head(obj.free))
PopFront == ref # <<>> /\ obj' = Unlink(obj, obj.head) /\ ref' = Tail(ref)
PopBack == ref # <<>> /\ obj' = Unlink(obj, obj.tail) /\ ref' = SubSeq(ref, 1, Len(ref) - 1)

\* The elements before the i-th and from the j-th on.
Without(s, i, j) == SubSeq(s, 1, i - 1) \o SubSeq(s, j, Len(s))

Erase(i) == obj' = Unlink(obj, ref[i]) /\ ref' = Without(ref, i, i + 1)

\* A turn of the loop in erase(first, last): erase(pos), then ++pos on the slice just freed,
\* which still holds its link.
Turn(s, last) == IF s.pos = last THEN s ELSE [o |-> Unlink(s.o, s.pos), pos |-> s.o.node[s.pos].next]

\* A range up to end() is refused: ++res asserts that last is an element. ok also says that
\* the loop has come to last when it has seen every element.
EraseRange(i, j) ==
  /\ LET Upto[k \in 0 .. Len(ref)] == IF k = 0 THEN [o |-> obj, pos |-> ref[i]] ELSE Turn(Upto[k - 1], ref[j])
         end == Upto[Len(ref)]
     IN obj' = [end.o EXCEPT !.ok = @ /\ end.pos = ref[j]]
  /\ ref' = Without(ref, i, j)

Clear == obj' = CreateFrom /\ ref' = <<>>

Init == obj = CreateFrom /\ ref = <<>>

Next ==
  \/ PushFront \/ PushBack \/ PopFront \/ PopBack \/ Clear
  \/ \E i \in DOMAIN ref : Erase(i) \/ \E j \in i .. Len(ref) : EraseRange(i, j)

Spec == Init /\ [][Next]_vars

\* The i-th element, or the end on either side.
At(s, i) == IF i \in 1 .. Len(s) THEN s[i] ELSE Nil

\* ++ from begin() visits s in order and comes to end(); the links back are its mirror image.
Linked(o, s) ==
  /\ o.head = At(s, 1) /\ o.tail = At(s, Len(s))
  /\ \A i \in 1 .. Len(s) : o.node[s[i]] = [prev |-> At(s, i - 1), next |-> At(s, i + 1)]

\* The links from head and from tail give the same elements in opposite orders, those the
\* calls left; every slice is in the list or free, and push_front and push_back find the
\* head and the tail both set or both not.
Agrees ==
  /\ obj.ok /\ Linked(obj, ref)
  /\ obj.size = Len(ref) /\ Len(ref) + Len(obj.free) = Capacity
  /\ \A id \in Ids : (\E i \in DOMAIN ref : ref[i] = id) \/ (\E i \in DOMAIN obj.free : obj.free[i] = id)
=============================================================================

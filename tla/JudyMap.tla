------------------------------- MODULE JudyMap -------------------------------
(***************************************************************************)
(* fx/include/map.hpp: an ordered map over a JudyL array of pointers to    *)
(* heap objects. The array (external) is a function from keys to objects,  *)
(* and an object is named by the order it was allocated in.                *)
(***************************************************************************)
EXTENDS Integers, Sequences, FiniteSetsExt, SequencesExt

CONSTANTS Keys, Values, MaxObjects

VARIABLES
  obj,   \* arr: arr_; size: size_; heap: the objects made; freed: those destroyed
  ref    \* map: the contents; cleared: how many elements clear() ever dropped;
         \* erased: the objects whose keys erase() dropped

vars == <<obj, ref>>

\* JLF and JLN: the first key, and the first one after k; Nil at the end.
Nil == -1
FirstFrom(arr, k) == LET up == {j \in DOMAIN arr : j >= k} IN IF up = {} THEN Nil ELSE Min(up)
JLN(arr, k) == FirstFrom(arr, k + 1)
\* JLD
Without(arr, k) == [j \in DOMAIN arr \ {k} |-> arr[j]]

\* insert: an element that is there already is left alone.
Insert(k, v) ==
  /\ Len(obj.heap) < MaxObjects
  /\ k \notin DOMAIN obj.arr
  /\ obj' = [obj EXCEPT !.heap = Append(@, v), !.size = @ + 1,
                        !.arr = [j \in DOMAIN @ \cup {k} |-> IF j = k THEN Len(obj.heap) + 1 ELSE @[j]]]
  /\ ref' = [ref EXCEPT !.map = [j \in DOMAIN @ \cup {k} |-> IF j = k THEN v ELSE @[j]]]

\* erase: the key goes, its object stays on the heap.
Erase(k) ==
  /\ k \in DOMAIN obj.arr
  /\ obj' = [obj EXCEPT !.arr = Without(@, k), !.size = @ - 1]
  /\ ref' = [ref EXCEPT !.map = Without(@, k), !.erased = @ \cup {obj.arr[k]}]

\* clear: the objects are destroyed in key order; size_ is not reset.
RECURSIVE ClearFrom(_, _)
ClearFrom(o, k) ==
  IF k = Nil THEN o
  ELSE LET a == [o EXCEPT !.freed = Append(@, o.arr[k]), !.arr = Without(@, k)]
       IN ClearFrom(a, JLN(a.arr, k))

Clear ==
  /\ obj' = ClearFrom(obj, FirstFrom(obj.arr, 0))
  /\ ref' = [ref EXCEPT !.map = [k \in {} |-> 0], !.cleared = @ + Cardinality(DOMAIN ref.map)]

\* begin(), ++, ... until end(), with the values the iterators carry.
RECURSIVE IterateFrom(_, _)
IterateFrom(o, k) ==
  IF k = Nil THEN <<>> ELSE <<o.heap[o.arr[k]]>> \o IterateFrom(o, JLN(o.arr, k))

Init ==
  /\ obj = [arr |-> [k \in {} |-> 0], size |-> 0, heap |-> <<>>, freed |-> <<>>]
  /\ ref = [map |-> [k \in {} |-> 0], cleared |-> 0, erased |-> {}]

Next == Clear \/ \E k \in Keys : Erase(k) \/ \E v \in Values : Insert(k, v)

Spec == Init /\ [][Next]_vars

\* find and iteration agree with the map, every object is destroyed at most once and those
\* not destroyed are in the map or were dropped by erase; size() is the number of elements
\* plus all that clear() ever dropped.
Agrees ==
  /\ DOMAIN obj.arr = DOMAIN ref.map /\ \A k \in DOMAIN ref.map : obj.heap[obj.arr[k]] = ref.map[k]
  /\ IterateFrom(obj, FirstFrom(obj.arr, 0))
       = [i \in 1 .. Cardinality(DOMAIN ref.map) |-> ref.map[SetToSortSeq(DOMAIN ref.map, <)[i]]]
  /\ obj.size = Cardinality(DOMAIN ref.map) + ref.cleared
  /\ IsInjective(obj.freed)
  /\ DOMAIN obj.heap = ToSet(obj.freed) \cup ref.erased \cup {obj.arr[k] : k \in DOMAIN obj.arr}
=============================================================================

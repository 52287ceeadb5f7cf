--------------------------- MODULE RegionHashTable ---------------------------
(***************************************************************************)
(* RegionBasedContainer: a hash table laid out in one caller-supplied      *)
(* memory region, as a header, a vector of bucket heads (RegionBasedVector)*)
(* and nodes handed out by RegionBasedAllocator. Node ids start at 1 and 0 *)
(* is kInvalidNodeID. Node n+1 of an allocator of n nodes stands for the   *)
(* memory behind the region.                                               *)
(*                                                                         *)
(* Get(i) is start_ + i - 1 but NodeIDToNodeIDPtr(i) is start_ + i, so the *)
(* free list keeps node i's link in the next word of node i + 1. "halt"    *)
(* says that such a link was put into a node in use or behind the region,  *)
(* or that node 0 was handed out; the model stops there.                   *)
(***************************************************************************)
EXTENDS Integers, Sequences, FiniteSetsExt, SequencesExt

CONSTANTS
  Keys,                           \* naturals; the hash is the identity
  Sizes,                          \* region sizes Create is tried with
  HeaderSize, IdSize, NodeSize,   \* sizeof(Header), sizeof(NodeID), sizeof(_HashTableNode)
  Alignment,                      \* kAlignmentRequired
  Primes                          \* kPrimeList

VARIABLES
  obj,   \* the region: buckets, nodes n, and the allocator's count, free and free_list
  ref    \* the set of keys

vars == <<obj, ref>>

Align(p) == ((p + Alignment - 1) \div Alignment) * Alignment

\* The estimate of the bucket number, rounded up to a prime when there is one.
BucketNum(size) ==
  LET e == Max({Primes[1], (2 * size) \div (IdSize + 2 * NodeSize)})
      up == {p \in ToSet(Primes) : e <= p}
  IN IF up = {} THEN e ELSE Min(up)

BucketEnd(size) == Align(HeaderSize) + BucketNum(size) * IdSize

\* Where Create returns nullptr.
TooSmall(size) == size < BucketEnd(size) \/ size < Align(BucketEnd(size))

MaxNodeId(size) == (size - Align(BucketEnd(size))) \div NodeSize

FirstFree(max) == Min({max, 1})

Create(size) ==
  LET max == MaxNodeId(size)
  IN [size |-> size, max |-> max, buckets |-> [b \in 0 .. BucketNum(size) - 1 |-> 0],
      n |-> [i \in 1 .. max + 1 |-> [next |-> 0, val |-> 0]],
      count |-> 0, free |-> FirstFree(max), free_list |-> 0, live |-> {}, halt |-> "no"]

Bucket(o, k) == k % Cardinality(DOMAIN o.buckets)

\* The chain from node i on; m caps it should the links form a loop.
RECURSIVE Chain(_, _, _)
Chain(o, i, m) ==
  IF i \notin 1 .. o.max \/ m = 0 THEN <<>> ELSE <<i>> \o Chain(o, o.n[i].next, m - 1)

BucketChain(o, b) == Chain(o, o.buckets[b], o.max + 1)

Find(o, k) ==
  LET c == BucketChain(o, Bucket(o, k))
      at == {j \in DOMAIN c : o.n[c[j]].val = k}
  IN IF at = {} THEN 0 ELSE c[Min(at)]

\* begin(), operator++, ... end(): the buckets in order, each chain in order.
Iterate(o) ==
  FoldLeft(LAMBDA s, b : s \o BucketChain(o, b - 1), <<>>, [b \in 1 .. Cardinality(DOMAIN o.buckets) |-> b])

\* AllocatorType::Allocate when it does not throw bad_alloc, with the id it returns.
CanAllocate(o) == o.free_list # 0 \/ o.free <= o.max

NewId(o) == IF o.free_list # 0 THEN o.free_list ELSE o.free

Allocate(o) ==
  [(IF o.free_list # 0 THEN [o EXCEPT !.free_list = o.n[o.free_list + 1].next]
                       ELSE [o EXCEPT !.free = @ + 1])
     EXCEPT !.count = @ + 1, !.live = @ \cup {NewId(o)}]

\* *NodeIDToNodeIDPtr(i) = x
SetFreeLink(o, i, x) == [o EXCEPT !.n[i + 1].next = x]

Deallocate(o, i) ==
  [SetFreeLink(o, i, o.free_list) EXCEPT
     !.free_list = i, !.count = @ - 1, !.live = @ \ {i},
     !.halt = IF i + 1 \in o.live \cup {o.max + 1} THEN "link in use" ELSE @]

Insert(k) ==
  /\ obj.halt = "no"
  /\ Find(obj, k) = 0
  /\ CanAllocate(obj)
  /\ LET id == NewId(obj)  a == Allocate(obj)  b == Bucket(obj, k)
     IN obj' = IF id = 0 THEN [a EXCEPT !.halt = "node 0"]
               ELSE [a EXCEPT !.n[id] = [next |-> obj.buckets[b], val |-> k], !.buckets[b] = id]
  /\ ref' = ref \cup {k}

\* *prev = node->next, then Deallocate.
Erase(k) ==
  /\ obj.halt = "no"
  /\ Find(obj, k) # 0
  /\ LET id == Find(obj, k)  b == Bucket(obj, k)
         c == BucketChain(obj, b)
         j == CHOOSE x \in DOMAIN c : c[x] = id
         a == IF j = 1 THEN [obj EXCEPT !.buckets[b] = obj.n[id].next]
                       ELSE [obj EXCEPT !.n[c[j - 1]].next = obj.n[id].next]
     IN obj' = Deallocate(a, id)
  /\ ref' = ref \ {k}

Clear ==
  /\ obj.halt = "no"
  /\ obj' = [obj EXCEPT !.buckets = [b \in DOMAIN @ |-> 0], !.count = 0,
                        !.free = FirstFree(obj.max), !.free_list = 0, !.live = {}]
  /\ ref' = {}

Init ==
  /\ \E size \in Sizes : ~TooSmall(size) /\ obj = Create(size)
  /\ ref = {}

Next == (\E k \in Keys : Insert(k) \/ Erase(k)) \/ Clear

Spec == Init /\ [][Next]_vars

\* Restore over a copy of the region.
Restores(o) ==
  /\ Cardinality(DOMAIN o.buckets) \in ToSet(Primes)
  /\ o.count <= o.max /\ o.free_list <= o.max /\ o.free <= o.max + 1

\* Until the allocator puts a link into memory in use, find and iteration agree with the
\* set, the nodes lie in the region, the region restores, and bad_alloc means all nodes
\* are in use.
Agrees == obj.halt = "no" =>
  /\ obj.count = Cardinality(ref)
  /\ \A k \in Keys : Find(obj, k) # 0 <=> k \in ref
  /\ LET it == Iterate(obj)
     IN Len(it) = Cardinality(ref) /\ {obj.n[i].val : i \in ToSet(it)} = ref
  /\ BucketEnd(obj.size) + obj.max * NodeSize <= obj.size
  /\ Restores(obj)
  /\ ~CanAllocate(obj) => obj.count = obj.max
=============================================================================

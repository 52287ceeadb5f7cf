------------------------------ MODULE HashTable ------------------------------
(***************************************************************************)
(* The chained hash set of HashTable/main.cc. A node is named by the order *)
(* it was made in, so that a node of an erased key, which erase() unlinks  *)
(* but never deletes, stays apart from the one made when the key returns.  *)
(***************************************************************************)
EXTENDS Integers, Sequences, FiniteSetsExt, SequencesExt

CONSTANTS
  Keys,      \* naturals; the hash is the identity
  Buckets,   \* buckets_.size()
  MaxNodes   \* bound on the nodes ever made

VARIABLES
  obj,       \* key, next: the nodes made so far; bucket: buckets_, 0 for nullptr
  ref        \* the set of keys

vars == <<obj, ref>>

BucketIndex(k) == k % Buckets

RECURSIVE Walk(_, _, _)
Walk(o, node, key) ==
  IF node = 0 \/ o.key[node] = key THEN node ELSE Walk(o, o.next[node], key)

Search(o, index, key) == Walk(o, o.bucket[index], key)

InsertUnique(key) ==
  /\ Len(obj.key) < MaxNodes
  /\ LET index == BucketIndex(key)
     IN obj' = IF Search(obj, index, key) # 0 THEN obj
               ELSE [key |-> Append(obj.key, key), next |-> Append(obj.next, obj.bucket[index]),
                     bucket |-> [obj.bucket EXCEPT ![index] = Len(obj.key) + 1]]
  /\ ref' = ref \cup {key}

RECURSIVE Before(_, _, _)
Before(o, cur, node) == IF o.next[cur] = node THEN cur ELSE Before(o, o.next[cur], node)

\* Mutant: the head of a chain takes the whole chain with it.
EraseChain(key) ==
  /\ LET index == BucketIndex(key)
         node == Search(obj, index, key)
     IN obj' = CASE node = 0 -> obj
                 [] node # 0 /\ obj.bucket[index] = node -> [obj EXCEPT !.bucket[index] = 0]
                 [] OTHER -> [obj EXCEPT !.next[Before(obj, obj.bucket[index], node)] = obj.next[node]]
  /\ ref' = ref \ {key}

Erase(key) ==
  /\ LET index == BucketIndex(key)
         node == Search(obj, index, key)
     IN obj' = CASE node = 0 -> obj
                 [] node # 0 /\ obj.bucket[index] = node -> [obj EXCEPT !.bucket[index] = obj.next[node]]
                 [] OTHER -> [obj EXCEPT !.next[Before(obj, obj.bucket[index], node)] = obj.next[node]]
  /\ ref' = ref \ {key}

Init ==
  /\ obj = [key |-> <<>>, next |-> <<>>, bucket |-> [i \in 0 .. Buckets - 1 |-> 0]]
  /\ ref = {}

Next == \E key \in Keys : InsertUnique(key) \/ Erase(key)

Spec == Init /\ [][Next]_vars

RECURSIVE Chain(_, _)
Chain(o, node) == IF node = 0 THEN {} ELSE {node} \cup Chain(o, o.next[node])

\* find() finds the keys that are in the set and no others, each in one node only.
Agrees ==
  /\ \A k \in Keys : Search(obj, BucketIndex(k), k) # 0 <=> k \in ref
  /\ LET linked == UNION {Chain(obj, obj.bucket[i]) : i \in 0 .. Buckets - 1}
     IN Cardinality(linked) = Cardinality(ref)
=============================================================================

----------------------------- MODULE Containers -----------------------------
(***************************************************************************)
(* The containers that keep a sequence in memory their caller supplies,    *)
(* which are the list and the vector of udpserver and RegionBasedVector,   *)
(* and the trie.                                                           *)
(***************************************************************************)
EXTENDS Integers, SideBySide

CONSTANTS
  ListCapacity,                              \* List
  Items, ValueSize, MetaSize, Lengths,       \* Vector
  RegionSizes, HeaderSize, ElemSize,         \* RegionVector, of the same values
  CharNum, ClearedNum, MaxKeyLen, Junk       \* Trie, of the same values

ASSUME ListAssumption == ListCapacity \in Nat
ASSUME VectorAssumption ==
  /\ Items # {} /\ ValueSize \in Nat \ {0} /\ MetaSize \in Nat
  /\ \A v \in DOMAIN Lengths : Lengths[v] \in Nat /\ Lengths[v] >= MetaSize
ASSUME RegionVectorAssumption ==
  ElemSize \in Nat \ {0} /\ HeaderSize \in Nat /\ RegionSizes \subseteq Nat
ASSUME TrieAssumption == MaxKeyLen \in Nat

L == INSTANCE List WITH Capacity <- ListCapacity
V == INSTANCE Vector WITH Values <- Items
RV == INSTANCE RegionVector WITH Sizes <- RegionSizes, Values <- Items
TR == INSTANCE Trie WITH Cleared <- ClearedNum, Values <- Items

ContainersInit ==
  \/ kind = "List" /\ L!Init
  \/ kind = "Vector" /\ V!Init
  \/ kind = "RegionVector" /\ RV!Init
  \/ kind = "Trie" /\ TR!Init

ContainersNext ==
  /\ \/ kind = "List" /\ L!Next
     \/ kind = "Vector" /\ V!Next
     \/ kind = "RegionVector" /\ RV!Next
     \/ kind = "Trie" /\ TR!Next
  /\ UNCHANGED kind

ContainersSpec == ContainersInit /\ [][ContainersNext]_vars

\* list.h, vector.h, RegionBasedVector: the sequence the calls left, within the memory. trie:
\* Get finds what was put last, up to the first pointer that was not cleared.
ContainersAgree ==
  /\ kind = "List" => L!Agrees
  /\ kind = "Vector" => V!Agrees
  /\ kind = "RegionVector" => RV!Agrees
  /\ kind = "Trie" => TR!Agrees
=============================================================================

------------------------------- MODULE Vector -------------------------------
(***************************************************************************)
(* The vector of udpserver/src/base/vector.h: elements packed behind a     *)
(* MetaData header in caller-supplied memory of kMaxLength bytes. Two of   *)
(* them, of different lengths, so that CopyFrom has both outcomes.         *)
(***************************************************************************)
EXTENDS Integers, Sequences

CONSTANTS
  Values,      \* what the elements may be
  ValueSize,   \* sizeof(ValueType)
  MetaSize,    \* sizeof(MetaData)
  Lengths      \* the sequence of the two vectors' kMaxLength

VARIABLES
  obj,         \* per vector: md_->size and the elements of the memory behind it
  ref          \* per vector: the sequence it should hold

vars == <<obj, ref>>

Vs == DOMAIN Lengths
\* The elements the memory really has room for, whatever the checks allow.
Room(v) == (Lengths[v] - MetaSize) \div ValueSize
Used(v) == obj[v].size * ValueSize
HasSpace(v) == Used(v) + ValueSize + MetaSize <= Lengths[v]

\* *(start_ + i) = x; a write behind the memory leaves the vector as it is and ok FALSE.
Put(o, v, i, x) ==
  IF i < Room(v) THEN [o EXCEPT !.cell[i] = x] ELSE [o EXCEPT !.ok = FALSE]

CreateFrom(v) ==
  [size |-> 0, cell |-> [i \in 0 .. Room(v) - 1 |-> CHOOSE x \in Values : TRUE], ok |-> TRUE]

PushBack(v, x) ==
  /\ HasSpace(v)
  /\ obj' = [obj EXCEPT ![v] = [Put(obj[v], v, obj[v].size, x) EXCEPT !.size = @ + 1]]
  /\ ref' = [ref EXCEPT ![v] = Append(@, x)]

\* erase(idx) is erase(idx, idx + 1). memmove: the cells from e on move down to s.
Erase(v, s, e) ==
  /\ s < e /\ e <= obj[v].size
  /\ LET n == obj[v].size - e
     IN obj' = [obj EXCEPT ![v].size = @ - (e - s),
                           ![v].cell = [i \in DOMAIN @ |-> IF i \in s .. s + n - 1
                                                          THEN @[i + (e - s)] ELSE @[i]]]
  /\ ref' = [ref EXCEPT ![v] = SubSeq(@, 1, s) \o SubSeq(@, e + 1, Len(@))]

PopBack(v) ==
  /\ obj[v].size # 0
  /\ obj' = [obj EXCEPT ![v].size = @ - 1]
  /\ ref' = [ref EXCEPT ![v] = SubSeq(@, 1, Len(@) - 1)]

\* *(start_ + i) through operator[]
Assign(v, i, x) ==
  /\ obj' = [obj EXCEPT ![v] = Put(@, v, i, x)]
  /\ ref' = [ref EXCEPT ![v][i + 1] = x]

CopyFrom(v, w) ==
  /\ Lengths[v] >= Used(w) + MetaSize
  /\ LET n == obj[w].size
     IN obj' = [obj EXCEPT ![v].size = n, ![v].ok = @ /\ n <= Room(v),
                           ![v].cell = [i \in DOMAIN @ |-> IF i < n THEN obj[w].cell[i] ELSE @[i]]]
  /\ ref' = [ref EXCEPT ![v] = ref[w]]

Init ==
  /\ obj = [v \in Vs |-> CreateFrom(v)]
  /\ ref = [v \in Vs |-> <<>>]

Next == \E v \in Vs :
  \/ \E x \in Values : PushBack(v, x) \/ \E i \in 0 .. obj[v].size - 1 : Assign(v, i, x)
  \/ \E s, e \in 0 .. obj[v].size : Erase(v, s, e)
  \/ PopBack(v)
  \/ \E w \in Vs : CopyFrom(v, w)

Spec == Init /\ [][Next]_vars

\* RecoverFrom over the same memory, as the process that maps it next calls it.
Recovers(v) == ValueSize * obj[v].size + MetaSize <= Lengths[v]

\* No push_back or CopyFrom writes behind the memory; the elements are those the calls left,
\* and the process that maps the memory next gets them from RecoverFrom.
Agrees == \A v \in Vs :
  /\ obj[v].ok
  /\ obj[v].size = Len(ref[v])
  /\ \A i \in 1 .. Len(ref[v]) : obj[v].cell[i - 1] = ref[v][i]
  /\ Recovers(v)
=============================================================================

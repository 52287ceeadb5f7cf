-------------------------------- MODULE LConf --------------------------------
(***************************************************************************)
(* LConf: a configuration file is a Lua table "conf", read once into a     *)
(* tree of nodes that are looked up by dotted names. A Lua table is the    *)
(* sequence of its entries in the order lua_next gives them, which is any; *)
(* a key is its text as lua_tostring gives it with its number (NotNumber   *)
(* for a string); a name is the sequence of its parts.                     *)
(***************************************************************************)
EXTENDS Integers, Sequences, FiniteSetsExt, SequencesExt

CONSTANTS
  Tables,      \* the configurations
  Names,       \* the dotted names looked up
  NotNumber

VARIABLES
  obj,   \* root_, the last name asked for, and what the three lookups gave: "assert" where
         \* one failed
  ref    \* the Lua table

vars == <<obj, ref>>

-----------------------------------------------------------------------------
RawGet(t, n) == {t[i].value : i \in {j \in DOMAIN t : t[j].key.n = n}}

\* The array part ends before the first number that is missing.
ArrayLen(t) == CHOOSE n \in 0 .. Len(t) : RawGet(t, n + 1) = {} /\ \A k \in 1 .. n : RawGet(t, k) # {}

ScalarNode(name, value) == [name |-> name, scalar |-> TRUE, value |-> value]

\* Mutant: the last element of the array is read again.
InHashPartFrom(key, len) == key.n = NotNumber \/ key.n >= len

\* The hash part leaves out the numbers up to the length, whether they are in the array or not.
InHashPart(key, len) == key.n = NotNumber \/ key.n > len
RECURSIVE ReadTable(_, _)
ReadNode(name, value) ==
  IF value.table THEN ReadTable(value.entries, name) ELSE ScalarNode(name, value.text)
ReadTable(t, name) ==
  LET len == ArrayLen(t)
      array == [i \in 1 .. len |-> ReadNode("", CHOOSE v \in RawGet(t, i) : TRUE)]
      hash == SelectSeq(t, LAMBDA e : InHashPart(e.key, len))
  IN [name |-> name, scalar |-> FALSE, len |-> len,
      children |-> array \o [i \in DOMAIN hash |-> ReadNode(hash[i].key.text, hash[i].value)]]

ReadConf(t) == ReadTable(t, "conf")

\* TableNode::Children; the empty sequence is NULL.
Children(node, name) ==
  LET at == SelectInSeq(node.children, LAMBDA c : c.name = name)
  IN IF at = 0 THEN <<>> ELSE <<node.children[at]>>

\* INode::Lookup; a scalar node answers to its own name.
RECURSIVE Lookup(_, _)
Lookup(node, path) ==
  IF node.scalar THEN IF path = <<node.name>> THEN <<node>> ELSE <<>>
  ELSE LET child == Children(node, Head(path))
       IN IF Len(path) = 1 \/ child = <<>> THEN child ELSE Lookup(child[1], Tail(path))

ArrayChildrenRange(node) == SubSeq(node.children, 1, node.len)

\* LConf::Lookup, LookupArray and LookupTable assert what they find.
LookupScalar(root, path) ==
  LET found == Lookup(root, path)
  IN IF found = <<>> \/ ~found[1].scalar THEN "assert" ELSE found[1].value
LookupArray(root, path) ==
  LET found == IF path = <<>> THEN <<root>> ELSE Lookup(root, path)
  IN IF found = <<>> \/ found[1].scalar THEN <<"assert">> ELSE ArrayChildrenRange(found[1])
LookupTable(root, path) ==
  LET found == IF path = <<>> THEN <<root>> ELSE Lookup(root, path)
  IN IF found = <<>> \/ found[1].scalar THEN <<"assert">> ELSE found[1].children

-----------------------------------------------------------------------------
\* LConf::init reads the file.
Init == \E t \in Tables : ref = t /\ obj = [root |-> ReadConf(t), asked |-> <<>>, scalar |-> "", array |-> <<>>, table |-> <<>>]

\* The lookups of a name.
Ask(path) ==
  /\ obj' = [obj EXCEPT !.asked = path, !.scalar = LookupScalar(obj.root, path),
                        !.array = LookupArray(obj.root, path), !.table = LookupTable(obj.root, path)]
  /\ UNCHANGED ref

Next == \E path \in Names : Ask(path)
Spec == Init /\ [][Next]_vars

-----------------------------------------------------------------------------
\* What Lua itself finds for a name: the values of the keys that are written like it.
RECURSIVE Values(_, _)
Values(t, path) ==
  LET here == {t[i].value : i \in {j \in DOMAIN t : t[j].key.text = Head(path)}}
  IN IF Len(path) = 1 THEN here
     ELSE UNION {Values(v.entries, Tail(path)) : v \in {w \in here : w.table}}
InArray(t, name) == \E i \in DOMAIN t : t[i].key.text = name /\ ~InHashPart(t[i].key, ArrayLen(t))

\* A name finds the value that the Lua table has for it, and the ranges of a table are its
\* elements from 1 and all its entries. The exceptions: a key that is a number up to the
\* length of the array part, 0 and negative ones included, is not found; a name that repeats
\* the key of a scalar is; the empty name finds the first element of an array; and of a
\* number and a string that are written alike the one that lua_next gives first is found.
Agrees ==
  LET path == obj.asked
      want == Values(ref, path)
      name == path[1]
  IN path # <<>> =>
       /\ obj.scalar # "assert" =>
            \/ \E v \in want : ~v.table /\ v.text = obj.scalar
            \/ Len(path) > 1 /\ path[Len(path)] = path[Len(path) - 1]
            \/ path[Len(path)] = ""
       /\ Len(path) = 1 /\ Cardinality(want) = 1 /\ ~InArray(ref, name) =>
            LET v == CHOOSE w \in want : TRUE
            IN IF v.table
               THEN /\ obj.scalar = "assert" /\ Len(obj.array) = ArrayLen(v.entries)
                    /\ Len(obj.table) = Cardinality({i \in DOMAIN v.entries : LET k == v.entries[i].key IN k.n = NotNumber \/ k.n >= 1})
               ELSE obj.scalar = v.text /\ obj.array = <<"assert">>
=============================================================================

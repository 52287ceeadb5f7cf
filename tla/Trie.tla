-------------------------------- MODULE Trie --------------------------------
(***************************************************************************)
(* The trie of tries/trie/main.cc. A node is named by the string that      *)
(* leads to it. The constructor of a node clears char_num bytes of an      *)
(* array of char_num pointers, so only the pointers in those bytes are     *)
(* NULL for sure; each other one is NULL or whatever the memory held       *)
(* ("wild"), and following a wild one is the end of the run ("halt"). The  *)
(* value of a node nothing was put at is whatever its memory held.         *)
(***************************************************************************)
EXTENDS Integers, Sequences

CONSTANTS
  CharNum,      \* the characters are the indices 0 .. CharNum - 1
  Cleared,      \* how many pointers memset( arr, 0x0, char_num ) clears
  MaxKeyLen,
  Values,
  Junk          \* an uninitialised value

VARIABLES
  obj,          \* val: the nodes and their values; wild: pointers never set; halt
  ref           \* the map

vars == <<obj, ref>>

Chars == 0 .. CharNum - 1
Keys == UNION {[1 .. n -> Chars] : n \in 1 .. MaxKeyLen}

\* The nodes on the way to a key.
Path(key) == {SubSeq(key, 1, n) : n \in 1 .. Len(key)}

\* The child pointers of a fresh node that may hold anything.
Uninit(node) == {Append(node, c) : c \in Cleared .. CharNum - 1}

\* Put: the nodes of the path that are missing are made, each with some wild pointers;
\* the first wild pointer on the path ends the run.
Put(key, v) ==
  /\ ~obj.halt
  /\ LET missing == Path(key) \ DOMAIN obj.val
     IN \E w \in SUBSET UNION {Uninit(p) : p \in missing} :
          LET wild == obj.wild \cup {p \in w : Len(p) <= MaxKeyLen}
          IN obj' = IF Path(key) \cap wild # {} THEN [obj EXCEPT !.halt = TRUE]
                    ELSE [val |-> [p \in DOMAIN obj.val \cup Path(key) |->
                                     IF p = key THEN v ELSE IF p \in missing THEN Junk ELSE obj.val[p]],
                          wild |-> wild, halt |-> FALSE]
  /\ ref' = [k \in DOMAIN ref \cup {key} |-> IF k = key THEN v ELSE ref[k]]

\* What Get returns: a value, nothing, or the end of the run at a wild pointer.
Get(o, key) ==
  LET stops == {n \in 1 .. Len(key) : SubSeq(key, 1, n) \notin DOMAIN o.val}
      first == CHOOSE n \in stops : \A m \in stops : n <= m
  IN IF stops = {} THEN <<"value", o.val[key]>>
     ELSE IF SubSeq(key, 1, first) \in o.wild THEN <<"halt">> ELSE <<"none">>

Init ==
  /\ \E w \in SUBSET Uninit(<<>>) : obj = [val |-> [p \in {} |-> Junk], wild |-> w, halt |-> FALSE]
  /\ ref = [k \in {} |-> Junk]

Next == \E key \in Keys, v \in Values : Put(key, v)

Spec == Init /\ [][Next]_vars

\* Get returns what was put last under a key. For a key nothing was put under it returns
\* nothing, or the uninitialised value of a node on the way to another key, or follows a
\* pointer the constructor did not clear.
Agrees == ~obj.halt => \A key \in Keys :
  LET r == Get(obj, key)
      prefix == \E k \in DOMAIN ref : key \in Path(k)
  IN /\ key \in DOMAIN ref => r = <<"value", ref[key]>>
     /\ r[1] = "value" => key \in DOMAIN ref \/ (prefix /\ r[2] = Junk)
     /\ obj.wild = {} /\ ~prefix => r = <<"none">>
=============================================================================

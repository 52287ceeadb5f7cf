---------------------------- MODULE MCLibraries -----------------------------
(***************************************************************************)
(* The libraries of the repository that share no state with each other,    *)
(* checked side by side: kind says which one a behaviour is about, obj and *)
(* ref are its state and what it should amount to.                         *)
(***************************************************************************)
EXTENDS Integers, Sequences, Containers, Blocks

LLRB == INSTANCE LLRBTree WITH Keys <- 1 .. 7, MaxSize <- 6
RB == INSTANCE RBTree WITH Keys <- 1 .. 7

\* Of the two vectors: the elements leave an odd rest behind the last one.
MCLengths == <<18, 14>>

\* Tables. The region sizes give from no node to four, in two to seven buckets.
H == INSTANCE HashTable WITH Keys <- 0 .. 3, Buckets <- 2, MaxNodes <- 5
J == INSTANCE JudyMap WITH Keys <- 0 .. 2, Values <- {1, 2}, MaxObjects <- 4
RH == INSTANCE RegionHashTable WITH
        Keys <- {0, 3, 5, 7, 10, 14}, Sizes <- {10, 12, 14, 18, 20, 22, 24, 26},
        HeaderSize <- 5, IdSize <- 1, NodeSize <- 3, Alignment <- 4, Primes <- <<2, 3, 5, 7, 11>>

-----------------------------------------------------------------------------
\* Messages with every label and kind of field. Varints of up to two bytes of three bits,
\* a sint32 of three bits, and a buffer of eight bytes that one long string outgrows.

Scalar(type, label) == [type |-> type, label |-> label, sub |-> <<>>]
Message(label) == [type |-> "message", label |-> label, sub |-> <<Scalar("int", "optional")>>]
Desc1 == <<Scalar("int", "required"), Scalar("sint32", "packed"), Message("repeated")>>
Desc2 == <<Scalar("string", "repeated"), Scalar("sint64", "optional"), Scalar("float", "optional")>>
Desc3 == <<Scalar("bool", "optional"), Scalar("fixed32", "packed"), Scalar("fixed64", "repeated"), Message("optional")>>

O(i, v) == [id |-> i, val |-> v]
In1 == {<<O(1, 5)>>, <<O(1, 5), O(1, 63)>>, <<O(1, 1), O(2, <<1, 62>>)>>, <<O(1, 1), O(2, <<1>>), O(2, <<2>>)>>,
        <<O(1, 0), O(3, <<O(1, 3)>>), O(3, <<O(5, <<1>>)>>), O(6, <<1, 2>>)>>}
In2 == {<<>>, <<O(1, <<1, 2>>), O(1, <<>>), O(2, 62)>>, <<O(3, 9)>>}
In3 == {<<>>, <<O(1, 1), O(2, <<3, 7>>)>>, <<O(3, 17), O(4, <<>>), O(7, <<3>>), O(3, 255), O(7, <<2>>)>>}

Long == [i \in 1 .. 17 |-> 1]
M1 == INSTANCE ProtoMessage WITH
        GroupBits <- 3, Width <- 6, Width32 <- 3, Size32 <- 1, Size64 <- 2, StackBufLength <- 8, MaxLen <- 2,
        Descriptor <- Desc1, Inputs <- In1, Ints <- {62}, Strs <- {<<>>}
M2 == INSTANCE ProtoMessage WITH
        GroupBits <- 3, Width <- 6, Width32 <- 3, Size32 <- 1, Size64 <- 2, StackBufLength <- 8, MaxLen <- 2,
        Descriptor <- Desc2, Inputs <- In2, Ints <- {1, 33}, Strs <- {<<>>, Long}
M3 == INSTANCE ProtoMessage WITH
        GroupBits <- 3, Width <- 6, Width32 <- 3, Size32 <- 1, Size64 <- 2, StackBufLength <- 8, MaxLen <- 2,
        Descriptor <- Desc3, Inputs <- In3, Ints <- {17}, Strs <- {<<2, 3>>}

-----------------------------------------------------------------------------
\* Format strings: one field of every specification, and two fields of any two paths.

Num(n) == [t |-> "int", v |-> n]
Str(s) == [t |-> "str", s |-> s]
Vec == [t |-> "seq", elems |-> {[key |-> <<"0">>, val |-> Num(42)], [key |-> <<"1">>, val |-> Str(<<"x", "y">>)]}]
Map == [t |-> "seq", elems |-> {[key |-> <<"k">>, val |-> Vec], [key |-> <<"0">>, val |-> Num(7)]}]
Args == <<Num(-1234), Str(<<"a", "b", "c">>), Map, [t |-> "bool", v |-> 1], [t |-> "double", s |-> <<"-", "2", ".", "5">>],
          [t |-> "null"], Str(<<"p", "}", "}", "q">>), Num(0), Num(1000000), Str(<<"p", "}", "q">>)>>

Plain == [fill |-> "", align |-> "", sign |-> "", hash |-> FALSE, zero |-> FALSE,
          width |-> -1, comma |-> FALSE, prec |-> -1, pres |-> ""]
NumSpecs == {f \in [fill : {"", "*"}, align : {"", "<", "=", "^"}, sign : {"", "+"}, hash : BOOLEAN, zero : BOOLEAN,
                    width : {-1, 11}, comma : BOOLEAN, prec : {-1}, pres : {"", "x"}] :
               (f.fill # "" => f.align # "") /\ (f.comma => f.pres = "")}
StrSpecs == {f \in [fill : {"", "*"}, align : {"", "<", ">", "^"}, sign : {""}, hash : {FALSE}, zero : {FALSE},
                    width : {-1, 6}, comma : {FALSE}, prec : {-1, 0, 2}, pres : {"", "s"}] : f.fill # "" => f.align # ""}

Field(p, f) == [path |-> p, spec |-> f]
Key(k) == <<<<k>>>>
Paths == {<<>>, Key("0"), Key("2"), Key("3"), Key("4"), Key("5"), Key("8"), <<<<"1", "2">>>>,
          <<<<"2">>, <<"0">>>>, <<<<"2">>, <<"k">>, <<"1">>>>, <<<<"k">>, <<"1">>>>}
OneField == {[mode |-> "Format", args |-> Args, pieces |-> <<Field(Key(i), f)>>] : i \in {"0", "3"}, f \in NumSpecs}
       \cup {[mode |-> "Format", args |-> Args, pieces |-> <<Field(Key(i), f)>>] : i \in {"1", "6", "9"}, f \in StrSpecs}
TwoFields == {[mode |-> m, args |-> IF m = "Format" THEN Args ELSE <<Map>>,
               pieces |-> <<[c |-> a], Field(p, Plain), [c |-> "}"], Field(q, [Plain EXCEPT !.comma = TRUE])>>] :
                m \in {"Format", "vFormat"}, a \in {"a", "{"}, p \in Paths, q \in Paths}

F == INSTANCE Format WITH Cases <- OneField \cup TwoFields, MaxPadding <- 11

-----------------------------------------------------------------------------
\* Configurations of up to three entries, with numbers in and out of the array part, a number
\* and a string that are written alike, and a table inside.

NumKey(text, n) == [text |-> text, n |-> n]
StrKey(text) == NumKey(text, -9)
Leaf(text) == [table |-> FALSE, text |-> text]
Entry(k, v) == [key |-> k, value |-> v]
Inner == [table |-> TRUE, entries |-> <<Entry(StrKey("a"), Leaf("y")), Entry(NumKey("0", 0), Leaf("z")),
                                        Entry(NumKey("1", 1), Leaf("w")), Entry(NumKey("3", 3), Leaf("u"))>>]
Entries == {Entry(k, v) : k \in {StrKey("a"), StrKey("3"), NumKey("0", 0), NumKey("1", 1), NumKey("2", 2), NumKey("3", 3)},
                          v \in {Leaf("x"), Inner}}
Confs == UNION {{t \in [1 .. n -> Entries] : \A i, j \in 1 .. n : i # j => t[i].key # t[j].key} : n \in 0 .. 3}
Dotted == {<<p>> : p \in {"", "a", "0", "1", "3"}} \cup {<<"a", p>> : p \in {"", "a", "3", "0"}} \cup {<<"3", "a">>, <<"3", "3">>}

C == INSTANCE LConf WITH Tables <- Confs, Names <- Dotted, NotNumber <- -9

\* The fields of Notification: a uint32 for its three, the enum, the repeated GoodsInfo. What is
\* parsed has an enum value that is not valid, a child and a field of the wrong wire type.

UInt32 == [type |-> "uint32", default |-> 0, valid |-> {}, sub |-> <<>>]
Notification == <<UInt32, [type |-> "enum", default |-> 1, valid |-> {1, 3}, sub |-> <<>>],
                  [type |-> "message", default |-> 0, valid |-> {}, sub |-> <<UInt32, UInt32>>]>>
Varint(i, v) == [id |-> i, len |-> -1, v |-> v, sub |-> <<>>]
Delimited(i, n, tokens) == [id |-> i, len |-> n, v |-> 0, sub |-> tokens]

G == INSTANCE GeneratedMessage WITH
       Fields <- Notification, Values <- {3, 200}, Children <- {<<Varint(1, 200), Varint(2, 3)>>},
       Inputs <- {<<Varint(2, 2), Varint(1, 200)>>, <<Delimited(3, 3, <<Varint(1, 200)>>), Varint(2, 3), Delimited(1, 0, <<>>)>>},
       OneByte <- 128, MaxLen <- 2, MaxOps <- 6

-----------------------------------------------------------------------------
Init ==
  \/ kind = "LLRBTree" /\ LLRB!Init
  \/ kind = "RBTree" /\ RB!Init
  \/ ContainersInit
  \/ BlocksInit
  \/ kind = "HashTable" /\ H!Init
  \/ kind = "JudyMap" /\ J!Init
  \/ kind = "RegionHashTable" /\ RH!Init
  \/ kind = "Message1" /\ M1!Init
  \/ kind = "Message2" /\ M2!Init
  \/ kind = "Message3" /\ M3!Init
  \/ kind = "Format" /\ F!Init
  \/ kind = "LConf" /\ C!Init
  \/ kind = "Generated" /\ G!Init

Next ==
  \/ ContainersNext
  \/ BlocksNext
  \/ /\ \/ kind = "LLRBTree" /\ LLRB!Next
        \/ kind = "RBTree" /\ RB!Next
        \/ kind = "HashTable" /\ H!Next
        \/ kind = "JudyMap" /\ J!Next
        \/ kind = "RegionHashTable" /\ RH!Next
        \/ kind = "Message1" /\ M1!Next
        \/ kind = "Message2" /\ M2!Next
        \/ kind = "Message3" /\ M3!Next
        \/ kind = "Format" /\ F!Next
        \/ kind = "LConf" /\ C!Next
        \/ kind = "Generated" /\ G!Next
     /\ UNCHANGED kind

Spec == Init /\ [][Next]_vars

\* rbtree.h: the keys of a map, in order, in a balanced tree (LLRBTree!Agrees).
LLRBTreeIsMap == kind = "LLRBTree" => LLRB!Agrees

\* rbtree.hpp: sound up to the erase that leaves it unsound (RBTree!Agrees).
RBTreeIsMap == kind = "RBTree" => RB!Agrees

\* HashTable, fx map, RegionBasedHashTable, LConf: lookup and iteration give what the calls left.
TablesAgree ==
  /\ kind = "HashTable" => H!Agrees
  /\ kind = "JudyMap" => J!Agrees
  /\ kind = "RegionHashTable" => RH!Agrees
  /\ kind = "LConf" => C!Agrees

\* pb_parser and the generated messages: a message keeps its values through lazy decoding, the
\* API, cached sizes and the wire format.
MessageKeepsValues ==
  /\ kind = "Message1" => M1!Agrees
  /\ kind = "Message2" => M2!Agrees
  /\ kind = "Message3" => M3!Agrees
  /\ kind = "Generated" => G!Agrees

\* Format: the text of the arguments, or an exception where one is due (Format!Agrees).
FormatAgrees == kind = "Format" => F!Agrees
=============================================================================

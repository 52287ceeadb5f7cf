-------------------------- MODULE GeneratedMessage ---------------------------
(***************************************************************************)
(* The message classes that protoc generated for exchange_gifts_info.proto:*)
(* the same code for every message over its list of fields. A field is a   *)
(* required uint32 or enum, or a repeated message. The wire format is a    *)
(* sequence of tokens: a tag with a varint, or a tag with a length and the *)
(* tokens of that length. The streams and the set of unknown fields belong *)
(* to the protobuf library.                                                *)
(***************************************************************************)
EXTENDS Integers, Sequences, FiniteSetsExt, SequencesExt

CONSTANTS
  Fields,     \* [type, default, valid, sub] by number: of the message under test
  Values,     \* what scalar fields are set to
  Children,   \* the wire form of messages that are added
  Inputs,     \* what is parsed, unknown fields and enum values included
  OneByte,    \* a varint below it takes one byte, else two
  MaxLen,     \* bound on repeated and unknown fields
  MaxOps      \* bound on the operations in a behaviour

VARIABLES
  obj,   \* a, b: two messages: has: _has_bits_; val: scalars; rep: repeated fields;
         \* unknown; size: _cached_size_
  ref    \* a, b: the tokens of the two, known fields in the order of their numbers; ops: how many

vars == <<obj, ref>>

IsScalar(f) == f.type # "message"
Scalars(fs) == {i \in DOMAIN fs : IsScalar(fs[i])}
Repeated(fs) == DOMAIN fs \ Scalars(fs)

SharedCtor(fs) ==
  [has |-> {}, val |-> [i \in Scalars(fs) |-> fs[i].default], rep |-> [i \in Repeated(fs) |-> <<>>],
   unknown |-> <<>>, size |-> 0]

\* The scalars are reset when any of them is there; _cached_size_ stays.
Clear(fs, m) ==
  [m EXCEPT !.val = IF m.has = {} THEN @ ELSE [i \in Scalars(fs) |-> fs[i].default],
            !.rep = [i \in Repeated(fs) |-> <<>>], !.has = {}, !.unknown = <<>>]

\* set_, clear_ and add_ of a field.
SetField(m, i, v) == [m EXCEPT !.val[i] = v, !.has = @ \cup {i}]
ClearField(fs, m, i) == [m EXCEPT !.val[i] = fs[i].default, !.has = @ \ {i}]
AddChild(m, i, child) == [m EXCEPT !.rep[i] = Append(@, child)]

-----------------------------------------------------------------------------
VarintSize(v) == IF v < OneByte THEN 1 ELSE 2
Varint(i, v) == [id |-> i, len |-> -1, v |-> v, sub |-> <<>>]
Delimited(i, len, tokens) == [id |-> i, len |-> len, v |-> 0, sub |-> tokens]

RECURSIVE WireSize(_)
WireSize(tokens) ==
  FoldLeft(LAMBDA n, t : n + 1 + (IF t.len = -1 THEN VarintSize(t.v) ELSE VarintSize(t.len) + WireSize(t.sub)), 0, tokens)

\* ByteSize computes the sizes of the children too, and caches them all.
RECURSIVE ByteSize(_, _)
ByteSize(fs, m) ==
  LET sized == [i \in Repeated(fs) |-> [k \in DOMAIN m.rep[i] |-> ByteSize(fs[i].sub, m.rep[i][k])]]
      scalars == MapThenSumSet(LAMBDA i : 1 + VarintSize(m.val[i]), m.has)
      children == MapThenSumSet(LAMBDA i : FoldLeft(LAMBDA n, c : n + 1 + VarintSize(c.size) + c.size, 0, sized[i]), Repeated(fs))
  IN [m EXCEPT !.rep = sized, !.size = scalars + children + WireSize(m.unknown)]

\* The length of a child is the one that ByteSize cached.
RECURSIVE SerializeWithCachedSizes(_, _)
SerializeField(fs, m, i) ==
  IF IsScalar(fs[i]) THEN IF i \in m.has THEN <<Varint(i, m.val[i])>> ELSE <<>>
  ELSE [k \in DOMAIN m.rep[i] |-> Delimited(i, m.rep[i][k].size, SerializeWithCachedSizes(fs[i].sub, m.rep[i][k]))]
SerializeWithCachedSizes(fs, m) ==
  FlattenSeq([i \in DOMAIN fs |-> SerializeField(fs, m, i)]) \o m.unknown

\* SerializeToString of the library.
SerializeToString(fs, m) == SerializeWithCachedSizes(fs, ByteSize(fs, m))

\* A field of another wire type or number, or an enum value that is not valid, is unknown.
RECURSIVE MergePartialFromCodedStream(_, _, _)
MergeScalar(f, m, t) ==
  IF t.len # -1 \/ (f.type = "enum" /\ t.v \notin f.valid) THEN [m EXCEPT !.unknown = Append(@, t)]
  ELSE SetField(m, t.id, t.v)
MergeToken(fs, m, t) ==
  IF t.id \notin DOMAIN fs THEN [m EXCEPT !.unknown = Append(@, t)]
  ELSE IF IsScalar(fs[t.id]) THEN MergeScalar(fs[t.id], m, t)
  ELSE IF t.len = -1 THEN [m EXCEPT !.unknown = Append(@, t)]
  ELSE AddChild(m, t.id, MergePartialFromCodedStream(fs[t.id].sub, SharedCtor(fs[t.id].sub), t.sub))
MergePartialFromCodedStream(fs, m, tokens) == FoldLeft(LAMBDA n, t : MergeToken(fs, n, t), m, tokens)

\* MergeFrom another message; the copies of children have no cached size yet.
RECURSIVE MergeFrom(_, _, _)
MergeFrom(fs, m, from) ==
  [m EXCEPT !.rep = [i \in Repeated(fs) |->
                       m.rep[i] \o [k \in DOMAIN from.rep[i] |-> MergeFrom(fs[i].sub, SharedCtor(fs[i].sub), from.rep[i][k])]],
            !.val = [i \in Scalars(fs) |-> IF i \in from.has THEN from.val[i] ELSE m.val[i]],
            !.has = m.has \cup from.has, !.unknown = m.unknown \o from.unknown]

CopyFrom(fs, m, from) == MergeFrom(fs, Clear(fs, m), from)

RECURSIVE IsInitialized(_, _)
IsInitialized(fs, m) ==
  /\ Scalars(fs) \subseteq m.has
  /\ \A i \in Repeated(fs) : \A k \in DOMAIN m.rep[i] : IsInitialized(fs[i].sub, m.rep[i][k])

-----------------------------------------------------------------------------
Init ==
  /\ obj = [a |-> SharedCtor(Fields), b |-> SharedCtor(Fields)]
  /\ ref = [a |-> <<>>, b |-> <<>>, ops |-> 0]

\* The tokens in the order of the known fields, a scalar's last value only.
LastOf(tokens, i) == LET own == SelectSeq(tokens, LAMBDA t : t.id = i) IN IF own = <<>> THEN own ELSE <<own[Len(own)]>>
Known(t) == t.id \in DOMAIN Fields /\ (IsScalar(Fields[t.id]) <=> t.len = -1)
            /\ (Fields[t.id].type = "enum" => t.v \in Fields[t.id].valid)
Canonical(tokens) ==
  LET known == SelectSeq(tokens, Known)
  IN FlattenSeq([i \in DOMAIN Fields |-> IF IsScalar(Fields[i]) THEN LastOf(known, i) ELSE SelectSeq(known, LAMBDA t : t.id = i)])
       \o SelectSeq(tokens, LAMBDA t : ~Known(t))

Fits(m) == Len(m.unknown) <= MaxLen /\ \A i \in Repeated(Fields) : Len(m.rep[i]) <= MaxLen
Put(a, b, refA, refB) ==
  /\ ref.ops < MaxOps /\ Fits(a)
  /\ obj' = [a |-> a, b |-> b]
  /\ ref' = [a |-> Canonical(refA), b |-> refB, ops |-> ref.ops + 1]
Update(a, refA) == Put(a, obj.b, refA, ref.b)

Set(i, v) == Update(SetField(obj.a, i, v), ref.a \o <<Varint(i, v)>>)
Reset(i) == Update(ClearField(Fields, obj.a, i), SelectSeq(ref.a, LAMBDA t : ~(Known(t) /\ t.id = i)))
Add(i, tokens) ==
  Update(AddChild(obj.a, i, MergePartialFromCodedStream(Fields[i].sub, SharedCtor(Fields[i].sub), tokens)),
         ref.a \o <<Delimited(i, WireSize(tokens), tokens)>>)
ClearAll == Update(Clear(Fields, obj.a), <<>>)
Merge == Update(MergeFrom(Fields, obj.a, obj.b), ref.a \o ref.b)
Copy == Update(CopyFrom(Fields, obj.a, obj.b), ref.b)
Swap == Put(obj.b, obj.a, ref.b, ref.a)
Parse(tokens) == Update(MergePartialFromCodedStream(Fields, obj.a, tokens), ref.a \o tokens)
Size == Update(ByteSize(Fields, obj.a), ref.a)

Next ==
  \/ ClearAll \/ Merge \/ Copy \/ Swap \/ Size
  \/ \E i \in Scalars(Fields) : Reset(i) \/ \E v \in Values : (Fields[i].type = "enum" => v \in Fields[i].valid) /\ Set(i, v)
  \/ \E i \in Repeated(Fields), c \in Children : Add(i, c)
  \/ \E tokens \in Inputs : Parse(tokens)

Spec == Init /\ [][Next]_vars

-----------------------------------------------------------------------------
\* Whatever was set, merged, copied, swapped and parsed, a message writes the tokens that a
\* plain list of them would come to, with the lengths of children right although they were
\* cached; ByteSize is the length of what is written; parsing it gives the message back; a
\* field that is not there has its default.
Agrees ==
  \A m \in {obj.a, obj.b} :
    LET written == SerializeToString(Fields, m)
        again == MergePartialFromCodedStream(Fields, SharedCtor(Fields), written)
    IN /\ written = ref[IF m = obj.a THEN "a" ELSE "b"]
       /\ ByteSize(Fields, m).size = WireSize(written)
       /\ SerializeToString(Fields, again) = written
       /\ again.val = m.val /\ again.has = m.has
       /\ IsInitialized(Fields, m) <=> IsInitialized(Fields, again)
=============================================================================

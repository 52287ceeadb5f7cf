---------------------------- MODULE ProtoMessage ----------------------------
(***************************************************************************)
(* CompactProtobuf::Message: a message parsed lazily from a string, read,  *)
(* changed through the API of compact_protobuf.h, and written back. ref is *)
(* the same message as its fields' values. The strings it is made from are *)
(* what a protobuf serializer writes, as sequences of field occurrences    *)
(* [id, val], the value of an embedded message being such a sequence, of a *)
(* packed field a sequence of elements, and of an unknown one its bytes.   *)
(*                                                                         *)
(* Two calls a client may make run into an assert or a null pointer; the   *)
(* model stops there and "halt" says which: an element of a packed field   *)
(* other than the first while the field is not decoded yet ("index", the   *)
(* check is made on the undecoded values), and Clear() over an embedded    *)
(* message that is not decoded yet ("clear"). A packed field that came in  *)
(* two pieces is refused when it is decoded ("split"), and a string longer *)
(* than the doubled buffer when it is written ("buffer").                  *)
(***************************************************************************)
EXTENDS ProtoCodec

CONSTANTS
  Descriptor,   \* the fields of the message
  Inputs,       \* sequences of occurrences
  Ints, Strs,   \* values given to the Set and Add functions
  MaxLen        \* bound on the elements of a repeated field

VARIABLES
  obj,   \* m: the Message; halt
  ref    \* the values, known and unknown, by field number

vars == <<obj, ref>>

-----------------------------------------------------------------------------
\* The serializer the strings come from, and what they mean.

TrueZigZag(v) == IF v < 2 ^ (Width - 1) THEN 2 * v ELSE 2 * (2 ^ Width - v) - 1

RefScalar(v, d) == IF d.type \in {"sint32", "sint64"} THEN EncodeVarint(TrueZigZag(v)) ELSE EncodeScalar(v, d)

RECURSIVE RefWire(_, _)
RefWire(occs, desc) ==
  LET Payload(o) ==
        CASE o.id \notin DOMAIN desc      -> o.val
          [] desc[o.id].label = "packed"  -> FlattenSeq([i \in DOMAIN o.val |-> RefScalar(o.val[i], desc[o.id])])
          [] desc[o.id].type = "message"  -> RefWire(o.val, desc[o.id].sub)
          [] desc[o.id].type = "string"   -> o.val
          [] OTHER                        -> RefScalar(o.val, desc[o.id])
      wt(o) == IF o.id \in DOMAIN desc THEN WireType(desc[o.id]) ELSE 2
      Prefixed(o, s) == IF wt(o) = 2 THEN EncodeVarint(Len(s)) \o s ELSE s
  IN FlattenSeq([i \in DOMAIN occs |->
                   EncodeVarint(8 * occs[i].id + wt(occs[i])) \o Prefixed(occs[i], Payload(occs[i]))])

RECURSIVE Meaning(_, _)
Meaning(occs, desc) ==
  LET ids == {occs[i].id : i \in DOMAIN occs}
      Of(id) == SelectSeq(occs, LAMBDA o : o.id = id)
      Vals(id) == [i \in DOMAIN Of(id) |-> IF id \in DOMAIN desc /\ desc[id].type = "message"
                                          THEN Meaning(Of(id)[i].val, desc[id].sub) ELSE Of(id)[i].val]
  IN [known |-> [id \in ids \cap DOMAIN desc |->
                   CASE desc[id].label = "packed" -> FlattenSeq(Vals(id))
                     [] Repeated(desc[id])        -> Vals(id)
                     [] OTHER                     -> <<Last(Vals(id))>>],
      unknown |-> [id \in ids \ DOMAIN desc |-> Vals(id)]]

\* The values a Message stands for, decoded or not.
RECURSIVE View(_, _)
View(m, desc) ==
  [known |-> [id \in DOMAIN m.fields |->
                LET Values(f) == [i \in DOMAIN f.vals |->
                                    IF desc[id].type = "message" THEN View(f.vals[i].dec, desc[id].sub)
                                    ELSE f.vals[i].dec]
                IN Values(DecodeField(m.fields[id], desc[id]))],
   unknown |-> [id \in DOMAIN m.unknown |->
                  [i \in DOMAIN m.unknown[id].vals |->
                     LET v == m.unknown[id].vals[i] IN SubSeq(v.enc, v.len + 1, Len(v.enc))]]]

-----------------------------------------------------------------------------
\* The API. Calls that name a field of another type, add to a field that is not repeated
\* and there, or ask for an element that is not there, are the caller's errors.

D(id) == Descriptor[id]
Has(id) == id \in DOMAIN obj.m.fields
Field(id) == obj.m.fields[id]
IsMessage(id) == D(id).type = "message"
InRange(id, idx) == id \in DOMAIN ref.known /\ idx < Len(ref.known[id])
ValuesFor(id) == CASE D(id).type = "string" -> Strs [] D(id).type = "bool" -> {0, 1} [] OTHER -> Ints

\* CheckValidIndex and TryDecodeField, in this order.
Refused(id, idx) ==
  CASE Repeated(D(id)) /\ idx >= Len(Field(id).vals) -> "index"
    [] ~Decodable(Field(id), D(id)) -> "split"
    [] OTHER -> "no"

\* The message after decoding field id, and after giving it new values.
WithField(m, id, f) ==
  [m EXCEPT !.fields = [i \in DOMAIN @ \cup {id} |-> IF i = id THEN f ELSE @[i]]]
Decoded(id) == WithField(obj.m, id, DecodeField(Field(id), D(id)))
WithoutField(m, id) == [m EXCEPT !.fields = [i \in DOMAIN @ \ {id} |-> @[i]]]

\* A Value made by the API; Helper::SetInteger and SetReal keep what the field has room for.
Stored(id, x) ==
  IF D(id).type \in {"fixed32", "float"} THEN x % ByteBase ^ Size32 ELSE x
MakeValue(id, x) == DecodedAs(Stored(id, x))
EmptyMessage == [fields |-> NoFields, unknown |-> NoFields]
AddKnownField(id, v) ==
  WithField(obj.m, id, [decoded |-> TRUE, wt |-> WireType(D(id)), vals |-> <<v>>])

Halt(why) == obj' = [obj EXCEPT !.halt = why] /\ UNCHANGED ref

Step(m) == obj' = [obj EXCEPT !.m = m]
RefStep(known) == ref' = [ref EXCEPT !.known = known]
RefWith(id, seq) == [i \in DOMAIN ref.known \cup {id} |-> IF i = id THEN seq ELSE ref.known[i]]

\* GetInteger, GetReal, GetString, GetMessage of a field that is there: it is decoded.
Get(id, idx) ==
  /\ InRange(id, idx)
  /\ IF Refused(id, idx) # "no" THEN Halt(Refused(id, idx))
     ELSE Step(Decoded(id)) /\ RefStep(ref.known)

\* GetFieldSize has no index to check.
GetFieldSize(id) ==
  /\ Has(id)
  /\ IF ~Decodable(Field(id), D(id)) THEN Halt("split") ELSE Step(Decoded(id)) /\ RefStep(ref.known)

\* SetInteger, SetReal, SetString
Set(id, idx, x) ==
  /\ ~IsMessage(id)
  /\ IF ~Has(id) THEN /\ idx = 0
                      /\ Step(AddKnownField(id, MakeValue(id, x)))
                      /\ RefStep(RefWith(id, <<Stored(id, x)>>))
     ELSE /\ InRange(id, idx)
          /\ IF Refused(id, idx) # "no" THEN Halt(Refused(id, idx))
             ELSE /\ Step([Decoded(id) EXCEPT !.fields[id].vals[idx + 1].dec = Stored(id, x)])
                  /\ RefStep([ref.known EXCEPT ![id][idx + 1] = Stored(id, x)])

\* GetMessage(id, idx)->SetInteger(sub, 0, x) for an embedded field that is an integer.
SetInSub(id, idx, sub, x) ==
  /\ IsMessage(id) /\ InRange(id, idx) /\ Refused(id, idx) = "no"
  /\ LET m == Decoded(id)
         f == [decoded |-> TRUE, wt |-> WireType(D(id).sub[sub]),
               vals |-> <<DecodedAs(x)>>]
     IN Step([m EXCEPT !.fields[id].vals[idx + 1].dec = WithField(@, sub, f)])
  /\ RefStep([ref.known EXCEPT ![id][idx + 1].known =
                [i \in DOMAIN @ \cup {sub} |-> IF i = sub THEN <<x>> ELSE @[i]]])

\* AddInteger, AddReal, AddString; AddMessage with InternalAddMessage
Add(id, v, x) ==
  IF ~Has(id) THEN Step(AddKnownField(id, v)) /\ RefStep(RefWith(id, <<x>>))
  ELSE /\ Repeated(D(id)) /\ Len(ref.known[id]) < MaxLen
       /\ IF ~Decodable(Field(id), D(id)) THEN Halt("split")
          ELSE /\ Step([Decoded(id) EXCEPT !.fields[id].vals = Append(@, v)])
               /\ RefStep([ref.known EXCEPT ![id] = Append(@, x)])

AddScalar(id, x) == ~IsMessage(id) /\ Add(id, MakeValue(id, x), Stored(id, x))

AddMessage(id) ==
  IsMessage(id) /\ Add(id, DecodedAs(EmptyMessage), [known |-> NoFields, unknown |-> NoFields])

\* DeleteInteger, DeleteReal, DeleteString, DeleteMessage. What they return is the element,
\* except that DeleteReal returns the double of the union for a float, too.
Delete(id, idx) ==
  /\ InRange(id, idx)
  /\ IF Refused(id, idx) # "no" THEN Halt(Refused(id, idx))
     ELSE LET Without(f) == IF Len(f.vals) = 1 THEN WithoutField(obj.m, id)
                            ELSE WithField(obj.m, id, [f EXCEPT !.vals = RemoveAt(@, idx + 1)])
          IN /\ Step(Without(DecodeField(Field(id), D(id))))
             /\ RefStep(IF Len(ref.known[id]) = 1 THEN [i \in DOMAIN ref.known \ {id} |-> ref.known[i]]
                        ELSE [ref.known EXCEPT ![id] = RemoveAt(@, idx + 1)])

\* Clear: embedded messages are cleared and kept when they still hold something.
RECURSIVE Cleared(_, _)
Cleared(m, desc) ==
  LET Left(id) == SelectSeq([i \in DOMAIN m.fields[id].vals |->
                               DecodedAs(Cleared(m.fields[id].vals[i].dec, desc[id].sub))],
                            LAMBDA v : v.dec # EmptyMessage)
      kept == {id \in DOMAIN m.fields : desc[id].type = "message" /\ Left(id) # <<>>}
  IN [m EXCEPT !.fields = [id \in kept |-> [m.fields[id] EXCEPT !.vals = Left(id)]]]

RECURSIVE RefCleared(_)
RefCleared(r) ==
  LET Left(id) == SelectSeq([i \in DOMAIN r.known[id] |-> RefCleared(r.known[id][i])],
                            LAMBDA v : DOMAIN v.known \cup DOMAIN v.unknown # {})
      kept == {id \in DOMAIN r.known : IsMessage(id) /\ Left(id) # <<>>}
  IN [known |-> [id \in kept |-> Left(id)], unknown |-> r.unknown]

Clear ==
  IF \E id \in DOMAIN obj.m.fields : IsMessage(id) /\ ~Field(id).decoded THEN Halt("clear")
  ELSE Step(Cleared(obj.m, Descriptor)) /\ ref' = RefCleared(ref)

\* A decoded sint that is negative: ZigZagEncode does not write it as ZigzagDecode reads it.
RECURSIVE Lossy(_, _)
Lossy(m, desc) == \E id \in DOMAIN m.fields :
  LET f == m.fields[id]  d == desc[id]
  IN f.decoded /\ \E i \in DOMAIN f.vals :
       CASE d.type = "sint32"  -> f.vals[i].dec >= 2 ^ (Width32 - 1)
         [] d.type = "sint64"  -> f.vals[i].dec >= 2 ^ (Width - 1)
         [] d.type = "message" -> Lossy(f.vals[i].dec, d.sub)
         [] OTHER              -> FALSE

\* ToString, then FromString into a new Message. ToString is FALSE without a required field.
Reparse ==
  LET Read(p) == Step(IF p.ok THEN p.m ELSE EmptyMessage) /\ RefStep(ref.known)
      Write(e) ==
        /\ e.ok
        /\ CASE ~e.buf.ok                 -> Halt("buffer")
             [] Lossy(obj.m, Descriptor)  -> Halt("zigzag")
             [] OTHER                     -> Read(Parse(e.buf.b, Descriptor))
  IN Write(Encode(obj.m, Descriptor))

Init == \E in \in Inputs :
  LET From(p) == p.ok /\ obj = [m |-> p.m, halt |-> "no"]
  IN /\ From(Parse(RefWire(in, Descriptor), Descriptor))
     /\ ref = Meaning(in, Descriptor)

Next ==
  /\ obj.halt = "no"
  /\ \/ \E id \in DOMAIN Descriptor :
          \/ GetFieldSize(id) \/ AddMessage(id)
          \/ \E x \in ValuesFor(id) : AddScalar(id, x)
          \/ \E idx \in 0 .. MaxLen - 1 :
               \/ Get(id, idx) \/ Delete(id, idx)
               \/ \E x \in ValuesFor(id) : Set(id, idx, x)
               \/ \E x \in Ints : SetInSub(id, idx, 1, x)
     \/ Clear
     \/ Reparse

Spec == Init /\ [][Next]_vars

\* The fields that can be decoded.
Whole(v, m) == [v EXCEPT !.known = [id \in {i \in DOMAIN @ : Decodable(m.fields[i], D(i))} |-> @[id]]]

\* After any calls, decoded or not, written out and parsed again or not, the message holds
\* the values the calls left in every field, and its unknown fields unchanged. What ToString
\* writes for a negative sint that was decoded or set parses to another value.
Agrees == obj.halt = "no" =>
  /\ DOMAIN obj.m.fields = DOMAIN ref.known
  /\ Whole(View(obj.m, Descriptor), obj.m) = Whole(ref, obj.m)
  /\ Lossy(obj.m, Descriptor) =>
       LET e == Encode(obj.m, Descriptor) IN View(Parse(e.buf.b, Descriptor).m, Descriptor) # ref
=============================================================================

----------------------------- MODULE ProtoCodec -----------------------------
(***************************************************************************)
(* The wire format of pb_parser: protobuf_parser.cc, protobuf_helper.cc    *)
(* and protobuf_encoder.cc as functions on byte sequences. The widths are  *)
(* constants: a byte carries GroupBits bits of a varint and one bit that   *)
(* says more follow, an integer has Width bits (64 in the code), a sint32  *)
(* has Width32 (32).                                                       *)
(*                                                                         *)
(* A descriptor maps field numbers to [type, label, sub], sub being the    *)
(* descriptor of an embedded message. A Value is the encoded slice, the    *)
(* length of its length prefix and, once decoded, dec. A Message is its    *)
(* fields_ and unknown_fields_, functions from numbers to Fields.          *)
(***************************************************************************)
EXTENDS Integers, Sequences, FiniteSetsExt, SequencesExt

CONSTANTS
  GroupBits, Width, Width32,
  Size32, Size64,     \* bytes of a fixed32 and a fixed64
  StackBufLength      \* kStackBufLength

Group == 2 ^ GroupBits
MaxVarintLength == (Width + GroupBits - 1) \div GroupBits
ByteBase == 2 * Group
Wrap(v) == v % 2 ^ Width

-----------------------------------------------------------------------------
\* protobuf_parser.cc

More(byte) == byte >= Group
GetValue(byte) == byte % Group

\* ParseVarintInternal: the value and the length, from the byte at pos on.
RECURSIVE VarintFrom(_, _, _)
VarintFrom(s, pos, len) ==
  IF pos > Len(s) \/ len > MaxVarintLength THEN [v |-> 0, len |-> len]
  ELSE IF ~More(s[pos]) THEN [v |-> Wrap(GetValue(s[pos])), len |-> len]
  ELSE LET rest == VarintFrom(s, pos + 1, len + 1)
       IN [v |-> Wrap(GetValue(s[pos]) + Group * rest.v), len |-> rest.len]

Varint(s, pos) == VarintFrom(s, pos, 1)

ParseTag(s, pos) ==
  LET tag == Varint(s, pos) IN [id |-> tag.v \div 8, wt |-> tag.v % 8, len |-> tag.len]

\* ParseVarintLazy
RECURSIVE LazyLength(_, _, _)
LazyLength(s, pos, len) ==
  IF pos > Len(s) \/ len >= MaxVarintLength \/ ~More(s[pos]) THEN len
  ELSE LazyLength(s, pos + 1, len + 1)

\* The bytes of the value of wire type wt at pos and the part of them that is a length.
Extent(s, pos, wt) ==
  CASE wt = 0 -> [n |-> LazyLength(s, pos, 1), len |-> 0]
    [] wt = 1 -> [n |-> Size64, len |-> 0]
    [] wt = 2 -> LET l == Varint(s, pos) IN [n |-> l.len + l.v, len |-> l.len]
    [] wt = 5 -> [n |-> Size32, len |-> 0]

-----------------------------------------------------------------------------
\* protobuf_helper.cc

Repeated(d) == d.label \in {"repeated", "packed"}

\* Mutant: a field that is not repeated keeps the first occurrence.
AddOccurrenceKeepsFirst(fields, desc, id, wt, v) ==
  LET fresh == [decoded |-> FALSE, wt |-> wt, vals |-> <<v>>]
      keep == id \notin DOMAIN desc \/ Repeated(desc[id])
  IN [i \in DOMAIN fields \cup {id} |->
        CASE i # id                -> fields[i]
          [] i \notin DOMAIN fields -> fresh
          [] keep                  -> [fields[i] EXCEPT !.vals = Append(@, v)]
          [] OTHER                 -> fields[i]]

\* The field an occurrence goes to: a repeated or unknown one keeps them all, another the last.
AddOccurrence(fields, desc, id, wt, v) ==
  LET fresh == [decoded |-> FALSE, wt |-> wt, vals |-> <<v>>]
      keep == id \notin DOMAIN desc \/ Repeated(desc[id])
  IN [i \in DOMAIN fields \cup {id} |->
        CASE i # id                -> fields[i]
          [] i \notin DOMAIN fields -> fresh
          [] keep                  -> [fields[i] EXCEPT !.vals = Append(@, v)]
          [] OTHER                 -> [fields[i] EXCEPT !.vals = <<v>>]]

\* ParseMessageLazy; FALSE for a wire type there is not and for a value that is cut off.
RECURSIVE ParseFrom(_, _, _, _)
ParseFrom(s, pos, desc, fields) ==
  LET Failed == [ok |-> FALSE, fields |-> fields]
      Value(tag, at, ext) ==
        IF tag.wt # 0 /\ at + ext.n - 1 > Len(s) THEN Failed
        ELSE ParseFrom(s, at + ext.n, desc,
               AddOccurrence(fields, desc, tag.id, tag.wt,
                             [enc |-> SubSeq(s, at, at + ext.n - 1), len |-> ext.len, dec |-> 0]))
      Tagged(tag) ==
        IF tag.wt \notin {0, 1, 2, 5} THEN Failed
        ELSE Value(tag, pos + tag.len, Extent(s, pos + tag.len, tag.wt))
  IN IF pos > Len(s) THEN [ok |-> TRUE, fields |-> fields] ELSE Tagged(ParseTag(s, pos))

NoFields == [i \in {} |-> 0]

CheckAllRequiredField(fields, desc) ==
  \A i \in DOMAIN desc : desc[i].label = "required" => i \in DOMAIN fields

\* Message::Init: the unknown fields are moved to a map of their own.
Parse(s, desc) ==
  LET Split(r) ==
        [ok |-> r.ok /\ CheckAllRequiredField(r.fields, desc),
         m |-> [fields |-> [i \in DOMAIN r.fields \cap DOMAIN desc |-> r.fields[i]],
                unknown |-> [i \in DOMAIN r.fields \ DOMAIN desc |-> r.fields[i]]]]
  IN Split(ParseFrom(s, 1, desc, NoFields))

ZigzagDecode(v) == IF v % 2 = 0 THEN v \div 2 ELSE Wrap(-(v \div 2) - 1)

RECURSIVE Fixed(_)
Fixed(s) == IF s = <<>> THEN 0 ELSE Head(s) + ByteBase * Fixed(Tail(s))

WireType(d) ==
  CASE d.label = "packed" -> 2
    [] d.type \in {"int", "bool", "sint32", "sint64"} -> 0
    [] d.type \in {"fixed32", "float"} -> 5
    [] d.type \in {"fixed64", "double"} -> 1
    [] d.type \in {"string", "message"} -> 2

\* One value that is not packed: DecodeVarint, DecodeVarintWithZigZag, DecodeFixed,
\* DecodeString, DecodeMessage.
Decode(v, d) ==
  CASE d.type \in {"int", "bool"} -> Varint(v.enc, 1).v
    [] d.type \in {"sint32", "sint64"} -> ZigzagDecode(Varint(v.enc, 1).v)
    [] d.type \in {"fixed32", "float", "fixed64", "double"} -> Fixed(v.enc)
    [] d.type = "string" -> SubSeq(v.enc, Varint(v.enc, 1).len + 1, Len(v.enc))
    [] d.type = "message" -> Parse(SubSeq(v.enc, v.len + 1, Len(v.enc)), d.sub).m

\* A Value once decoded: nothing reads its encoded slice any more.
DecodedAs(x) == [enc |-> <<>>, len |-> 0, dec |-> x]

\* DecodePacked: the elements of the one payload; each is a Value of its own afterwards.
RECURSIVE Unpack(_, _, _)
Unpack(s, pos, d) ==
  LET Element(n) == [enc |-> SubSeq(s, pos, pos + n - 1), len |-> 0, dec |-> 0]
      Rest(n) == <<DecodedAs(Decode(Element(n), d))>> \o Unpack(s, pos + n, d)
  IN IF pos > Len(s) THEN <<>> ELSE Rest(Extent(s, pos, WireType([d EXCEPT !.label = "repeated"])).n)

\* Whether DecodeField returns rather than asserts: value() wants one packed payload.
Decodable(f, d) == f.decoded \/ d.label # "packed" \/ Len(f.vals) = 1

\* TryDecodeField
DecodeField(f, d) ==
  CASE f.decoded -> f
    [] d.label = "packed" ->
         [f EXCEPT !.decoded = TRUE,
                   !.vals = LET v == f.vals[1] IN Unpack(SubSeq(v.enc, v.len + 1, Len(v.enc)), 1, d)]
    [] OTHER ->
         [f EXCEPT !.decoded = TRUE, !.vals = [i \in DOMAIN @ |-> DecodedAs(Decode(@[i], d))]]

-----------------------------------------------------------------------------
\* protobuf_encoder.cc

\* EncoderBuffer: ok is FALSE after an assert of Append.
EmptyBuffer == [b |-> <<>>, cap |-> StackBufLength, ok |-> TRUE]

BufferAppend(buf, s) ==
  LET cap == IF Len(s) + Len(buf.b) > buf.cap THEN 2 * buf.cap ELSE buf.cap
  IN [b |-> buf.b \o s, cap |-> cap, ok |-> buf.ok /\ Len(s) + Len(buf.b) <= cap]

AppendAll(buf, parts) == FoldLeft(BufferAppend, buf, parts)

RECURSIVE EncodeVarint(_)
EncodeVarint(v) ==
  IF v < Group THEN <<v>> ELSE <<Group + (v % Group)>> \o EncodeVarint(v \div Group)

\* ZigZagEncode: x ^ (x >> w-1) of an even x, the shift being that of an unsigned number.
ZigZagEncode(v, w) ==
  LET u == v % 2 ^ w  x == (2 * u) % 2 ^ w
  IN x + u \div 2 ^ (w - 1)

RECURSIVE FixedBytes(_, _)
FixedBytes(v, n) == IF n = 0 THEN <<>> ELSE <<v % ByteBase>> \o FixedBytes(v \div ByteBase, n - 1)

\* EncodeVarint of a Value, Encode32Bit and Encode64Bit.
EncodeScalar(v, d) ==
  CASE d.type = "int"    -> EncodeVarint(v)
    [] d.type = "bool"   -> EncodeVarint(IF v = 0 THEN 0 ELSE 1)
    [] d.type = "sint32" -> EncodeVarint(ZigZagEncode(v, Width32))
    [] d.type = "sint64" -> EncodeVarint(ZigZagEncode(v, Width))
    [] d.type \in {"fixed32", "float"} -> FixedBytes(v, Size32)
    [] OTHER             -> FixedBytes(v, Size64)

\* EncodePackedField: the elements, written to a buffer of their own.
EncodePackedField(vals, d) ==
  AppendAll(EmptyBuffer, [i \in DOMAIN vals |-> EncodeScalar(vals[i].dec, d)])

Ascending(ids) == SetToSortSeq(ids, <)

\* EncodeMessage, both of them: the required fields, the known fields in order of their
\* number, undecoded ones as they came, then the unknown ones.
RECURSIVE Encode(_, _)
Encode(m, desc) ==
  LET Tag(id, f) == EncodeVarint(8 * id + f.wt)
      Raw(buf, id, f) ==
        FoldLeft(LAMBDA b, v : AppendAll(b, <<Tag(id, f), v.enc>>), buf, f.vals)
      Packed(buf, id, f) ==
        LET Payload(p) == AppendAll([buf EXCEPT !.ok = @ /\ p.ok], <<Tag(id, f), EncodeVarint(Len(p.b)), p.b>>)
        IN Payload(EncodePackedField(f.vals, desc[id]))
      Delimited(buf, id, f, v) ==
        LET Payload(body, ok) == AppendAll([buf EXCEPT !.ok = @ /\ ok], <<Tag(id, f), EncodeVarint(Len(body)), body>>)
            Embedded(e) == Payload(e.buf.b, e.ok /\ e.buf.ok)
        IN IF desc[id].type = "message" THEN Embedded(Encode(v.dec, desc[id].sub)) ELSE Payload(v.dec, TRUE)
      Known(buf, id) ==
        LET f == m.fields[id]  d == desc[id]
        IN CASE ~f.decoded -> Raw(buf, id, f)
             [] d.label = "packed" -> Packed(buf, id, f)
             [] f.wt = 2 -> FoldLeft(LAMBDA b, v : Delimited(b, id, f, v), buf, f.vals)
             [] OTHER -> FoldLeft(LAMBDA b, v : AppendAll(b, <<Tag(id, f), EncodeScalar(v.dec, d)>>),
                                  buf, f.vals)
      known == FoldLeft(Known, EmptyBuffer, Ascending(DOMAIN m.fields))
  IN [ok |-> CheckAllRequiredField(m.fields, desc),
      buf |-> FoldLeft(LAMBDA b, id : Raw(b, id, m.unknown[id]), known, Ascending(DOMAIN m.unknown))]
=============================================================================

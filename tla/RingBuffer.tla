----------------------------- MODULE RingBuffer -----------------------------
(***************************************************************************)
(* The ring buffer of ProcessBus (ProcessBus/src/ring_buffer.cc): messages *)
(* of variable length in one block of Length bytes of a memory-mapped      *)
(* file, each stored as its length (an int of SizeofLen bytes) and its     *)
(* payload.  A message is never split: when it does not fit before the end *)
(* of the block the rest of the block is marked as padding and the message *)
(* goes to the start.                                                      *)
(*                                                                         *)
(* Pointers are offsets from start_.  The byte at an offset is <<n, p>>    *)
(* for byte p of the int n, <<m, p>> for byte p of the payload of m, and   *)
(* Zero where memset or ftruncate put zeros.                               *)
(***************************************************************************)
EXTENDS Integers, Sequences

CONSTANTS
  Length,      \* length_, the bytes between start_ and end_
  SizeofLen,   \* sizeof(int)
  Messages,    \* what callers may push
  LenOf,       \* the length in bytes of a message
  Zero,        \* the byte 0
  NULL,        \* what Pop returns when nothing is stored
  Garbage      \* bytes that are not the payload of one message

ASSUME LengthAssumption == Length \in Nat \ {0}
ASSUME SizeofLenAssumption == SizeofLen \in Nat \ {0}
ASSUME LenOfAssumption == LenOf \in [Messages -> Nat]
ASSUME ResultAssumption == NULL \notin Messages /\ Garbage \notin Messages

VARIABLES
  front_offset, back_offset, padding, size,   \* OffsetData, in the mapped file
  mem,                                        \* the bytes of the block
  ret,                                        \* what the last call returned
  unread   \* history: the offset and the message of each Push not yet popped

offsets == <<front_offset, back_offset, padding, size>>
busVars == <<front_offset, back_offset, padding, size, mem, ret, unread>>

Offsets == 0 .. Length - 1

(* What Write stores for m: Total(m) bytes, Image(m, p) the one at p. *)
Total(m) == SizeofLen + LenOf[m]

Image(m, p) == IF p < SizeofLen THEN <<LenOf[m], p>> ELSE <<m, p - SizeofLen>>

Bytes ==
  {Zero} \cup UNION {{Image(m, p) : p \in 0 .. Total(m) - 1} : m \in Messages}

used ==
  IF back_offset >= front_offset
  THEN back_offset - front_offset
  ELSE back_offset + Length - front_offset - padding

(* The operators whose names begin with Bug are plausible errors in the one  *)
(* that follows them; each makes a property below fail.                      *)
(* CheckCanWrite: its out-parameter needs_padding, and its result. *)
BugNeedsPadding(m) ==
  back_offset >= front_offset /\ back_offset + Total(m) > Length

NeedsPadding(m) ==
  back_offset >= front_offset /\ back_offset + Total(m) >= Length

BugCheckCanWriteFull(m) ==
  /\ NeedsPadding(m) => Total(m) <= front_offset
  /\ back_offset < front_offset => back_offset + Total(m) <= front_offset

BugCheckCanWriteFront(m) ==
  back_offset < front_offset => back_offset + Total(m) < front_offset

BugCheckCanWriteWrap(m) ==
  /\ ~NeedsPadding(m)
  /\ back_offset < front_offset => back_offset + Total(m) < front_offset

CheckCanWrite(m) ==
  /\ NeedsPadding(m) => Total(m) < front_offset
  /\ back_offset < front_offset => back_offset + Total(m) < front_offset

CanPush(m) == LenOf[m] # 0 /\ LenOf[m] < Length /\ CheckCanWrite(m)

(* Write, then set_size. *)
Write(m) ==
  LET at == IF NeedsPadding(m) THEN 0 ELSE back_offset
      cleared(o) == NeedsPadding(m) /\ o >= back_offset
  IN  /\ padding' = IF NeedsPadding(m) THEN Length - back_offset ELSE padding
      /\ back_offset' = at + Total(m)
      /\ mem' = [o \in Offsets |->
                   IF o >= at /\ o < at + Total(m) THEN Image(m, o - at)
                   ELSE IF cleared(o) THEN Zero ELSE mem[o]]
      /\ unread' = Append(unread, [off |-> at, msg |-> m])

Push(m) ==
  \/ /\ CanPush(m)
     /\ Write(m)
     /\ size' = size + 1
     /\ ret' = <<"Push", TRUE>>
     /\ UNCHANGED front_offset
  \/ /\ ~CanPush(m)
     /\ ret' = <<"Push", FALSE>>
     /\ UNCHANGED <<offsets, mem, unread>>

(* The values the int at offset o may have: any, unless its bytes are those *)
(* of one length that was stored.                                           *)
IsIntAt(o, n) ==
  \A p \in 0 .. SizeofLen - 1 : o + p \in Offsets /\ mem[o + p] = <<n, p>>

IntsAt(o) ==
  LET stored == {LenOf[m] : m \in Messages}
  IN  IF \E n \in stored : IsIntAt(o, n)
      THEN {n \in stored : IsIntAt(o, n)}
      ELSE 0 .. Length

(* The message whose payload the len bytes at offset o are. *)
IsPayloadAt(o, len, m) ==
  /\ LenOf[m] = len
  /\ \A p \in 0 .. len - 1 : o + p \in Offsets /\ mem[o + p] = <<m, p>>

BytesAt(o, len) ==
  IF \E m \in Messages : IsPayloadAt(o, len, m)
  THEN CHOOSE m \in Messages : IsPayloadAt(o, len, m)
  ELSE Garbage

AtPadding == front_offset + padding = Length

BugReadNextPadding ==
  LET at == IF AtPadding THEN 0 ELSE front_offset
  IN  \E len \in IntsAt(at) :
        /\ front_offset' = at + SizeofLen + len
        /\ ret' = <<"Pop", BytesAt(at + SizeofLen, len)>>
        /\ UNCHANGED padding

BugReadNextFront ==
  \E len \in IntsAt(front_offset) :
    /\ front_offset' = front_offset + SizeofLen + len
    /\ ret' = <<"Pop", BytesAt(front_offset + SizeofLen, len)>>
    /\ UNCHANGED padding

ReadNext ==
  LET at == IF AtPadding THEN 0 ELSE front_offset
  IN  \E len \in IntsAt(at) :
        /\ padding' = IF AtPadding THEN 0 ELSE padding
        /\ front_offset' = at + SizeofLen + len
        /\ ret' = <<"Pop", BytesAt(at + SizeofLen, len)>>

Pop ==
  \/ /\ used = 0
     /\ ret' = <<"Pop", NULL>>
     /\ UNCHANGED <<offsets, mem, unread>>
  \/ /\ used # 0
     /\ size' = size - 1
     /\ ReadNext
     /\ unread' = IF unread = <<>> THEN unread ELSE Tail(unread)
     /\ UNCHANGED <<back_offset, mem>>

(* The constructor with init_offsetdata, as Listen calls it on a file that  *)
(* is new or left over from an earlier server; the bytes stay.              *)
Listen ==
  /\ padding' = 0 /\ size' = 0 /\ front_offset' = 0 /\ back_offset' = 0
  /\ ret' = <<"Listen", TRUE>>
  /\ unread' = <<>>
  /\ UNCHANGED mem

Init ==
  /\ padding = 0 /\ size = 0 /\ front_offset = 0 /\ back_offset = 0
  /\ mem = [o \in Offsets |-> Zero]
  /\ ret = <<"Listen", TRUE>>
  /\ unread = <<>>

Next == (\E m \in Messages : Push(m)) \/ Pop \/ Listen

Spec == Init /\ [][Next]_busVars

-----------------------------------------------------------------------------
(* The bytes that the i-th unread message occupies are First(i) .. End(i)-1. *)
First(i) == unread[i].off
End(i) == unread[i].off + Total(unread[i].msg)

(* The unread messages run past the end of the block and on from its start. *)
Wrapped == back_offset < front_offset

TypeOK ==
  /\ front_offset \in Offsets /\ back_offset \in Offsets
  /\ padding \in 0 .. Length
  /\ size \in Nat
  /\ mem \in [Offsets -> Bytes]
  /\ unread \in Seq([off : Offsets, msg : Messages])

(* Layout: the offsets that Push and Pop keep describe exactly the unread    *)
(* messages.  There is padding only while the data wraps, and it lies beyond *)
(* front_; the first message is where ReadNext will look for it, and the     *)
(* last one ends at back_.                                                   *)
OffsetsMatch ==
  /\ Wrapped <=> padding > 0
  /\ Wrapped => front_offset + padding <= Length
  /\ unread = <<>> <=> front_offset = back_offset
  /\ unread # <<>> => /\ First(1) = IF AtPadding THEN 0 ELSE front_offset
                      /\ End(Len(unread)) = back_offset

(* Each other message follows its predecessor, or starts the block when its  *)
(* predecessor ends at the padding.                                          *)
Consecutive ==
  \A i \in 1 .. Len(unread) - 1 :
    \/ First(i + 1) = End(i)
    \/ Wrapped /\ End(i) = Length - padding /\ First(i + 1) = 0

(* Every unread message lies between front_ and back_, on one side of the    *)
(* padding, and no message that wrapped comes before one that did not.       *)
InRange ==
  \A i \in 1 .. Len(unread) :
    \/ ~Wrapped /\ front_offset <= First(i) /\ End(i) <= back_offset
    \/ Wrapped /\ front_offset <= First(i) /\ End(i) <= Length - padding
    \/ Wrapped /\ End(i) <= back_offset

InOrder ==
  \A i, j \in 1 .. Len(unread) :
    i < j => \/ End(i) <= First(j)
             \/ Wrapped /\ front_offset <= First(i) /\ End(j) <= back_offset

Layout == OffsetsMatch /\ Consecutive /\ InRange /\ InOrder

(* No Push overwrites a message that has not been popped, whatever wraps: its *)
(* length and all of its payload are in memory as Write left them.            *)
UnreadIntact ==
  \A i \in 1 .. Len(unread) : \A p \in 0 .. Total(unread[i].msg) - 1 :
    mem[First(i) + p] = Image(unread[i].msg, p)

(* WorkerRoutine waits on size() == 0 and stops reading on used() == 0: the   *)
(* two counts, kept by different code, agree on emptiness and size() is the   *)
(* number of messages that Pop will still return.                             *)
CountsAgree ==
  /\ size = Len(unread)
  /\ used = 0 <=> size = 0

(* An empty buffer accepts any message that, with its length, takes less than *)
(* half of the block, wherever the earlier traffic left front_ and back_.     *)
(* (A longer one can be refused for ever by a buffer that holds nothing.)     *)
EmptyAcceptsSmall ==
  size = 0 => \A m \in Messages : LenOf[m] # 0 /\ 2 * Total(m) < Length
                                    => CanPush(m)

(* The buffer is a FIFO queue: Pop returns, byte for byte, the oldest message *)
(* that a Push accepted and that was not popped, and NULL only when there is  *)
(* none.                                                                      *)
Fifo == INSTANCE FifoQueue
          WITH queue <- [i \in 1 .. Len(unread) |-> unread[i].msg]

FifoSpec == Fifo!Spec
=============================================================================

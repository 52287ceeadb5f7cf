----------------------------- MODULE MemoryList -----------------------------
(***************************************************************************)
(* The slice allocator of udpserver (udpserver/src/base/memory_list.cc): a *)
(* region, usually a mapped file that outlives the process, holds a header *)
(* and slices of equal size; the slices are in one of two doubly linked    *)
(* lists, free and used, whose links are slice numbers.  A later process   *)
(* attaches with RestoreFrom to what an earlier one left, possibly over a  *)
(* region that is longer by then.                                          *)
(*                                                                         *)
(* All callers of one region pass the same slice_size.                     *)
(*                                                                         *)
(* The operators whose names begin with Bug are plausible errors in the    *)
(* one that follows them; each makes a property fail.                      *)
(***************************************************************************)
EXTENDS Integers, Sequences

CONSTANTS
  kHeaderSize, kSliceRealSize,   \* bytes of the header, and of a slice with links
  Lens,                          \* lengths of the region that callers pass
  MaxSlices,                     \* the most slices that fit in one of them
  SizeMod                        \* 2^w for the w bits of size_t

(* The number of slices that MakeSliceList lays out in l bytes. *)
BugSlicesIn(l) ==
  IF l < kHeaderSize THEN 0 ELSE (l - kHeaderSize + kSliceRealSize - 1) \div kSliceRealSize

SlicesIn(l) == IF l < kHeaderSize THEN 0 ELSE (l - kHeaderSize) \div kSliceRealSize

ASSUME SizeAssumption ==
  /\ kHeaderSize \in Nat \ {0} /\ kSliceRealSize \in Nat \ {0}
  /\ MaxSlices \in Nat /\ SizeMod \in Nat \ {0}
ASSUME LensAssumption ==
  Lens \subseteq 1 .. SizeMod - 1 /\ \A l \in Lens : SlicesIn(l) <= MaxSlices

VARIABLES
  magic, buffer_length, padding, size, free, used,   \* Header
  next, prev,                \* the links of each slice
  attached, len, capacity_,  \* the process: has it a MemoryList, end_ - start_
  ret,                       \* what the last call returned
  frees, useds, made         \* history: the slices of either list in order, and
                             \* the length of the region they were laid out in

header == <<magic, buffer_length, padding, size, free, used>>
mlVars == <<header, next, prev, attached, len, capacity_, frees, useds, made>>
vars == <<mlVars, ret>>

kInvalidSliceId == -1
Slices == 0 .. MaxSlices - 1
SliceIds == Slices \cup {kInvalidSliceId}

-----------------------------------------------------------------------------
(* A sequence without its k-th element. *)
Without(s, k) == [i \in 1 .. Len(s) - 1 |-> IF i < k THEN s[i] ELSE s[i + 1]]

(* Following the links from head forth, and back, one meets s. *)
Linked(s, head, forth, back) ==
  /\ \A i, j \in 1 .. Len(s) : s[i] = s[j] => i = j
  /\ head = IF s = <<>> THEN kInvalidSliceId ELSE s[1]
  /\ \A i \in 1 .. Len(s) :
       /\ forth[s[i]] = IF i = Len(s) THEN kInvalidSliceId ELSE s[i + 1]
       /\ back[s[i]] = IF i = 1 THEN kInvalidSliceId ELSE s[i - 1]

-----------------------------------------------------------------------------
BugMakeSliceList(l) ==
  LET n == SlicesIn(l)
  IN  /\ used' = kInvalidSliceId
      /\ next' = [s \in Slices |-> IF s = n - 1 THEN kInvalidSliceId
                                   ELSE IF s < n THEN s + 1 ELSE next[s]]
      /\ prev' = [s \in Slices |-> IF s < n THEN s - 1 ELSE prev[s]]
      /\ padding' = l - kHeaderSize - n * kSliceRealSize
      /\ free' = IF n = 0 THEN kInvalidSliceId ELSE 0
      /\ capacity_' = n + 1
      /\ frees' = [i \in 1 .. n |-> i - 1] /\ useds' = <<>> /\ made' = l

MakeSliceList(l) ==
  LET n == SlicesIn(l)
  IN  /\ used' = kInvalidSliceId
      /\ next' = [s \in Slices |-> IF s = n - 1 THEN kInvalidSliceId
                                   ELSE IF s < n THEN s + 1 ELSE next[s]]
      /\ prev' = [s \in Slices |-> IF s < n THEN s - 1 ELSE prev[s]]
      /\ padding' = l - kHeaderSize - n * kSliceRealSize
      /\ free' = IF n = 0 THEN kInvalidSliceId ELSE 0
      /\ capacity_' = n
      /\ frees' = [i \in 1 .. n |-> i - 1] /\ useds' = <<>> /\ made' = l

CreateFrom(l) ==
  /\ ~attached
  /\ \/ /\ l < kHeaderSize
        /\ ret' = <<"CreateFrom", FALSE>>
        /\ UNCHANGED mlVars
     \/ /\ l >= kHeaderSize
        /\ buffer_length' = l /\ magic' = TRUE /\ size' = 0
        /\ MakeSliceList(l)
        /\ attached' = TRUE /\ len' = l
        /\ ret' = <<"CreateFrom", TRUE>>

(* A region may be longer than it was, never shorter. *)
CanRestore(l) == l > kHeaderSize /\ magic /\ buffer_length <= l

BugRestoreFrom(l) ==
  /\ ~attached
  /\ CanRestore(l)
  /\ capacity_' = ((buffer_length - padding - kHeaderSize) % SizeMod) \div kSliceRealSize
  /\ attached' = TRUE /\ len' = l
  /\ ret' = <<"RestoreFrom", TRUE>>
  /\ UNCHANGED <<header, next, prev, frees, useds, made>>

RestoreFrom(l) ==
  /\ ~attached
  /\ \/ /\ ~CanRestore(l)
        /\ ret' = <<"RestoreFrom", FALSE>>
        /\ UNCHANGED mlVars
     \/ /\ CanRestore(l)
        /\ capacity_' = ((l - padding - kHeaderSize) % SizeMod) \div kSliceRealSize
        /\ attached' = TRUE /\ len' = l
        /\ ret' = <<"RestoreFrom", TRUE>>
        /\ UNCHANGED <<header, next, prev, frees, useds, made>>

(* The process ends, between two calls; the region stays. *)
Exit ==
  /\ attached /\ attached' = FALSE
  /\ ret' = <<"Exit">>
  /\ UNCHANGED <<header, next, prev, len, capacity_, frees, useds, made>>

(* The region is long enough for what was laid out in it.  Beyond that the   *)
(* calls touch foreign memory, and nothing is modelled or claimed.           *)
Usable == attached /\ made <= len

(* A slice taken from the free list goes to the front of the used list. *)
BugTake(id) ==
  /\ free' = next[id]
  /\ used' = id
  /\ next' = [next EXCEPT ![id] = used]
  /\ prev' = [s \in Slices |-> IF s = used THEN id
                               ELSE IF s = id THEN kInvalidSliceId ELSE prev[s]]
  /\ size' = size + 1
  /\ frees' = Tail(frees) /\ useds' = <<id>> \o useds

Take(id) ==
  /\ free' = next[id]
  /\ used' = id
  /\ next' = [next EXCEPT ![id] = used]
  /\ prev' = [s \in Slices |-> IF s = used THEN id
                               ELSE IF s \in {id, next[id]} THEN kInvalidSliceId
                               ELSE prev[s]]
  /\ size' = size + 1
  /\ frees' = Tail(frees) /\ useds' = <<id>> \o useds

GetSlice ==
  /\ Usable
  /\ \/ free = kInvalidSliceId /\ UNCHANGED mlVars
     \/ /\ free # kInvalidSliceId
        /\ Take(free)
        /\ UNCHANGED <<magic, buffer_length, padding, attached, len, capacity_, made>>
  /\ ret' = <<"GetSlice", free>>

(* A slice is unlinked from the used list, and put in the front of the free  *)
(* list.                                                                     *)
BugUnlink(id) ==
  /\ next' = [s \in Slices |-> IF s = prev[id] THEN next[id] ELSE next[s]]
  /\ prev' = [s \in Slices |-> IF s = free THEN id
                               ELSE IF s = id THEN kInvalidSliceId
                               ELSE IF s = next[id] THEN prev[id] ELSE prev[s]]
  /\ used' = IF used = id THEN next[id] ELSE used
  /\ free' = id
  /\ size' = size - 1

Unlink(id) ==
  /\ next' = [s \in Slices |-> IF s = id THEN free
                               ELSE IF s = prev[id] THEN next[id] ELSE next[s]]
  /\ prev' = [s \in Slices |-> IF s = free THEN id
                               ELSE IF s = id THEN kInvalidSliceId
                               ELSE IF s = next[id] THEN prev[id] ELSE prev[s]]
  /\ used' = IF used = id THEN next[id] ELSE used
  /\ free' = id
  /\ size' = size - 1

(* Callers free what GetSlice gave them, once. *)
FreeSlice(k) ==
  /\ Usable
  /\ Unlink(useds[k])
  /\ frees' = <<useds[k]>> \o frees /\ useds' = Without(useds, k)
  /\ ret' = <<"FreeSlice", useds[k]>>
  /\ UNCHANGED <<magic, buffer_length, padding, attached, len, capacity_, made>>

clear ==
  /\ Usable
  /\ size' = 0
  /\ MakeSliceList(len)
  /\ ret' = <<"clear">>
  /\ UNCHANGED <<magic, buffer_length, attached, len>>

Init ==
  /\ magic = FALSE /\ buffer_length = 0 /\ padding = 0 /\ size = 0 /\ free = 0 /\ used = 0
  /\ next = [s \in Slices |-> 0] /\ prev = [s \in Slices |-> 0]
  /\ attached = FALSE /\ len = 0 /\ capacity_ = 0
  /\ ret = <<"Exit">>
  /\ frees = <<>> /\ useds = <<>> /\ made = 0

Next ==
  \/ \E l \in Lens : CreateFrom(l) \/ RestoreFrom(l)
  \/ Exit \/ GetSlice \/ clear
  \/ \E k \in 1 .. Len(useds) : FreeSlice(k)

Spec == Init /\ [][Next]_vars

-----------------------------------------------------------------------------
TypeOK ==
  /\ magic \in BOOLEAN /\ buffer_length \in Nat /\ padding \in Nat /\ size \in Nat
  /\ free \in Int /\ used \in Int
  /\ next \in [Slices -> Int] /\ prev \in [Slices -> Int]
  /\ attached \in BOOLEAN /\ len \in Nat /\ capacity_ \in Nat
  /\ frees \in Seq(Slices) /\ useds \in Seq(Slices) /\ made \in Nat

(* The links of the region describe the two lists, through every order of    *)
(* GetSlice, FreeSlice, clear and restarts: no slice is in both lists or     *)
(* twice in one, none that was laid out is lost, and size() is the number of *)
(* slices that callers hold.                                                 *)
Lists ==
  magic =>
    /\ Linked(frees, free, next, prev)
    /\ Linked(useds, used, next, prev)
    /\ \A i \in 1 .. Len(frees), j \in 1 .. Len(useds) : frees[i] # useds[j]
    /\ \A s \in 0 .. SlicesIn(made) - 1 :
         (\E i \in 1 .. Len(frees) : frees[i] = s) \/ (\E j \in 1 .. Len(useds) : useds[j] = s)
    /\ size = Len(useds)
    /\ Len(frees) + Len(useds) = SlicesIn(made)

(* The assertions of FreeSlice: whatever slice a caller holds has a number   *)
(* below capacity_, also after the region has grown; and a slice at the head *)
(* of the used list has no predecessor.                                      *)
FreeAsserts ==
  Usable => \A k \in 1 .. Len(useds) : /\ useds[k] < capacity_
                                       /\ used = useds[k] => prev[useds[k]] = kInvalidSliceId

full == size = capacity_

(* When GetSlice has nothing to give, the list is full(), and the other way  *)
(* round, as long as the region has the length in which it was laid out.     *)
FullWhenMade == Usable /\ len = made => (free = kInvalidSliceId <=> full)

(* The same for a region of any length, as the unit test of MemoryList says. *)
ExhaustedIsFull == Usable /\ free = kInvalidSliceId => full

(* RestoreFrom accepts no region that is too short for the slices in it. *)
InRegion == attached => made <= len

(* What the list promises: a set of slices out of which GetSlice gives those *)
(* that nobody holds.                                                        *)
Allocator == INSTANCE SliceAllocator
               WITH held <- {useds[k] : k \in 1 .. Len(useds)},
                    slices <- {useds[k] : k \in 1 .. Len(useds)} \cup
                              {frees[k] : k \in 1 .. Len(frees)}

AllocatorSpec == Allocator!Spec
=============================================================================

--------------------------- MODULE SliceAllocator ---------------------------
(***************************************************************************)
(* What MemoryList promises its callers: GetSlice gives a slice that       *)
(* nobody holds, and -1 only when all of them are held; FreeSlice takes    *)
(* one back.  A restart changes nothing; CreateFrom and clear forget       *)
(* everything, and may change the number of slices.                        *)
(***************************************************************************)
EXTENDS Integers

CONSTANT MaxSlices

VARIABLES slices, held, ret

vars == <<slices, held, ret>>

Init == slices = {} /\ held = {} /\ ret = <<"Exit">>

GetSlice ==
  \/ /\ slices \subseteq held
     /\ ret' = <<"GetSlice", -1>> /\ UNCHANGED held
  \/ \E s \in slices \ held :
       /\ held' = held \cup {s} /\ ret' = <<"GetSlice", s>>

FreeSlice ==
  \E s \in held : held' = held \ {s} /\ ret' = <<"FreeSlice", s>>

Attach ==
  /\ ret' \in {"CreateFrom", "RestoreFrom"} \X BOOLEAN \cup {<<"Exit">>}
  /\ UNCHANGED held

Make ==
  /\ ret' \in {<<"CreateFrom", TRUE>>, <<"clear">>}
  /\ \E n \in 0 .. MaxSlices : slices' = 0 .. n - 1
  /\ held' = {}

Next == Make \/ (UNCHANGED slices /\ (GetSlice \/ FreeSlice \/ Attach))

Spec == Init /\ [][Next]_vars
=============================================================================

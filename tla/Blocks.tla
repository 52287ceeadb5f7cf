------------------------------- MODULE Blocks -------------------------------
(***************************************************************************)
(* RegionBasedAllocator among the libraries: the blocks it hands out.      *)
(***************************************************************************)
EXTENDS Integers, SideBySide

CONSTANTS BlockSizes, PageSize, MinClassSize, ClassNum, PageMax, RecordSize, LinkSize

ASSUME PageAllocatorAssumption ==
  BlockSizes \subseteq Nat /\ PageSize \in Nat /\ MinClassSize \in Nat \ {0} /\ ClassNum \in Nat

PA == INSTANCE PageAllocator WITH Sizes <- BlockSizes

BlocksInit == kind = "PageAllocator" /\ PA!Init

BlocksNext == kind = "PageAllocator" /\ PA!Next /\ UNCHANGED kind

BlocksSpec == BlocksInit /\ [][BlocksNext]_vars

\* RegionBasedAllocator: live blocks are apart and pages accounted for (PageAllocator!Agrees).
BlocksApart == kind = "PageAllocator" => PA!Agrees
=============================================================================

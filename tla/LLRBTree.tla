------------------------------ MODULE LLRBTree ------------------------------
(***************************************************************************)
(* The left-leaning red-black tree of udpserver/src/base/rbtree.h, a map   *)
(* kept in a MemoryList so that another process can restore it.            *)
(*                                                                         *)
(* A node is named by its key: a key is in at most one node and never      *)
(* changes, so the slice number adds nothing as long as no node is lost.   *)
(* Node 0 stands for kInvalidNodeId; its entry in n is what a null pointer *)
(* would reach, and is only reached after a failed assert (ok = FALSE).    *)
(* erase() of a key that is not there may drop nodes (see Delete): from    *)
(* then on the slices hold more than the tree and the model stops.         *)
(***************************************************************************)
EXTENDS Integers, Sequences, FiniteSetsExt, SequencesExt

CONSTANTS
  Keys,      \* the keys, positive integers ordered by comp_
  MaxSize    \* ml_->capacity()

VARIABLES
  obj,       \* the tree in the mapped memory
  ref        \* the keys a map would hold after the same calls

vars == <<obj, ref>>

NullNode == [c |-> "black", p |-> 0, l |-> 0, r |-> 0]

\* RBNode::Init
InitNode == [c |-> "red", p |-> 0, l |-> 0, r |-> 0]

\* CreateFrom: an empty tree in fresh memory.
CreateFrom ==
  [n |-> [k \in Keys \cup {0} |-> NullNode], root |-> 0, size |-> 0,
   ok |-> TRUE, thrown |-> FALSE, missed |-> FALSE]

Check(t, b) == [t EXCEPT !.ok = @ /\ b]
IsRed(t, i) == i # 0 /\ t.n[i].c = "red"
IsBlack(t, i) == i # 0 /\ t.n[i].c = "black"
Flipped(c) == IF c = "red" THEN "black" ELSE "red"
SetParent(t, i, p) == IF i = 0 THEN t ELSE [t EXCEPT !.n[i].p = p]

\* What the functions that return a NodeId hand back, with the memory they leave.
Ret(t, i) == [t |-> t, id |-> i]

RotateLeft(t, i) ==
  LET x == t.n[i].r
      a == SetParent(Check(t, IsRed(t, x)), t.n[x].l, i)
  IN Ret([a EXCEPT !.n[i] = [c |-> "red", p |-> x, l |-> @.l, r |-> t.n[x].l],
                   !.n[x] = [c |-> t.n[i].c, p |-> t.n[i].p, l |-> i, r |-> @.r]], x)

RotateRight(t, i) ==
  LET x == t.n[i].l
      a == SetParent(Check(t, IsRed(t, x)), t.n[x].r, i)
  IN Ret([a EXCEPT !.n[i] = [c |-> "red", p |-> x, l |-> t.n[x].r, r |-> @.r],
                   !.n[x] = [c |-> t.n[i].c, p |-> t.n[i].p, l |-> @.l, r |-> i]], x)

FlipColors(t, i) ==
  LET l == t.n[i].l  r == t.n[i].r
  IN [Check(t, l # 0 /\ r # 0)
        EXCEPT !.n[i].c = Flipped(@), !.n[l].c = Flipped(@), !.n[r].c = Flipped(@)]

\* The three steps of KeepBalance, on the node that is on top so far.
LeanLeft(a) == IF IsRed(a.t, a.t.n[a.id].r) THEN RotateLeft(a.t, a.id) ELSE a

LiftMiddle(a) ==
  LET l == a.t.n[a.id].l
  IN IF IsRed(a.t, l) /\ IsRed(a.t, a.t.n[l].l) THEN RotateRight(a.t, a.id) ELSE a

SplitFour(a) ==
  IF IsRed(a.t, a.t.n[a.id].l) /\ IsRed(a.t, a.t.n[a.id].r) THEN Ret(FlipColors(a.t, a.id), a.id) ELSE a

\* Mutant: the two red children of a 4-node are not split.
KeepBalanceNoFlip(t, i) == LiftMiddle(LeanLeft(Ret(t, i)))

KeepBalance(t, i) == SplitFour(LiftMiddle(LeanLeft(Ret(t, i))))

\* The child just returned by a recursive call is stored, and for Put told its parent.
SetL(a, i) == [a.t EXCEPT !.n[i].l = a.id]
SetR(a, i) == [a.t EXCEPT !.n[i].r = a.id]

RECURSIVE Put(_, _, _)
Put(t, i, key) ==
  CASE i = 0   -> Ret([t EXCEPT !.n[key] = InitNode, !.size = @ + 1], key)
    [] key < i -> LET a == Put(t, t.n[i].l, key)
                  IN KeepBalance(SetParent(SetL(a, i), a.id, i), i)
    [] key > i -> LET a == Put(t, t.n[i].r, key)
                  IN KeepBalance(SetParent(SetR(a, i), a.id, i), i)
    [] OTHER   -> Ret(t, i)

RECURSIVE Get(_, _, _)
Get(t, i, key) ==
  CASE i = 0 \/ i = key -> i
    [] i < key -> Get(t, t.n[i].r, key)
    [] i > key -> Get(t, t.n[i].l, key)

RECURSIVE GetMin(_, _)
GetMin(t, i) == IF t.n[i].l = 0 THEN i ELSE GetMin(t, t.n[i].l)

RECURSIVE GetMax(_, _)
GetMax(t, i) == IF t.n[i].r = 0 THEN i ELSE GetMax(t, t.n[i].r)

\* The climbs of GetPrev and GetNext along the parent links.
RECURSIVE ClimbL(_, _)
ClimbL(t, i) == LET p == t.n[i].p IN IF p # 0 /\ t.n[p].l = i THEN ClimbL(t, p) ELSE p

RECURSIVE ClimbR(_, _)
ClimbR(t, i) == LET p == t.n[i].p IN IF p # 0 /\ t.n[p].r = i THEN ClimbR(t, p) ELSE p

GetPrev(t, i) ==
  CASE i = 0        -> 0
    [] t.n[i].l # 0 -> GetMax(t, t.n[i].l)
    [] OTHER        -> ClimbL(t, i)

GetNext(t, i) ==
  CASE i = 0        -> 0
    [] t.n[i].r # 0 -> GetMin(t, t.n[i].r)
    [] OTHER        -> ClimbR(t, i)

\* ml_->FreeSlice, with the memset of the debug build.
FreeNode(t, i) == [t EXCEPT !.n[i] = NullNode, !.size = @ - 1]

\* RotateLeft or RotateRight and the second flip.
FlipAfter(a) == Ret(FlipColors(a.t, a.id), a.id)

MoveRedLeft(t, i) ==
  LET Borrow(u) ==
        LET r == u.n[i].r
        IN IF IsRed(u, u.n[r].l) THEN FlipAfter(RotateLeft(SetR(RotateRight(u, r), i), i)) ELSE Ret(u, i)
      l == t.n[i].l
  IN Borrow(FlipColors(Check(t, IsRed(t, i) /\ IsBlack(t, l) /\ ~IsRed(t, t.n[l].l)), i))

MoveRedRight(t, i) ==
  LET l == t.n[i].l  r == t.n[i].r
      Borrow(u) == IF IsRed(u, u.n[l].l) THEN FlipAfter(RotateRight(u, i)) ELSE Ret(u, i)
  IN Borrow(FlipColors(Check(t, l # 0 /\ IsBlack(t, r) /\ ~IsRed(t, t.n[r].r)), i))

\* A black child that is a 2-node: nothing below it to borrow from.
TwoNode(t, i) == IsBlack(t, i) /\ ~IsRed(t, t.n[i].l)

BorrowLeft(t, i) == IF TwoNode(t, t.n[i].l) THEN MoveRedLeft(t, i) ELSE Ret(t, i)
BorrowRight(a) == IF TwoNode(a.t, a.t.n[a.id].r) THEN MoveRedRight(a.t, a.id) ELSE a
LeanRight(t, i) == IF IsRed(t, t.n[i].l) THEN RotateRight(t, i) ELSE Ret(t, i)

RECURSIVE DeleteMin(_, _)
DeleteMin(t, i) ==
  LET Below(a) == KeepBalance(SetL(DeleteMin(a.t, a.t.n[a.id].l), a.id), a.id)
  IN IF t.n[i].l = 0 THEN Ret(FreeNode(Check(t, IsRed(t, i)), i), 0) ELSE Below(BorrowLeft(t, i))

\* The parent's link to i is redirected to j.
Relink(t, i, j) ==
  LET p == t.n[i].p
  IN CASE p = 0         -> t
       [] t.n[p].l = i  -> [t EXCEPT !.n[p].l = j]
       [] OTHER         -> [t EXCEPT !.n[p].r = j]

\* Node i and its successor s trade places, so that iterators of s stay valid.
SwapWithSuccessor(t, i, s) ==
  LET ni == t.n[i]  ns == t.n[s]
      a == SetParent(Relink(t, i, s), ni.l, s)
      far == LET b == SetParent(a, ni.r, s)
                 c == SetParent([Check(b, ns.p # 0 /\ b.n[ns.p].l = s)
                                   EXCEPT !.n[ns.p].l = i], ns.r, i)
             IN [c EXCEPT !.n[s] = [c |-> ni.c, p |-> c.n[i].p, l |-> ni.l, r |-> ni.r],
                          !.n[i] = [c |-> ns.c, p |-> c.n[s].p, l |-> ns.l, r |-> ns.r]]
      near == [SetParent(Check(a, ns.p = i), ns.r, i)
                 EXCEPT !.n[s] = [c |-> ni.c, p |-> ni.p, l |-> ni.l, r |-> i],
                        !.n[i] = [c |-> ns.c, p |-> s, l |-> 0, r |-> i]]
  IN IF s # ni.r THEN far ELSE near

Throw(t) == Ret([t EXCEPT !.thrown = TRUE], 0)

RECURSIVE Delete(_, _, _)
Delete(t, i, key) ==
  LET Left(a) ==
        LET Up(b) == IF b.t.thrown THEN b ELSE KeepBalance(SetL(b, a.id), a.id)
        IN Up(Delete(a.t, a.t.n[a.id].l, key))
      Here(b) ==
        LET s == GetMin(b.t, b.t.n[b.id].r)
            Unlink(u) == KeepBalance(SetR(DeleteMin(u, u.n[s].r), s), s)
        IN Unlink(SwapWithSuccessor(Check(b.t, s # 0 /\ b.t.n[s].l = 0), b.id, s))
      Right(b) ==
        LET Up(c) == IF c.t.thrown THEN c ELSE KeepBalance(SetR(c, b.id), b.id)
        IN IF b.t.n[b.id].r = 0 THEN Throw(b.t) ELSE Up(Delete(b.t, b.t.n[b.id].r, key))
      HereOrRight(b) == IF b.id = key THEN Here(b) ELSE Right(b)
      NotLeft(a) ==
        IF a.id = key /\ a.t.n[a.id].r = 0 THEN Ret(FreeNode(a.t, a.id), 0) ELSE HereOrRight(BorrowRight(a))
  IN CASE key >= i      -> NotLeft(LeanRight(t, i))
       [] t.n[i].l = 0  -> Throw(t)
       [] OTHER         -> Left(BorrowLeft(t, i))

Find(t, key) == Get(t, t.root, key)

\* The nodes begin(), ++, ... visits; m caps the walk should the links form a loop.
RECURSIVE Forward(_, _, _)
Forward(t, i, m) ==
  IF i = 0 \/ m = 0 THEN <<>> ELSE <<i>> \o Forward(t, GetNext(t, i), m - 1)

RECURSIVE Backward(_, _, _)
Backward(t, i, m) ==
  IF i = 0 \/ m = 0 THEN <<>> ELSE <<i>> \o Backward(t, GetPrev(t, i), m - 1)

Begin(t) == IF t.root = 0 THEN 0 ELSE GetMin(t, t.root)
RBegin(t) == IF t.root = 0 THEN 0 ELSE GetMax(t, t.root)

RECURSIVE Subtree(_, _)
Subtree(t, i) == IF i = 0 THEN {} ELSE {i} \cup Subtree(t, t.n[i].l) \cup Subtree(t, t.n[i].r)

-----------------------------------------------------------------------------

Blacken(t) == IF t.root = 0 THEN t ELSE [t EXCEPT !.n[t.root].c = "black"]

\* insert(), and operator[] of a key that is not there (MaxSize reached: end() or bad_alloc).
Insert(key) ==
  /\ obj.ok /\ ~obj.missed
  /\ Find(obj, key) = 0
  /\ obj.size # MaxSize
  /\ LET a == Put(obj, obj.root, key)
     IN obj' = Blacken([a.t EXCEPT !.root = a.id])
  /\ ref' = ref \cup {key}

Erase(key) ==
  /\ obj.ok /\ ~obj.missed
  /\ obj.root # 0
  /\ LET Caught(d) ==
           IF d.t.thrown THEN [d.t EXCEPT !.thrown = FALSE, !.missed = TRUE] ELSE [d.t EXCEPT !.root = d.id]
     IN obj' = Blacken(Caught(Delete([obj EXCEPT !.n[obj.root].c = "red"], obj.root, key)))
  /\ ref' = ref \ {key}

Clear ==
  /\ obj.ok /\ ~obj.missed
  /\ obj' = CreateFrom
  /\ ref' = {}

Init == obj = CreateFrom /\ ref = {}

Next ==
  \/ \E key \in Keys : Insert(key) \/ Erase(key)
  \/ Clear

Spec == Init /\ [][Next]_vars

-----------------------------------------------------------------------------

RECURSIVE BlackHeight(_, _)
BlackHeight(t, i) ==
  IF i = 0 THEN 0 ELSE BlackHeight(t, t.n[i].l) + (IF IsRed(t, i) THEN 0 ELSE 1)

\* No red right link, no two red links in a row, the same number of black links on every
\* way down, and parent links that lead back.
Balanced ==
  /\ ~IsRed(obj, obj.root)
  /\ obj.n[obj.root].p = 0
  /\ \A i \in ref : LET x == obj.n[i] IN
       /\ ~IsRed(obj, x.r)
       /\ ~(IsRed(obj, i) /\ IsRed(obj, x.l))
       /\ BlackHeight(obj, x.l) = BlackHeight(obj, x.r)
       /\ \A j \in {x.l, x.r} \ {0} : obj.n[j].p = i

\* Up to the first erase() of a key that is not there, insert, erase and clear leave the
\* keys a map would hold, iterated in order both ways, in a balanced left-leaning tree, and
\* no assert of the rotations or moves fails. After such an erase the tree may have lost
\* nodes that size() still counts, but holds no key it should not.
Agrees ==
  /\ Subtree(obj, obj.root) \subseteq ref
  /\ ~obj.missed =>
       /\ obj.ok
       /\ obj.size = Cardinality(ref)
       /\ Forward(obj, Begin(obj), MaxSize + 1) = SetToSortSeq(ref, <)
       /\ Backward(obj, RBegin(obj), MaxSize + 1) = SetToSortSeq(ref, >)
       /\ \A k \in Keys : Find(obj, k) = IF k \in ref THEN k ELSE 0
       /\ Balanced
=============================================================================

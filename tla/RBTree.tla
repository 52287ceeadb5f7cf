------------------------------- MODULE RBTree -------------------------------
(***************************************************************************)
(* The red-black tree of rbtree/rbtree.hpp. A node is named by its key and *)
(* 0 is NULL; the entry of 0 in n is what a null pointer would reach, and  *)
(* is only reached after a failed assert (ok = FALSE). Two defects halt    *)
(* the model: an erase that leaves the tree wrong (Skews), and the assert  *)
(* that inserting the root's own key runs into. Mapped values are left out.*)
(***************************************************************************)
EXTENDS Integers, Sequences, FiniteSetsExt, SequencesExt

CONSTANT Keys    \* positive integers, ordered by comp_

VARIABLES
  obj,           \* root_, size_ and the nodes
  ref            \* the keys a map would hold after the same calls

vars == <<obj, ref>>

NullNode == [c |-> "black", p |-> 0, l |-> 0, r |-> 0]

\* RBTree(): no node, no root.
Empty ==
  [n |-> [k \in Keys \cup {0} |-> NullNode], root |-> 0, size |-> 0,
   ok |-> TRUE, halt |-> "no"]

Check(t, b) == [t EXCEPT !.ok = @ /\ b]
IsRed(t, i) == i # 0 /\ t.n[i].c = "red"
IsBlack(t, i) == ~IsRed(t, i)
Children(t, i) == {t.n[i].l, t.n[i].r} \ {0}
SetColor(t, i, c) == [t EXCEPT !.n[i].c = c]
SetParent(t, i, p) == IF i = 0 THEN t ELSE [t EXCEPT !.n[i].p = p]

\* Mutant: root_ is forgotten.
ReplaceNoRoot(t, i, j) ==
  LET p == t.n[i].p
  IN CASE p = 0        -> t
       [] t.n[p].l = i -> [t EXCEPT !.n[p].l = j]
       [] OTHER        -> [t EXCEPT !.n[p].r = j]

\* Whatever points down to i, a link of its parent or root_, now points to j.
Replace(t, i, j) ==
  LET p == t.n[i].p
  IN CASE p = 0        -> [t EXCEPT !.root = j]
       [] t.n[p].l = i -> [t EXCEPT !.n[p].l = j]
       [] OTHER        -> [t EXCEPT !.n[p].r = j]

RECURSIVE Leftmost(_, _)
Leftmost(t, i) == IF i = 0 \/ t.n[i].l = 0 THEN i ELSE Leftmost(t, t.n[i].l)

RECURSIVE Rightmost(_, _)
Rightmost(t, i) == IF i = 0 \/ t.n[i].r = 0 THEN i ELSE Rightmost(t, t.n[i].r)

RECURSIVE ClimbL(_, _)
ClimbL(t, i) == LET p == t.n[i].p IN IF p # 0 /\ t.n[p].l = i THEN ClimbL(t, p) ELSE p

RECURSIVE ClimbR(_, _)
ClimbR(t, i) == LET p == t.n[i].p IN IF p # 0 /\ t.n[p].r = i THEN ClimbR(t, p) ELSE p

Predecessor(t, i) == IF t.n[i].l # 0 THEN Rightmost(t, t.n[i].l) ELSE ClimbL(t, i)
Successor(t, i) == IF t.n[i].r # 0 THEN Leftmost(t, t.n[i].r) ELSE ClimbR(t, i)

RotateLeft(t, i) ==
  LET x == t.n[i].r  y == t.n[x].l
      a == SetParent(Replace(Check(t, x # 0), i, x), y, i)
  IN [a EXCEPT !.n[x].p = t.n[i].p, !.n[x].l = i, !.n[i].p = x, !.n[i].r = y]

RotateRight(t, i) ==
  LET x == t.n[i].l  y == t.n[x].r
      a == SetParent(Replace(Check(t, x # 0), i, x), y, i)
  IN [a EXCEPT !.n[x].p = t.n[i].p, !.n[x].r = i, !.n[i].p = x, !.n[i].l = y]

\* One round of the loop of insert_fixup per call.
RECURSIVE InsertFixup(_, _)
InsertFixup(t, i) ==
  LET p  == t.n[i].p
      pp == t.n[p].p
      ps == IF t.n[pp].l = p THEN t.n[pp].r ELSE t.n[pp].l
      \* i hangs on the inner side of p: rotate it outside, i and p trade roles.
      inner == IF t.n[pp].l = p THEN t.n[p].r = i ELSE t.n[p].l = i
      a  == IF inner THEN SetColor(SetColor(t, i, t.n[p].c), p, "red") ELSE t
      b  == CASE ~inner          -> a
              [] t.n[pp].l = p   -> RotateLeft(a, p)
              [] OTHER           -> RotateRight(a, p)
      q  == IF inner THEN i ELSE p
      c  == SetColor(SetColor(b, q, b.n[pp].c), pp, "red")
  IN CASE i = t.root \/ IsBlack(t, p) -> SetColor(t, t.root, "black")
       [] pp = 0 -> Check(t, FALSE)
       [] OTHER ->
            IF IsRed(t, ps)
            THEN InsertFixup(SetColor(SetColor(SetColor(Check(t, IsBlack(t, pp)), pp, "red"),
                                               p, "black"), ps, "black"), pp)
            ELSE LET d == IF t.n[pp].l = p THEN RotateRight(c, pp)
                          ELSE RotateLeft(Check(c, t.n[pp].r = p), pp)
                 IN SetColor(d, d.root, "black")

InsertImpl(t, prev, key) ==
  LET node == [NullNode EXCEPT !.c = IF prev = 0 THEN "black" ELSE "red", !.p = prev]
      a == [t EXCEPT !.n[key] = node, !.size = @ + 1]
      b == CASE prev = 0   -> [a EXCEPT !.root = key]
             [] key < prev -> [a EXCEPT !.n[prev].l = key]
             [] OTHER      -> [a EXCEPT !.n[prev].r = key]
  IN IF IsRed(b, prev) THEN InsertFixup(b, key) ELSE b

\* The last two rotations of erase_fixup, on the side i hangs from.
BorrowFromSibling(t, i, p, s) ==
  IF t.n[p].l = i
  THEN LET a == IF IsRed(t, t.n[s].l)
                THEN RotateRight(SetColor(SetColor(t, t.n[s].l, "black"), s, "red"), s) ELSE t
           u == IF IsRed(t, t.n[s].l) THEN a.n[s].p ELSE s
           b == Check(a, IsBlack(a, a.n[u].l) /\ IsRed(a, a.n[u].r))
       IN RotateLeft(SetColor(SetColor(SetColor(b, u, b.n[p].c), b.n[u].r, "black"), p, "black"), p)
  ELSE LET a == IF IsRed(t, t.n[s].r)
                THEN RotateLeft(SetColor(SetColor(t, t.n[s].r, "black"), s, "red"), s) ELSE t
           u == IF IsRed(t, t.n[s].r) THEN a.n[s].p ELSE s
           b == Check(a, IsBlack(a, a.n[u].r) /\ IsRed(a, a.n[u].l))
       IN RotateRight(SetColor(SetColor(SetColor(b, u, b.n[p].c), b.n[u].l, "black"), p, "black"), p)

RECURSIVE EraseFixup(_, _)
EraseFixup(t, i) ==
  LET p == t.n[i].p
      s == IF t.n[p].l = i THEN t.n[p].r ELSE t.n[p].l
      Done(u) == SetColor(Check(u, u.root # 0), u.root, "black")
      a == SetColor(SetColor(Check(t, IsBlack(t, p) /\ Cardinality(Children(t, s)) = 2
                                      /\ \A x \in Children(t, s) : IsBlack(t, x)),
                             p, "red"), s, "black")
      b == SetColor(t, s, "red")
  IN CASE i = t.root \/ IsRed(t, i) -> Done(t)
       [] p = 0 \/ s = 0 -> Check(t, FALSE)
       [] IsRed(t, s) -> EraseFixup(IF s = t.n[p].r THEN RotateLeft(a, p) ELSE RotateRight(a, p), i)
       [] IsBlack(t, s) /\ \A x \in Children(t, s) : IsBlack(t, x) ->
            IF IsRed(t, p) THEN Done(SetColor(b, p, "black")) ELSE EraseFixup(b, p)
       [] OTHER -> Done(BorrowFromSibling(t, i, p, s))

\* Node i with two children and its successor s trade places; their colours do not.
SwapWithSuccessor(t, i, s) ==
  LET ni == t.n[i]  ns == t.n[s]
      near == LET a == SetParent(IF ni.p = 0 THEN t ELSE Replace(t, i, s), ns.r, i)
              IN [SetParent(Check(a, ns.l = 0), ni.l, s)
                    EXCEPT !.n[i] = [c |-> ni.c, p |-> s, l |-> ns.l, r |-> ns.r],
                           !.n[s] = [c |-> ns.c, p |-> ni.p, l |-> ni.l, r |-> i]]
      far == LET a == SetParent(SetParent(Replace(t, i, s), ni.l, s), ni.r, s)
                 b == [Check(a, ns.l = 0 /\ ns.p # 0 /\ t.n[ns.p].l = s) EXCEPT !.n[ns.p].l = i]
             IN [SetParent(b, ns.r, i)
                   EXCEPT !.n[i] = [c |-> ni.c, p |-> ns.p, l |-> ns.l, r |-> ns.r],
                          !.n[s] = [c |-> ns.c, p |-> ni.p, l |-> ni.l, r |-> ni.r]]
  IN IF ni.r = s THEN near ELSE far

\* The cases in which the trade leaves the tree wrong: root_ still names the erased
\* node, or the erased node and its successor had different colours.
Skews(t, i) ==
  LET s == Successor(t, i)
  IN /\ Cardinality(Children(t, i)) = 2
     /\ (t.n[i].r = s /\ i = t.root) \/ t.n[i].c # t.n[s].c

\* unlink_leaf, and the end of the black leaf case.
Unlink(t, i) == Replace(Check(t, t.n[i].p # 0), i, 0)

EraseImpl(t, i) ==
  LET two == Cardinality(Children(t, i)) = 2
      a == IF two THEN SwapWithSuccessor(t, i, Successor(t, i)) ELSE t
      child == CHOOSE x \in Children(a, i) : TRUE
      b == CASE t.root = i /\ IsBlack(t, i) /\ Children(t, i) = {} -> [t EXCEPT !.root = 0]
             [] IsRed(a, i) /\ Children(a, i) = {} -> IF a.root = i THEN a ELSE Unlink(a, i)
             [] IsBlack(a, i) /\ Cardinality(Children(a, i)) = 1 ->
                  SetColor(Replace(SetParent(Check(a, IsRed(a, child) /\ Children(a, child) = {}),
                                             child, a.n[i].p), i, child), child, "black")
             [] OTHER -> Unlink(EraseFixup(a, i), i)
  IN [b EXCEPT !.n[i] = NullNode, !.size = @ - 1,
               !.ok = @ /\ (two \/ IsBlack(t, i) \/ Children(t, i) = {}),
               !.halt = IF Skews(t, i) THEN "skewed" ELSE @]

RECURSIVE Descend(_, _, _)
Descend(t, i, key) ==
  CASE i = 0 \/ i = key -> i
    [] key < i -> Descend(t, t.n[i].l, key)
    [] OTHER   -> Descend(t, t.n[i].r, key)

Find(t, key) == Descend(t, t.root, key)

\* The last node on the way to where key belongs: prev of insert().
RECURSIVE Above(_, _, _)
Above(t, i, key) ==
  LET c == IF key < i THEN t.n[i].l ELSE t.n[i].r
  IN IF i = 0 \/ i = key \/ c = 0 \/ c = key THEN i ELSE Above(t, c, key)

\* The nodes an iterator visits from i; m caps the walk should the links form a loop.
RECURSIVE Forward(_, _, _)
Forward(t, i, m) ==
  IF i = 0 \/ m = 0 THEN <<>> ELSE <<i>> \o Forward(t, Successor(t, i), m - 1)

RECURSIVE Backward(_, _, _)
Backward(t, i, m) ==
  IF i = 0 \/ m = 0 THEN <<>> ELSE <<i>> \o Backward(t, Predecessor(t, i), m - 1)

-----------------------------------------------------------------------------

\* insert() and operator[]: a key that is there keeps its node, and the root's
\* own key runs into assert (prev == NULL).
Insert(key) ==
  /\ obj.ok /\ obj.halt = "no"
  /\ obj' = CASE Find(obj, key) = 0 -> InsertImpl(obj, Above(obj, obj.root, key), key)
              [] key = obj.root     -> [obj EXCEPT !.halt = "root key"]
              [] OTHER              -> obj
  /\ ref' = ref \cup {key}

\* erase(key), and erase(iter) at that key.
Erase(key) ==
  /\ obj.ok /\ obj.halt = "no"
  /\ obj' = IF Find(obj, key) = 0 THEN obj ELSE EraseImpl(obj, key)
  /\ ref' = ref \ {key}

Init == obj = Empty /\ ref = {}

Next == \E key \in Keys : Insert(key) \/ Erase(key)

Spec == Init /\ [][Next]_vars

-----------------------------------------------------------------------------

RECURSIVE BlackHeight(_, _)
BlackHeight(t, i) ==
  IF i = 0 THEN 0 ELSE BlackHeight(t, t.n[i].l) + (IF IsRed(t, i) THEN 0 ELSE 1)

\* The tree is the map it stands for, in both directions of iteration, and red-black.
Sound ==
  /\ obj.ok
  /\ obj.size = Cardinality(ref)
  /\ obj.root \in ref \cup {0}
  /\ Forward(obj, Leftmost(obj, obj.root), Cardinality(Keys) + 1) = SetToSortSeq(ref, <)
  /\ Backward(obj, Rightmost(obj, obj.root), Cardinality(Keys) + 1) = SetToSortSeq(ref, >)
  /\ \A k \in Keys : Find(obj, k) = IF k \in ref THEN k ELSE 0
  /\ IsBlack(obj, obj.root)
  /\ obj.n[obj.root].p = 0
  /\ \A i \in ref :
       /\ BlackHeight(obj, obj.n[i].l) = BlackHeight(obj, obj.n[i].r)
       /\ \A j \in Children(obj, i) : obj.n[j].p = i /\ ~(IsRed(obj, i) /\ IsRed(obj, j))

\* Any sequence of insert and erase leaves a sound tree, up to the first erase that
\* trades a node with a successor of the other colour or trades the root with its right
\* child: that one, and no other, leaves a tree that is not sound.
Agrees == obj.halt # "root key" => (Sound <=> obj.halt = "no")
=============================================================================

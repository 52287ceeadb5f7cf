---------------------------- MODULE PageAllocator ----------------------------
(***************************************************************************)
(* RegionBasedAllocator: blocks of a power of two bytes, cut from pages. A *)
(* table of Page records describes the pages; each size class (FreeList)   *)
(* has two pages of its own as list headers, and the pages with blocks to  *)
(* give hang in a ring from the second one.                                *)
(*                                                                         *)
(* Three of the links the code writes are not where it reads or owns them: *)
(* a page's free list keeps offsets from the heap's start but writes its   *)
(* links, and reads them back, relative to the page; the list of free      *)
(* pages writes the link of page i at byte i of the table; and             *)
(* Page::Allocate returns the offset after the block it took. "halt" names *)
(* the first time one of these meets memory in use, and the model stops.   *)
(***************************************************************************)
EXTENDS Integers, Sequences, FiniteSetsExt, Functions

CONSTANTS
  Sizes,        \* sizes asked for
  PageSize,     \* kPageSize
  MinClassSize, \* kMinClassSize
  ClassNum,     \* kSizeClassNum
  PageMax,      \* PageHeap::max_
  RecordSize,   \* sizeof(Page)
  LinkSize      \* sizeof(InplaceLinkNode)

VARIABLES
  obj,  \* page: the table; next, free: next_ and free_list_ of PageAllocator; halt
  ref   \* the live blocks: offset, class and the page they were taken from

vars == <<obj, ref>>

Nil == -1
Classes == 0 .. ClassNum - 1
ClassSize(cls) == MinClassSize * 2 ^ cls
RoundUpToPowerOfTwo(sz) == Min({2 ^ i : i \in {j \in 0 .. sz : 2 ^ j >= sz}})
SizeClass(pow) == Min({cls \in 0 .. pow : ClassSize(cls) >= pow})

\* FreeList::nonempty_ of a class; page 2 * cls is its empty_, which nothing reads again.
NonEmpty(cls) == 2 * cls + 1
FirstDataPage == 2 * ClassNum

Base(id) == PageSize * id
PageOf(offset) == offset \div PageSize

InitAllocatedPage(id) ==
  [inuse |-> TRUE, cls |-> Nil, ref |-> 0, next |-> Nil, prev |-> Nil, free |-> 0, free_list |-> Nil]

\* Allocator::Create with InitFreeList of every class.
Create ==
  [page |-> [id \in 0 .. FirstDataPage - 1 |->
               [InitAllocatedPage(id) EXCEPT !.next = id, !.prev = id]],
   next |-> FirstDataPage, free |-> <<>>, halt |-> "no"]

DLLEmpty(o, id) == o.page[id].next = id

DLLPrepend(o, list, id) ==
  LET old == o.page[list].next
      a == [o EXCEPT !.page[id].prev = list, !.page[id].next = old, !.page[list].next = id]
  IN [a EXCEPT !.page[old].prev = id]

DLLRemove(o, id) ==
  LET p == o.page[id]
      a == [o EXCEPT !.page[p.prev].next = p.next]
  IN [a EXCEPT !.page[p.next].prev = p.prev]

\* PageAllocator::Allocate
NewPage(o) == IF o.free = <<>> THEN o.next ELSE Head(o.free)

\* Mutant: next_ stays where it is.
AllocatePageAgain(o) ==
  LET id == NewPage(o)
      table == [i \in DOMAIN o.page \cup {id} |-> IF i = id THEN InitAllocatedPage(id) ELSE o.page[i]]
  IN [o EXCEPT !.page = table, !.free = IF @ = <<>> THEN @ ELSE Tail(@)]

AllocatePage(o) ==
  LET id == NewPage(o)
      table == [i \in DOMAIN o.page \cup {id} |-> IF i = id THEN InitAllocatedPage(id) ELSE o.page[i]]
  IN IF o.free = <<>> THEN [o EXCEPT !.page = table, !.next = @ + 1]
     ELSE [o EXCEPT !.page = table, !.free = Tail(@)]

\* PageAllocator::Deallocate: the link goes to bytes id .. id + LinkSize - 1 of the table,
\* which must not reach the record of page 1 nor the link of another free page.
DeallocatePage(o, id) ==
  [o EXCEPT !.page[id].inuse = FALSE, !.free = <<id>> \o @,
            !.halt = IF \/ id + LinkSize > RecordSize
                        \/ \E j \in Range(o.free) : id - j < LinkSize /\ j - id < LinkSize
                     THEN "page link" ELSE @]

\* The page FreeList::Allocate takes its block from, after the call that provides one.
WithPage(o, cls) ==
  IF ~DLLEmpty(o, NonEmpty(cls)) THEN o
  ELSE LET a == AllocatePage(o)
       IN DLLPrepend([a EXCEPT !.page[NewPage(o)].cls = cls], NonEmpty(cls), NewPage(o))

\* Page::Allocate of a full page: bad_alloc.
Refused(o, cls) ==
  /\ ~DLLEmpty(o, NonEmpty(cls))
  /\ LET p == o.page[o.page[NonEmpty(cls)].next] IN p.free_list = Nil /\ p.free = PageSize

PageAllocate(o, id) ==
  LET p == o.page[id]
  IN IF p.free_list = Nil THEN [o EXCEPT !.page[id].free = @ + ClassSize(p.cls), !.page[id].ref = @ + 1]
     ELSE [o EXCEPT !.page[id].ref = @ + 1, !.halt = "block link"]

AllocatedOffset(o, id) ==
  LET p == o.page[id]
  IN Base(id) + IF p.free_list = Nil THEN p.free + ClassSize(p.cls) ELSE p.free_list

\* Page::Deallocate: the link goes to Base(id) + offset.
PageDeallocate(o, id, offset) ==
  [o EXCEPT !.page[id].ref = @ - 1, !.page[id].free_list = offset,
            !.halt = IF \/ PageOf(Base(id) + offset) >= PageMax
                        \/ \E b \in ref : b.offset <= Base(id) + offset
                                       /\ Base(id) + offset < b.offset + ClassSize(b.cls)
                     THEN "link in use" ELSE @]

Allocate(sz) ==
  /\ obj.halt = "no" /\ sz <= PageSize
  /\ LET cls == SizeClass(RoundUpToPowerOfTwo(sz))
     IN IF cls >= ClassNum THEN obj' = [obj EXCEPT !.halt = "class"] /\ UNCHANGED ref
        ELSE /\ ~Refused(obj, cls)
             /\ LET a == WithPage(obj, cls)
                    id == a.page[NonEmpty(cls)].next
                IN /\ obj' = PageAllocate(a, id)
                   /\ ref' = ref \cup {[offset |-> AllocatedOffset(a, id), cls |-> cls, from |-> id]}

\* The page is looked up by the offset: for the last block of a page it is the next page,
\* which the asserts refuse, or which takes a block it never gave.
Deallocate(b) ==
  /\ obj.halt = "no"
  /\ LET id == PageOf(b.offset)
         a == PageDeallocate(obj, id, b.offset)
     IN obj' = IF id # b.from THEN [obj EXCEPT !.halt = "wrong page"]
               ELSE IF a.page[id].ref # 0 THEN a
               ELSE DLLRemove(DeallocatePage(a, id), id)
  /\ ref' = ref \ {b}

Init == obj = Create /\ ref = {}

Next == (\E sz \in Sizes : Allocate(sz)) \/ (\E b \in ref : Deallocate(b))

Spec == Init /\ [][Next]_vars

Data(o) == {id \in DOMAIN o.page : id >= FirstDataPage /\ o.page[id].inuse}

\* Until a link or a class meets memory it does not own, live blocks of a class do not
\* overlap, a page is in use exactly while blocks of it are live, it counts them and hangs
\* in the ring of its class, and a freed page is not in use.
Agrees == obj.halt = "no" =>
  /\ \A b, c \in ref : b # c =>
       \/ b.offset + ClassSize(b.cls) <= c.offset \/ c.offset + ClassSize(c.cls) <= b.offset
       \/ b.cls # c.cls
  /\ \A id \in Data(obj) :
       /\ obj.page[id].ref = Cardinality({b \in ref : b.from = id}) /\ obj.page[id].ref > 0
       /\ obj.page[id].next = NonEmpty(obj.page[id].cls)
       /\ obj.page[NonEmpty(obj.page[id].cls)].next = id
  /\ \A b \in ref : b.from \in Data(obj) /\ obj.page[b.from].cls = b.cls
  /\ \A id \in Range(obj.free) : ~obj.page[id].inuse
=============================================================================

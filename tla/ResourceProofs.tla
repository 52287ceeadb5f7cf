--------------------------- MODULE ResourceProofs ---------------------------
(***************************************************************************)
(* Proofs of two parts that hand out memory: lua_aio its buffers, and      *)
(* RegionBasedAllocator its blocks (Blocks).                               *)
(*                                                                         *)
(* LuaAio, for any handles, requests and number of slots. The              *)
(* argument: a request goes from the kernel to the queue of signals to     *)
(* done, and back never (Life); while laio_wait is in its loops the signal *)
(* is blocked, so that what it has seen as not done stays so until         *)
(* sigsuspend (Waits). No slot of a handle is ever filled (Slots), which   *)
(* is why collecting a handle cannot free a buffer that the kernel uses.   *)
(***************************************************************************)
EXTENDS LuaAio, Blocks, Sequences, TLAPS, WellFoundedInduction, FiniteSetTheorems

\* The time a leaf may take, which on a slow machine is more than the five seconds of the default.
USE SMTT(60)

Ended == {"completed", "failed"}

(* The part of the type invariant that the argument needs. *)
Types ==
  /\ infos \in [Handles -> [0 .. max_info_size - 1 -> Requests \cup {NULL}]]
  /\ handle \in [Requests -> Handles \cup {NULL}]
  /\ buf \in [Requests -> {"none", "malloc", "free"}]
  /\ gc \in [Requests -> BOOLEAN]
  /\ io \in [Requests -> {"idle", "inflight"} \cup Ended]
  /\ done \in [Requests -> BOOLEAN]
  /\ queued \subseteq Requests /\ table \subseteq Requests /\ left \subseteq table /\ ready \subseteq Requests

Slots == \A h \in Handles : \A i \in 0 .. max_info_size - 1 : infos[h][i] = NULL

Life ==
  \A r \in Requests :
    /\ handle[r] # NULL <=> io[r] # "idle"
    /\ io[r] \in Ended => (done[r] \/ r \in queued)
    /\ done[r] => io[r] \in Ended
    /\ r \in queued => io[r] \in Ended /\ ~done[r]

Waits ==
  /\ \A r \in table : handle[r] # NULL
  /\ pc \in {"all_scan", "all_suspend"} => blocked
  /\ pc = "all_scan" => \A r \in table \ left : done[r]
  /\ pc = "all_suspend" => \E r \in table : ~done[r]

IInv == Types /\ Slots /\ Life /\ Waits /\ ReportedDone /\ BufferKept

\* No handle is open and no request made.
LEMMA InitIInv == Init => IInv
<1> SUFFICES ASSUME Init PROVE IInv
  OBVIOUS
<1>1. Types /\ Slots
  BY DEF Init, Types, Slots
<1>2. Life
  BY DEF Init, Life, Ended
<1>3. Waits /\ ReportedDone /\ BufferKept
  BY DEF Init, Waits, ReportedDone, BufferKept
<1> QED
  BY <1>1, <1>2, <1>3 DEF IInv

(* laio_newhandle makes slots that are empty. *)
LEMMA NewHandleStep ==
  ASSUME IInv, NEW h \in Handles, NEW m \in Modes, laio_newhandle(h, m) PROVE IInv'
<1> USE DEF infoVars, kernelVars, waitVars
<1>1. Types' /\ Slots'
  BY DEF IInv, laio_newhandle, Types, Slots
<1>2. Life' /\ Waits' /\ ReportedDone' /\ BufferKept'
  BY DEF IInv, laio_newhandle, Life, Waits, ReportedDone, BufferKept
<1> QED
  BY <1>1, <1>2 DEF IInv

(* A request that starts has a buffer, and no wait and no signal knows it. *)
LEMMA StartStep ==
  ASSUME IInv, NEW h \in Handles, NEW r \in Requests, NEW m \in Modes, Start(h, r, m) PROVE IInv'
<1> USE DEF handleVars, waitVars
<1>0. /\ handle[r] = NULL /\ handle' = [handle EXCEPT ![r] = h] /\ buf' = [buf EXCEPT ![r] = "malloc"]
      /\ io' = [io EXCEPT ![r] = "inflight"] /\ UNCHANGED <<infos, gc, done, queued, blocked, pc, table, left, ready>>
  BY DEF Start
<1>1. Types /\ Slots /\ Life /\ Waits /\ ReportedDone /\ BufferKept /\ h # NULL
  BY NULLAssumption DEF IInv
<1>2. Types'
  BY <1>0, <1>1 DEF Types
<1>3. Slots' /\ ReportedDone'
  BY <1>0, <1>1 DEF Slots, ReportedDone
<1>4. Life'
  BY <1>0, <1>1 DEF Types, Life, Ended
<1>5. Waits'
  BY <1>0, <1>1 DEF Types, Waits
<1>6. BufferKept'
  BY <1>0, <1>1 DEF Types, BufferKept
<1> QED
  BY <1>2, <1>3, <1>4, <1>5, <1>6 DEF IInv

(* What is destroyed was reported by a wait, so that the kernel has done     *)
(* with it.                                                                  *)
LEMMA DeleteInfoStep ==
  ASSUME IInv, NEW r \in Requests, laio_deleteinfo(r) PROVE IInv'
<1> USE DEF kernelVars, waitVars
<1>0. /\ r \in ready /\ buf' = [buf EXCEPT ![r] = "free"] /\ gc' = [gc EXCEPT ![r] = TRUE]
      /\ infos' = [infos EXCEPT ![handle[r]][idx[r]] = NULL]
      /\ UNCHANGED <<handle, io, done, queued, blocked, pc, table, left, ready>>
  BY DEF laio_deleteinfo, cleanup_info
<1>1. Types /\ Slots /\ Life /\ Waits /\ ReportedDone /\ BufferKept
  BY DEF IInv
<1>2. io[r] # "inflight"
  BY <1>0, <1>1 DEF ReportedDone, Life, Ended
<1>3. infos' \in [Handles -> [0 .. max_info_size - 1 -> Requests \cup {NULL}]] /\ Slots'
  BY ZenonT(60), <1>0, <1>1 DEF Types, Slots
<1>4. Types'
  BY <1>0, <1>1, <1>3 DEF Types
<1>5. Life' /\ Waits' /\ ReportedDone'
  BY <1>0, <1>1 DEF Life, Waits, ReportedDone
<1>6. BufferKept'
  BY <1>0, <1>1, <1>2 DEF Types, BufferKept
<1> QED
  BY <1>3, <1>4, <1>5, <1>6 DEF IInv

(* The slots of a handle that is collected are empty: it frees no buffer. *)
LEMMA DeleteHandleStep ==
  ASSUME IInv, NEW h \in Handles, laio_deletehandle(h) PROVE IInv'
<1> USE DEF kernelVars, waitVars
<1> DEFINE rs == {infos[h][i] : i \in 0 .. max_info_size - 1} \ {NULL}
<1>0. /\ buf' = [r \in Requests |-> IF r \in rs THEN "free" ELSE buf[r]]
      /\ gc' = [r \in Requests |-> gc[r] \/ r \in rs]
      /\ infos' = [infos EXCEPT ![h] = [i \in 0 .. max_info_size - 1 |-> NULL]]
      /\ UNCHANGED <<handle, io, done, queued, blocked, pc, table, left, ready>>
  BY DEF laio_deletehandle
<1>1. Types /\ Slots /\ Life /\ Waits /\ ReportedDone /\ BufferKept
  BY DEF IInv
<1>2. rs = {}
  BY <1>1 DEF Slots
<1> HIDE DEF rs
<1>3. buf' = buf
  BY <1>0, <1>1, <1>2 DEF Types
<1>4. gc' \in [Requests -> BOOLEAN]
  BY <1>0, <1>2
<1>5. infos' \in [Handles -> [0 .. max_info_size - 1 -> Requests \cup {NULL}]] /\ Slots'
  BY <1>0, <1>1 DEF Types, Slots
<1>6. Types'
  BY <1>0, <1>1, <1>3, <1>4, <1>5 DEF Types
<1>7. Life' /\ Waits' /\ ReportedDone' /\ BufferKept'
  BY <1>0, <1>1, <1>3 DEF Life, Waits, ReportedDone, BufferKept
<1> QED
  BY <1>5, <1>6, <1>7 DEF IInv

\* The kernel completes a request and queues its signal.
LEMMA CompleteStep ==
  ASSUME IInv, NEW r \in Requests, Complete(r) PROVE IInv'
<1> USE DEF handleVars, infoVars, waitVars
<1>0. /\ io[r] = "inflight" /\ \E e \in Ended : io' = [io EXCEPT ![r] = e]
      /\ queued' = queued \cup {r}
      /\ UNCHANGED <<infos, handle, buf, gc, done, blocked, pc, table, left, ready>>
  BY DEF Complete, Ended
<1>1. Types /\ Slots /\ Life /\ Waits /\ ReportedDone /\ BufferKept
  BY DEF IInv
<1>2. Types'
  BY <1>0, <1>1 DEF Types
<1>3. Slots' /\ Waits' /\ ReportedDone'
  BY <1>0, <1>1 DEF Slots, Waits, ReportedDone
<1>4. Life'
  BY <1>0, <1>1 DEF Types, Life, Ended
<1>5. BufferKept'
  BY <1>0, <1>1 DEF Types, BufferKept, Ended
<1> QED
  BY <1>2, <1>3, <1>4, <1>5 DEF IInv

(* The handler marks the request that its signal is about; a request that a  *)
(* wait has reported stays marked.                                           *)
LEMMA HandlerStep ==
  ASSUME IInv, NEW r \in Requests, aio_completion_handler(r)
  PROVE  /\ Slots' /\ Life' /\ BufferKept' /\ infos' = infos /\ handle' = handle /\ buf' = buf /\ gc' = gc /\ io' = io
         /\ done' \in [Requests -> BOOLEAN] /\ queued' \subseteq Requests
         /\ \A x \in Requests : done[x] => done'[x]
<1> USE DEF handleVars, infoVars
<1>0. /\ r \in queued /\ queued' = queued \ {r} /\ done' = [done EXCEPT ![r] = TRUE]
      /\ UNCHANGED <<infos, handle, buf, gc, io>>
  BY DEF aio_completion_handler
<1>1. Types /\ Slots /\ Life /\ BufferKept
  BY DEF IInv
<1>2. done' \in [Requests -> BOOLEAN] /\ queued' \subseteq Requests
  BY <1>0, <1>1 DEF Types
<1>3. \A x \in Requests : done'[x] = IF x = r THEN TRUE ELSE done[x]
  BY <1>0, <1>1 DEF Types
<1>4. Life'
  BY Zenon, <1>0, <1>1, <1>3 DEF Life
<1>5. Slots' /\ BufferKept'
  BY <1>0, <1>1 DEF Slots, BufferKept
<1> QED
  BY <1>0, <1>2, <1>3, <1>4, <1>5

(* A signal that is not blocked comes at no point of laio_wait's loops. *)
LEMMA SignalStep ==
  ASSUME IInv, NEW r \in Requests, Signal(r) PROVE IInv'
<1>0. /\ ~blocked /\ aio_completion_handler(r) /\ UNCHANGED <<blocked, pc, table, left, ready>>
  BY DEF Signal, waitVars
<1>1. Types /\ Waits /\ ReportedDone
  BY DEF IInv
<1>2. /\ Slots' /\ Life' /\ BufferKept' /\ infos' = infos /\ handle' = handle /\ buf' = buf /\ gc' = gc /\ io' = io
      /\ done' \in [Requests -> BOOLEAN] /\ queued' \subseteq Requests
      /\ \A x \in Requests : done[x] => done'[x]
  BY <1>0, HandlerStep
<1>3. Types'
  BY <1>0, <1>1, <1>2 DEF Types
<1>4. Waits'
  BY <1>0, <1>1, <1>2 DEF Types, Waits
<1>5. ReportedDone'
  BY <1>0, <1>1, <1>2 DEF Types, ReportedDone
<1> QED
  BY <1>2, <1>3, <1>4, <1>5 DEF IInv

(* sigsuspend returns and the wait looks at its table again. *)
LEMMA SuspendedStep ==
  ASSUME IInv, NEW r \in Requests, AllSuspend(r) \/ OneSuspend(r) PROVE IInv'
<1>0. /\ aio_completion_handler(r) /\ left' = table /\ UNCHANGED <<blocked, table, ready>>
      /\ \/ pc = "all_suspend" /\ pc' = "all_scan"
         \/ pc' = "one_rescan"
  BY DEF AllSuspend, OneSuspend, Suspended
<1>1. Types /\ Waits /\ ReportedDone
  BY DEF IInv
<1>2. /\ Slots' /\ Life' /\ BufferKept' /\ infos' = infos /\ handle' = handle /\ buf' = buf /\ gc' = gc /\ io' = io
      /\ done' \in [Requests -> BOOLEAN] /\ queued' \subseteq Requests
      /\ \A x \in Requests : done[x] => done'[x]
  BY <1>0, HandlerStep
<1>3. Types'
  BY <1>0, <1>1, <1>2 DEF Types
<1>4. Waits'
  BY <1>0, <1>1, <1>2 DEF Types, Waits
<1>5. ReportedDone'
  BY <1>0, <1>1, <1>2 DEF Types, ReportedDone
<1> QED
  BY <1>2, <1>3, <1>4, <1>5 DEF IInv

(* Steps of a wait touch nothing but the state of the wait. *)
LEMMA LookStep ==
  ASSUME IInv, UNCHANGED <<infos, handle, buf, gc, io, done, queued>>,
         table' \subseteq Requests, left' \subseteq table', ready' \subseteq Requests, Waits', ReportedDone'
  PROVE  IInv'
<1>1. Types /\ Slots /\ Life /\ BufferKept
  BY DEF IInv
<1>2. Types'
  BY <1>1 DEF Types
<1>3. Slots' /\ Life' /\ BufferKept'
  BY <1>1 DEF Slots, Life, BufferKept
<1> QED
  BY <1>2, <1>3 DEF IInv

\* wait and waitone begin.
LEMMA WaitStep ==
  ASSUME IInv, NEW t \in SUBSET Started, Wait(t) \/ WaitOne(t) PROVE IInv'
<1>0. /\ table' = t /\ left' = t /\ ready' = ready /\ UNCHANGED <<infos, handle, buf, gc, io, done, queued>>
      /\ \/ pc' = "all_scan" /\ blocked' = TRUE
         \/ pc' = "one_scan"
  BY DEF Wait, WaitOne, handleVars, infoVars, kernelVars
<1>1. t \subseteq Requests /\ \A r \in t : handle[r] # NULL
  BY DEF Started
<1>2. Waits'
  BY <1>0, <1>1 DEF Waits
<1>3. ReportedDone' /\ ready \subseteq Requests
  BY <1>0 DEF IInv, Types, ReportedDone
<1> QED
  BY <1>0, <1>1, <1>2, <1>3, LookStep

(* laio_wait returns only when it has seen every request of the table done. *)
LEMMA AllScanStep ==
  ASSUME IInv, AllScan PROVE IInv'
<1>0. pc = "all_scan" /\ UNCHANGED <<infos, handle, buf, gc, io, done, queued>>
  BY DEF AllScan, handleVars, infoVars, kernelVars
<1>1. Types /\ Waits /\ ReportedDone
  BY DEF IInv
<1>2. CASE \E r \in left : done[r] /\ left' = left \ {r} /\ UNCHANGED <<blocked, pc, table, ready>>
  <2>1. Waits' /\ ReportedDone'
    BY <1>0, <1>1, <1>2 DEF Waits, ReportedDone
  <2> QED
    BY <1>0, <1>1, <1>2, <2>1, LookStep DEF Types
<1>3. CASE \E r \in left : ~done[r] /\ pc' = "all_suspend" /\ UNCHANGED <<blocked, table, left, ready>>
  <2>1. Waits' /\ ReportedDone'
    BY <1>0, <1>1, <1>3 DEF Waits, ReportedDone, Types
  <2> QED
    BY <1>0, <1>1, <1>3, <2>1, LookStep DEF Types
<1>4. CASE left = {} /\ Return(table)
  <2>1. pc' = "run" /\ table' = {} /\ left' = {} /\ ready' = ready \cup table
    BY <1>4 DEF Return
  <2>2. Waits' /\ ReportedDone'
    BY <1>0, <1>1, <1>4, <2>1 DEF Waits, ReportedDone
  <2> QED
    BY <1>0, <1>1, <2>1, <2>2, LookStep DEF Types
<1> QED
  BY <1>2, <1>3, <1>4 DEF AllScan

\* waitone looks at one request.
LEMMA OneScanStep ==
  ASSUME IInv, OneScan PROVE IInv'
<1>0. pc \in {"one_scan", "one_rescan"} /\ UNCHANGED <<infos, handle, buf, gc, io, done, queued>>
  BY DEF OneScan, handleVars, infoVars, kernelVars
<1>1. Types /\ Waits /\ ReportedDone
  BY DEF IInv
<1>2. CASE \E r \in left : done[r] /\ Return({r})
  <2>1. PICK r \in left : done[r] /\ Return({r})
    BY <1>2
  <2>2. pc' = "run" /\ table' = {} /\ left' = {} /\ ready' = ready \cup {r}
    BY <2>1 DEF Return
  <2>3. Waits' /\ ReportedDone'
    BY <1>0, <1>1, <2>1, <2>2 DEF Waits, ReportedDone
  <2> QED
    BY <1>0, <1>1, <2>2, <2>3, LookStep DEF Types
<1>3. CASE \E r \in left : ~done[r] /\ left' = left \ {r} /\ UNCHANGED <<blocked, pc, table, ready>>
  <2>1. Waits' /\ ReportedDone'
    BY <1>0, <1>1, <1>3 DEF Waits, ReportedDone
  <2> QED
    BY <1>0, <1>1, <1>3, <2>1, LookStep DEF Types
<1>4. CASE Return({})
  <2>1. pc' = "run" /\ table' = {} /\ left' = {} /\ ready' = ready
    BY <1>4 DEF Return
  <2>2. Waits' /\ ReportedDone'
    BY <1>0, <1>1, <2>1 DEF Waits, ReportedDone
  <2> QED
    BY <1>0, <1>1, <2>1, <2>2, LookStep DEF Types
<1>5. CASE pc' = "one_suspend" /\ UNCHANGED <<table, left, ready>>
  <2>1. Waits' /\ ReportedDone'
    BY <1>0, <1>1, <1>5 DEF Waits, ReportedDone
  <2> QED
    BY <1>0, <1>1, <1>5, <2>1, LookStep DEF Types
<1> QED
  BY <1>2, <1>3, <1>4, <1>5 DEF OneScan

\* Every step of the script, the kernel and the handler keeps the invariant.
LEMMA NextIInv == IInv /\ [Next]_aioVars => IInv'
<1> SUFFICES ASSUME IInv, [Next]_aioVars PROVE IInv'
  OBVIOUS
<1>1. CASE Script
  <2>1. CASE \E h \in Handles : laio_deletehandle(h)
    BY <2>1, DeleteHandleStep
  <2>2. CASE \E h \in Handles : \E m \in Modes : laio_newhandle(h, m)
    BY <2>2, NewHandleStep
  <2>3. CASE \E h \in Handles : \E r \in Requests : laio_read(h, r) \/ laio_write(h, r)
    BY <2>3, StartStep DEF laio_read, laio_write, Modes
  <2>4. CASE \E r \in Requests : laio_deleteinfo(r)
    BY <2>4, DeleteInfoStep
  <2>5. CASE \E t \in SUBSET Started : Wait(t) \/ WaitOne(t)
    BY <2>5, WaitStep
  <2> QED
    BY <1>1, <2>1, <2>2, <2>3, <2>4, <2>5 DEF Script
<1>2. CASE Waiting
  BY <1>2, AllScanStep, OneScanStep, SuspendedStep DEF Waiting
<1>3. CASE \E r \in Requests : Complete(r) \/ Signal(r)
  BY <1>3, CompleteStep, SignalStep
<1>4. CASE UNCHANGED aioVars
  BY <1>4, LookStep DEF aioVars, handleVars, infoVars, kernelVars, waitVars, IInv, Types, Waits, ReportedDone
<1> QED
  BY <1>1, <1>2, <1>3, <1>4 DEF Next

(* The invariant holds in every state of lua_aio. *)
THEOREM Inductive == Spec => []IInv
BY InitIInv, NextIInv, PTL DEF Spec

(* The requests that laio_wait or laio_waitone reports are done, as the      *)
(* assertion of retrieve has it, for any number of requests and handles.     *)
THEOREM ReportedDoneAlways == Spec => []ReportedDone
<1>1. IInv => ReportedDone
  BY DEF IInv
<1> QED
  BY <1>1, Inductive, PTL

(* laio_wait never sleeps in sigsuspend without a signal to come. *)
THEOREM WakeupComingAlways == Spec => []WakeupComing
<1>1. IInv => WakeupComing
  BY DEF IInv, Types, Waits, Life, WakeupComing, Ended
<1> QED
  BY <1>1, Inductive, PTL

(* No buffer is freed while the kernel uses it, whichever of the handle and  *)
(* the request is collected first.                                           *)
THEOREM BufferKeptAlways == Spec => []BufferKept
<1>1. IInv => BufferKept
  BY DEF IInv
<1> QED
  BY <1>1, Inductive, PTL

-----------------------------------------------------------------------------
(***************************************************************************)
(* RegionBasedAllocator. At most one page hangs in the ring of a class, so *)
(* its blocks all come from that page and each starts behind the others;   *)
(* the page counts them, and only the page of a call in progress (x) may   *)
(* count none.                                                             *)
(***************************************************************************)

\* A set of numbers has a least one.
LEMMA Least == ASSUME NEW T \in SUBSET Nat, T # {} PROVE \E m \in T : \A k \in T : m <= k
<1> DEFINE R == OpToRel(<, Nat)
<1>0. \A x, y \in Nat : y < x => <<y, x>> \in R
  BY Zenon DEF OpToRel
<1>1. \E x \in T : \A y \in T : ~ (<<y, x>> \in R)
  BY NatLessThanWellFounded, WFMin, Zenon
<1> HIDE DEF R
<1>2. \E x \in T : \A y \in T : ~ (y < x)
  BY <1>1, <1>0, Zenon
<1> QED
  BY <1>2

\* A power of two is the number of subsets of an interval, and so above its exponent.
\* A power of two is at least its exponent: a set of n elements has 2 ^ n subsets, the singletons among them.
LEMMA PowerFacts == ASSUME NEW n \in Nat PROVE 2 ^ n \in Nat /\ 2 ^ n >= n /\ 2 ^ n >= 1
<1> DEFINE S == 1 .. n
           f == [x \in S |-> {x}]
<1>1. IsFiniteSet(S) /\ Cardinality(S) = n
  <2>1. IsFiniteSet(S) /\ Cardinality(S) = IF 1 > n THEN 0 ELSE n - 1 + 1
    BY FS_Interval
  <2> QED
    BY <2>1
<1> HIDE DEF S
<1>2. IsFiniteSet(SUBSET S) /\ Cardinality(SUBSET S) = 2 ^ n
  BY <1>1, FS_SUBSET
<1>3. 2 ^ n \in Nat
  BY <1>2, FS_CardinalityType
<1>4. f \in Injection(S, SUBSET S)
  BY Zenon DEF Injection, IsInjective
<1> HIDE DEF f
<1>5. Cardinality(S) <= Cardinality(SUBSET S)
  BY <1>2, <1>4, FS_Injection
<1>6. Cardinality(SUBSET S) # 0
  BY <1>2, FS_EmptySet
<1> QED
  BY <1>1, <1>2, <1>3, <1>5, <1>6

\* The least element of a non-empty set of numbers belongs to it.
LEMMA MinFacts == ASSUME NEW T \in SUBSET Nat, T # {} PROVE PA!Min(T) \in T
<1>1. \E x \in T : \A y \in T : x <= y
  BY Least
<1> QED
  BY <1>1, Zenon DEF PA!Min

\* A product with a positive factor is no smaller than the other.
LEMMA TimesFacts == \A m \in Nat \ {0} : \A x \in Nat : m * x \in Nat /\ m * x >= x
  OBVIOUS

\* The blocks of a size class are not empty.
LEMMA ClassSizeFacts == ASSUME NEW cls \in Nat PROVE PA!ClassSize(cls) \in Nat /\ PA!ClassSize(cls) >= cls /\ PA!ClassSize(cls) > 0
<1>1. 2 ^ cls \in Nat /\ 2 ^ cls >= cls /\ 2 ^ cls >= 1
  BY PowerFacts
<1> DEFINE x == 2 ^ cls
<1> HIDE DEF x
<1>2. x \in Nat /\ x >= cls /\ x >= 1
  BY <1>1 DEF x
<1>3. PA!ClassSize(cls) = MinClassSize * x
  BY DEF x, PA!ClassSize
<1>4. MinClassSize * x \in Nat /\ MinClassSize * x >= x
  BY <1>2, PageAllocatorAssumption, TimesFacts
<1> QED
  BY <1>2, <1>3, <1>4

\* Every size has a size class, in the allocator or beyond its last.
LEMMA ClassFacts == ASSUME NEW sz \in Nat PROVE PA!SizeClass(PA!RoundUpToPowerOfTwo(sz)) \in Nat
<1> DEFINE J == {j \in 0 .. sz : 2 ^ j >= sz}
           P == {2 ^ i : i \in J}
           pow == PA!RoundUpToPowerOfTwo(sz)
           C == {cls \in 0 .. pow : PA!ClassSize(cls) >= pow}
<1>1. sz \in J
  BY PowerFacts
<1>2. P \subseteq Nat
  BY PowerFacts
<1>3. P # {}
  BY <1>1
<1>4. pow \in Nat
  <2>1. pow = PA!Min(P)
    BY Zenon DEF PA!RoundUpToPowerOfTwo
  <2> HIDE DEF P, pow
  <2> QED
    BY <1>2, <1>3, <2>1, MinFacts, Zenon
<1> HIDE DEF pow
<1>5. pow \in C
  <2>1. PA!ClassSize(pow) >= pow
    BY <1>4, ClassSizeFacts
  <2> QED
    BY <1>4, <2>1
<1>6. C \subseteq Nat
  BY <1>4
<1>7. PA!SizeClass(pow) = PA!Min(C)
  BY DEF PA!SizeClass
<1> HIDE DEF C
<1>8. PA!SizeClass(pow) \in Nat
  BY <1>5, <1>6, <1>7, MinFacts, Zenon
<1> QED
  BY <1>8 DEF pow

\* PageAllocator counts with the same Cardinality.
LEMMA SameCardinality == ASSUME NEW S PROVE PA!Cardinality(S) = Cardinality(S)
BY Zenon DEF Cardinality, PA!Cardinality

PageRecords == [inuse : BOOLEAN, cls : Int, ref : Int, next : Int, prev : Int, free : Int, free_list : Int]
Halts == {"no", "class", "wrong page", "page link", "block link", "link in use"}
HeapState(o) ==
  /\ o.next \in Nat /\ o.next >= PA!FirstDataPage
  /\ o \in [page : [0 .. o.next - 1 -> PageRecords], next : Nat, free : Seq(Nat), halt : Halts]

\* The free pages are data pages, each once, and not in use.
FreePages(o) ==
  /\ \A i \in 1 .. Len(o.free) : o.free[i] \in PA!FirstDataPage .. o.next - 1 /\ ~o.page[o.free[i]].inuse
  /\ \A i, j \in 1 .. Len(o.free) : o.free[i] = o.free[j] => i = j

\* Only page f hangs in the ring of header h, whose class is c.
Ring(o, h, c, f) ==
  /\ o.page[h].next = f /\ o.page[h].prev = f
  /\ f = h \/ (f \in PA!Data(o) /\ o.page[f].cls = c /\ o.page[f].next = h /\ o.page[f].prev = h)
Rings(o) == \A c \in PA!Classes : Ring(o, PA!NonEmpty(c), c, o.page[PA!NonEmpty(c)].next)

From(r, id) == {b \in r : b.from = id}
\* The page in the ring of its class counts its blocks; only page x may have none.
DataPage(o, r, x, id) ==
  /\ o.page[id].cls \in PA!Classes /\ o.page[PA!NonEmpty(o.page[id].cls)].next = id
  /\ o.page[id].free \in Nat /\ o.page[id].ref = Cardinality(From(r, id))
  /\ id # x => o.page[id].ref > 0
DataPages(o, r, x) == \A id \in PA!Data(o) : DataPage(o, r, x, id)

BlockRecords == [offset : Nat, cls : PA!Classes, from : Nat]
Blocks(o, r) ==
  /\ IsFiniteSet(r) /\ r \subseteq BlockRecords
  /\ \A b \in r : /\ b.from \in PA!Data(o) /\ o.page[b.from].cls = b.cls
                  /\ b.offset <= PA!Base(b.from) + o.page[b.from].free
Separate(r) ==
  \A b, c \in r : b # c /\ b.cls = c.cls =>
    b.offset + PA!ClassSize(b.cls) <= c.offset \/ c.offset + PA!ClassSize(c.cls) <= b.offset

HeapOk(o, r, x) == HeapState(o) /\ FreePages(o) /\ Rings(o) /\ DataPages(o, r, x) /\ Blocks(o, r) /\ Separate(r)

PageInv == /\ obj.halt = "no" => HeapOk(obj, ref, PA!Nil)

\* The list headers of the classes are pages before the first data page.
LEMMA Headers == ASSUME NEW c \in PA!Classes PROVE PA!NonEmpty(c) \in 0 .. PA!FirstDataPage - 1 /\ c \in Nat
BY PageAllocatorAssumption DEF PA!Classes, PA!NonEmpty, PA!FirstDataPage

\* Each class has a header of its own.
LEMMA HeadersDiffer == ASSUME NEW c \in PA!Classes, NEW d \in PA!Classes, PA!NonEmpty(c) = PA!NonEmpty(d) PROVE c = d
BY PageAllocatorAssumption DEF PA!Classes, PA!NonEmpty

\* The number of header pages.
LEMMA FirstData == PA!FirstDataPage \in Nat
BY PageAllocatorAssumption DEF PA!FirstDataPage

\* The invariant is what BlocksApart promises.
LEMMA PageInvAgrees == PageInv => PA!Agrees
<1> SUFFICES ASSUME HeapOk(obj, ref, PA!Nil), obj.halt = "no" PROVE PA!Agrees
  BY Zenon DEF PageInv, PA!Agrees
<1>1. /\ HeapState(obj) /\ FreePages(obj) /\ Rings(obj) /\ DataPages(obj, ref, PA!Nil) /\ Blocks(obj, ref) /\ Separate(ref)
  BY Zenon DEF HeapOk
<1>2. \A b, c \in ref : b # c =>
       \/ b.offset + PA!ClassSize(b.cls) <= c.offset \/ c.offset + PA!ClassSize(c.cls) <= b.offset
       \/ b.cls # c.cls
  BY <1>1, Zenon DEF Separate
<1>3. ASSUME NEW id \in PA!Data(obj)
      PROVE /\ obj.page[id].ref = Cardinality({b \in ref : b.from = id}) /\ obj.page[id].ref > 0
            /\ obj.page[id].next = PA!NonEmpty(obj.page[id].cls)
            /\ obj.page[PA!NonEmpty(obj.page[id].cls)].next = id
  <2>1. DataPage(obj, ref, PA!Nil, id) /\ id >= PA!FirstDataPage
    BY <1>1, Zenon DEF DataPages, PA!Data
  <2> DEFINE c == obj.page[id].cls
             h == PA!NonEmpty(c)
  <2>2. /\ c \in PA!Classes /\ obj.page[h].next = id
        /\ obj.page[id].ref = Cardinality({b \in ref : b.from = id}) /\ (id # PA!Nil => obj.page[id].ref > 0)
    BY <2>1, Zenon DEF DataPage, From
  <2>3. id # PA!Nil /\ id # h
    <3>1. h \in 0 .. PA!FirstDataPage - 1
      BY <2>2, Headers, Zenon
    <3>2. id \in Int
      BY <1>1 DEF HeapState, PA!Data
    <3> HIDE DEF h
    <3> QED
      BY <2>1, <3>1, <3>2, FirstData DEF PA!Nil
  <2>4. Ring(obj, h, c, id)
    BY <1>1, <2>2, Zenon DEF Rings
  <2>5. obj.page[id].next = h
    BY <2>3, <2>4, Zenon DEF Ring
  <2> QED
    BY <2>2, <2>3, <2>5, Zenon
<1>4. \A b \in ref : b.from \in PA!Data(obj) /\ obj.page[b.from].cls = b.cls
  BY <1>1, Zenon DEF Blocks
<1>5. \A id \in PA!Range(obj.free) : ~obj.page[id].inuse
  <2>1. obj.free \in Seq(Nat)
    BY <1>1 DEF HeapState
  <2>2. DOMAIN obj.free = 1 .. Len(obj.free)
    BY <2>1
  <2> QED
    BY <1>1, <2>2, Zenon DEF FreePages, PA!Range
<1>6. \A S : PA!Cardinality(S) = Cardinality(S)
  BY SameCardinality
<1> QED
  BY <1>2, <1>3, <1>4, <1>5, <1>6, Zenon DEF PA!Agrees

\* Allocator::Create leaves every ring empty and no data page.
LEMMA PageInit == PA!Init => PageInv
<1> SUFFICES ASSUME PA!Init PROVE HeapOk(obj, ref, PA!Nil)
  BY Zenon DEF PageInv
<1> DEFINE n == PA!FirstDataPage
           records == [id \in 0 .. n - 1 |-> [PA!InitAllocatedPage(id) EXCEPT !.next = id, !.prev = id]]
<1>1. ref = {} /\ obj = [page |-> records, next |-> n, free |-> <<>>, halt |-> "no"]
  BY Zenon DEF PA!Init, PA!Create
<1>2. n \in Nat
  BY FirstData
<1>3. records \in [0 .. n - 1 -> PageRecords]
  <2> SUFFICES ASSUME NEW id \in 0 .. n - 1 PROVE [PA!InitAllocatedPage(id) EXCEPT !.next = id, !.prev = id] \in PageRecords
    BY Zenon
  <2>1. PA!InitAllocatedPage(id) \in PageRecords
    BY DEF PA!InitAllocatedPage, PageRecords, PA!Nil
  <2>2. id \in Int
    OBVIOUS
  <2> QED
    BY <2>1, <2>2, Zenon DEF PageRecords
<1>4. \A id \in 0 .. n - 1 : records[id].next = id /\ records[id].prev = id
  BY Zenon DEF PA!InitAllocatedPage
<1> HIDE DEF records, n
<1>5. obj.page = records /\ obj.next = n /\ obj.free = <<>>
  BY <1>1
<1>6. HeapState(obj)
  <2>1. obj \in [page : [0 .. n - 1 -> PageRecords], next : Nat, free : Seq(Nat), halt : Halts]
    <3>1. <<>> \in Seq(Nat)
      OBVIOUS
    <3>2. "no" \in Halts
      BY Zenon DEF Halts
    <3> QED
      BY <1>1, <1>2, <1>3, <3>1, <3>2, Zenon
  <2>2. n >= n
    BY <1>2
  <2> QED
    BY <1>2, <1>5, <2>1, <2>2, Zenon DEF HeapState, n
<1>7. FreePages(obj)
  BY <1>5 DEF FreePages
<1>8. Rings(obj)
  BY <1>4, <1>5, Headers, Zenon DEF Rings, Ring, n
<1>9. PA!Data(obj) = {}
  BY <1>2, <1>3, <1>5 DEF PA!Data, n
<1>10. DataPages(obj, ref, PA!Nil) /\ Blocks(obj, ref) /\ Separate(ref)
  BY <1>1, <1>9, FS_EmptySet, Zenon DEF DataPages, Blocks, Separate
<1> QED
  BY <1>6, <1>7, <1>8, <1>10, Zenon DEF HeapOk

\* Page id of a is new: a data page that was not in use, and is not one of the free ones.
Provided(o, id, a) ==
  /\ HeapState(a) /\ FreePages(a) /\ a.halt = o.halt
  /\ id \in PA!FirstDataPage .. a.next - 1 /\ id \notin PA!Data(o) /\ a.page[id] = PA!InitAllocatedPage(id)
  /\ o.next <= a.next /\ \A j \in 0 .. a.next - 1 : j # id => j \in 0 .. o.next - 1 /\ a.page[j] = o.page[j]
  /\ \A i \in 1 .. Len(a.free) : a.free[i] # id

\* InitAllocatedPage counts nothing yet.
LEMMA InitPage ==
  ASSUME NEW id, NEW p, p = PA!InitAllocatedPage(id) PROVE p.inuse = TRUE /\ p.ref = 0 /\ p.free = 0
BY Zenon DEF PA!InitAllocatedPage

\* The data pages in use, of a heap with its table.
LEMMA DataMember ==
  ASSUME NEW o, HeapState(o), NEW j
  PROVE j \in PA!Data(o) <=> j \in 0 .. o.next - 1 /\ j >= PA!FirstDataPage /\ o.page[j].inuse
<1>1. DOMAIN o.page = 0 .. o.next - 1
  BY Zenon DEF HeapState
<1> QED
  BY <1>1, Zenon DEF PA!Data

\* PageAllocator::Allocate provides a page, from the free ones or from the heap.
LEMMA AllocatePageFacts ==
  ASSUME NEW o, HeapState(o), FreePages(o), NEW id, id = PA!NewPage(o), NEW a, a = PA!AllocatePage(o)
  PROVE Provided(o, id, a)
<1> DEFINE N == o.next
           records == [i \in DOMAIN o.page \cup {id} |-> IF i = id THEN PA!InitAllocatedPage(id) ELSE o.page[i]]
<1>1. /\ N \in Nat /\ N >= PA!FirstDataPage /\ PA!FirstDataPage \in Nat
      /\ o \in [page : [0 .. N - 1 -> PageRecords], next : Nat, free : Seq(Nat), halt : Halts]
  BY FirstData, Zenon DEF HeapState
<1>2. o.page \in [0 .. N - 1 -> PageRecords] /\ DOMAIN o.page = 0 .. N - 1 /\ o.free \in Seq(Nat)
  BY <1>1
<1>3. ASSUME id \in Int PROVE PA!InitAllocatedPage(id) \in PageRecords
  BY DEF PA!InitAllocatedPage, PageRecords, PA!Nil
<1>4. CASE o.free = <<>>
  <2>1. id = N /\ a = [o EXCEPT !.page = records, !.next = N + 1]
    BY <1>4, Zenon DEF PA!NewPage, PA!AllocatePage
  <2>2. records \in [0 .. N -> PageRecords] /\ records[id] = PA!InitAllocatedPage(id) /\ \A j \in 0 .. N - 1 : records[j] = o.page[j]
    <3>1. DOMAIN o.page \cup {id} = 0 .. N
      BY <1>1, <1>2, <2>1
    <3>2. PA!InitAllocatedPage(id) \in PageRecords
      BY <1>1, <1>3, <2>1
    <3>3. \A j \in 0 .. N : j # id => j \in 0 .. N - 1
      BY <1>1, <2>1
    <3>4. \A j \in 0 .. N - 1 : j # id /\ j \in 0 .. N
      BY <1>1, <2>1
    <3>5. id \in 0 .. N
      BY <1>1, <2>1
    <3> QED
      BY <1>2, <3>1, <3>2, <3>3, <3>4, <3>5, Zenon
  <2> HIDE DEF records
  <2>3. a.page = records /\ a.next = N + 1 /\ a.free = <<>> /\ a.halt = o.halt
    BY <1>1, <1>4, <2>1, Zenon
  <2>4. (N + 1) - 1 = N /\ N + 1 \in Nat /\ N + 1 >= PA!FirstDataPage /\ N \in PA!FirstDataPage .. (N + 1) - 1
    BY <1>1
  <2>5. HeapState(a)
    <3>1. a \in [page : [0 .. N -> PageRecords], next : Nat, free : Seq(Nat), halt : Halts]
      BY <1>1, <2>1, <2>2, <2>4, Zenon
    <3> QED
      BY <2>3, <2>4, <3>1, Zenon DEF HeapState
  <2>6. FreePages(a) /\ \A i \in 1 .. Len(a.free) : a.free[i] # id
    BY <2>3 DEF FreePages
  <2>7. id \notin PA!Data(o)
    BY <1>1, <1>2, <2>1 DEF PA!Data
  <2>8. \A j \in 0 .. N : j # id => j \in 0 .. N - 1
    BY <1>1, <2>1
  <2>9. o.next <= a.next
    BY <1>1, <2>3
  <2> QED
    BY <2>1, <2>2, <2>3, <2>4, <2>5, <2>6, <2>7, <2>8, <2>9, Zenon DEF Provided
<1>5. CASE o.free # <<>>
  <2> DEFINE t == Tail(o.free)
  <2>1. id = Head(o.free) /\ a = [o EXCEPT !.page = records, !.free = t]
    BY <1>5, Zenon DEF PA!NewPage, PA!AllocatePage
  <2>2. /\ id = o.free[1] /\ 1 \in 1 .. Len(o.free) /\ t \in Seq(Nat) /\ Len(t) = Len(o.free) - 1 /\ Len(o.free) \in Nat
        /\ \A i \in 1 .. Len(t) : t[i] = o.free[i + 1] /\ i + 1 \in 1 .. Len(o.free)
    BY <1>2, <1>5, <2>1
  <2> HIDE DEF t
  <2>3. id \in PA!FirstDataPage .. N - 1 /\ ~o.page[id].inuse
    <3>1. \A i \in 1 .. Len(o.free) : o.free[i] \in PA!FirstDataPage .. N - 1 /\ ~o.page[o.free[i]].inuse
      BY Zenon DEF FreePages
    <3> HIDE DEF N
    <3>2. o.free[1] \in PA!FirstDataPage .. N - 1 /\ ~o.page[o.free[1]].inuse
      BY <2>2, <3>1, Zenon
    <3> QED
      BY <2>2, <3>2, Zenon
  <2>4. id \in 0 .. N - 1
    BY <1>1, <2>3
  <2>5. records \in [0 .. N - 1 -> PageRecords] /\ records[id] = PA!InitAllocatedPage(id) /\ \A j \in 0 .. N - 1 : j # id => records[j] = o.page[j]
    <3>1. DOMAIN o.page \cup {id} = 0 .. N - 1
      BY <1>2, <2>4, Zenon
    <3>2. PA!InitAllocatedPage(id) \in PageRecords
      BY <1>3, <2>4
    <3> QED
      BY <1>2, <2>4, <3>1, <3>2, Zenon
  <2> HIDE DEF records
  <2>6. a.page = records /\ a.next = N /\ a.free = t /\ a.halt = o.halt
    BY <1>1, <2>1, Zenon
  <2>7. HeapState(a)
    <3>1. a \in [page : [0 .. N - 1 -> PageRecords], next : Nat, free : Seq(Nat), halt : Halts]
      BY <1>1, <2>1, <2>2, <2>5, Zenon
    <3> QED
      BY <1>1, <2>6, <3>1, Zenon DEF HeapState
  <2>8. \A i \in 1 .. Len(t) : t[i] # id
    <3> SUFFICES ASSUME NEW i \in 1 .. Len(t), t[i] = id PROVE FALSE
      OBVIOUS
    <3>1. \A k, j \in 1 .. Len(o.free) : o.free[k] = o.free[j] => k = j
      BY Zenon DEF FreePages
    <3>2. i + 1 \in 1 .. Len(o.free) /\ o.free[i + 1] = o.free[1]
      BY <2>2, Zenon
    <3>3. i + 1 = 1
      BY <2>2, <3>1, <3>2, Zenon
    <3> QED
      BY <3>3
  <2>9. FreePages(a)
    <3>1. ASSUME NEW i \in 1 .. Len(t) PROVE t[i] \in PA!FirstDataPage .. N - 1 /\ ~records[t[i]].inuse
      <4>1. t[i] \in PA!FirstDataPage .. N - 1 /\ ~o.page[t[i]].inuse
        BY <2>2, Zenon DEF FreePages
      <4>2. t[i] \in 0 .. N - 1
        BY <1>1, <4>1
      <4> QED
        BY <2>5, <2>8, <4>1, <4>2, Zenon
    <3>2. ASSUME NEW i \in 1 .. Len(t), NEW j \in 1 .. Len(t), t[i] = t[j] PROVE i = j
      <4>1. \A k, l \in 1 .. Len(o.free) : o.free[k] = o.free[l] => k = l
        BY Zenon DEF FreePages
      <4>2. i + 1 \in 1 .. Len(o.free) /\ j + 1 \in 1 .. Len(o.free) /\ o.free[i + 1] = o.free[j + 1]
        BY <2>2, <3>2, Zenon
      <4>3. i + 1 = j + 1
        BY <4>1, <4>2, Zenon
      <4> QED
        BY <4>3
    <3> QED
      BY <2>6, <3>1, <3>2, ZenonT(60) DEF FreePages
  <2>10. id \notin PA!Data(o)
    BY <2>3, Zenon DEF PA!Data
  <2>11. N <= N
    BY <1>1
  <2> QED
    BY <2>3, <2>5, <2>6, <2>7, <2>8, <2>9, <2>10, <2>11, Zenon DEF Provided
<1> QED
  BY <1>4, <1>5, Zenon

\* One record of the table changes.
PageChanged(o, id, p, a) ==
  /\ HeapState(a) /\ a.next = o.next /\ a.free = o.free /\ a.halt = o.halt /\ a.page[id] = p
  /\ \A j \in 0 .. o.next - 1 : j # id => a.page[j] = o.page[j]

\* An assignment to one record leaves the rest of the heap alone.
LEMMA PageSet ==
  ASSUME NEW o, HeapState(o), NEW id \in 0 .. o.next - 1, NEW p \in PageRecords, NEW a, a = [o EXCEPT !.page[id] = p]
  PROVE PageChanged(o, id, p, a)
<1> DEFINE N == o.next
<1>1. o \in [page : [0 .. N - 1 -> PageRecords], next : Nat, free : Seq(Nat), halt : Halts] /\ N >= PA!FirstDataPage
  BY Zenon DEF HeapState
<1> HIDE DEF N
<1>2. a \in [page : [0 .. N - 1 -> PageRecords], next : Nat, free : Seq(Nat), halt : Halts]
  BY <1>1, Zenon DEF N
<1>3. o.page \in [0 .. N - 1 -> PageRecords] /\ id \in 0 .. N - 1 /\ a.page = [o.page EXCEPT ![id] = p]
  BY <1>1, Zenon DEF N
<1>4. a.next = N /\ a.free = o.free /\ a.halt = o.halt /\ N \in Nat /\ o.next = N
  BY <1>1, Zenon DEF N
<1>5. a.page[id] = p /\ \A j \in 0 .. N - 1 : j # id => a.page[j] = o.page[j]
  BY <1>3, Zenon
<1>6. HeapState(a)
  BY <1>1, <1>2, <1>4, Zenon DEF HeapState
<1> QED
  BY <1>4, <1>5, <1>6, Zenon DEF PageChanged

\* Every page has a record.
LEMMA Record == ASSUME NEW o, HeapState(o), NEW id \in 0 .. o.next - 1 PROVE o.page[id] \in PageRecords
BY Zenon DEF HeapState

\* A page hung in an empty ring: it and the header point at each other.
Hung(o, h, c, id, a) ==
  /\ HeapState(a) /\ a.next = o.next /\ a.free = o.free /\ a.halt = o.halt
  /\ \A j \in 0 .. o.next - 1 : j # id /\ j # h => a.page[j] = o.page[j]
  /\ a.page[h].next = id /\ a.page[h].prev = id
  /\ a.page[id].next = h /\ a.page[id].prev = h /\ a.page[id].cls = c /\ a.page[id].inuse = o.page[id].inuse
  /\ a.page[id].ref = o.page[id].ref /\ a.page[id].free = o.page[id].free

\* DLLPrepend to an empty ring.
LEMMA Prepended ==
  ASSUME NEW o, HeapState(o), NEW id \in 0 .. o.next - 1, NEW h \in 0 .. o.next - 1, id # h, NEW c \in Int,
         o.page[h].next = h, NEW a, a = PA!DLLPrepend([o EXCEPT !.page[id].cls = c], h, id)
  PROVE Hung(o, h, c, id, a)
<1> DEFINE p == o.page[id]
           g == o.page[h]
           p1 == [p EXCEPT !.cls = c]
           p2 == [p1 EXCEPT !.prev = h]
           p3 == [p2 EXCEPT !.next = h]
           g1 == [g EXCEPT !.next = id]
           g2 == [g1 EXCEPT !.prev = id]
           b1 == [o EXCEPT !.page[id] = p1]
           b2 == [b1 EXCEPT !.page[id] = p2]
           b3 == [b2 EXCEPT !.page[id] = p3]
           b4 == [b3 EXCEPT !.page[h] = g1]
           b5 == [b4 EXCEPT !.page[h] = g2]
<1>1. p \in PageRecords /\ g \in PageRecords
  BY Record, Zenon
<1>0. id \in Int /\ h \in Int
  OBVIOUS
<1>2. p1 \in PageRecords /\ p2 \in PageRecords /\ p3 \in PageRecords /\ g1 \in PageRecords /\ g2 \in PageRecords
  BY <1>0, <1>1, Zenon DEF PageRecords
<1>3. /\ p3.next = h /\ p3.prev = h /\ p3.cls = c /\ p3.inuse = p.inuse /\ p3.ref = p.ref /\ p3.free = p.free
      /\ p3.free_list = p.free_list
      /\ g2.next = id /\ g2.prev = id
  BY <1>0, <1>1, Zenon DEF PageRecords
<1> DEFINE c1 == [o EXCEPT !.page[id].cls = c]
           c2 == [c1 EXCEPT !.page[id].prev = h]
           c3 == [c2 EXCEPT !.page[id].next = h]
           c4 == [c3 EXCEPT !.page[h].next = id]
           c5 == [c4 EXCEPT !.page[h].prev = id]
<1> HIDE DEF b1, b2, b3, b4, b5, c1, c2, c3, c4, c5, p, g, p1, p2, p3, g1, g2
<1>4. /\ HeapState(b1) /\ b1.next = o.next /\ b1.free = o.free /\ b1.halt = o.halt /\ b1.page[id] = p1
      /\ \A j \in 0 .. o.next - 1 : j # id => b1.page[j] = o.page[j]
  <2>1. b1 = [o EXCEPT !.page[id] = p1]
    BY Zenon DEF b1
  <2>2. PageChanged(o, id, p1, b1)
    BY <1>2, <2>1, PageSet, Zenon
  <2> QED
    BY <1>2, <2>2, Zenon DEF PageChanged
<1>5. /\ HeapState(b2) /\ b2.next = o.next /\ b2.free = o.free /\ b2.halt = o.halt /\ b2.page[id] = p2
      /\ \A j \in 0 .. o.next - 1 : j # id => b2.page[j] = o.page[j]
  <2>1. b2 = [b1 EXCEPT !.page[id] = p2]
    BY Zenon DEF b2
  <2>2. PageChanged(b1, id, p2, b2)
    BY <1>2, <1>4, <2>1, PageSet, Zenon
  <2> QED
    BY <1>2, <1>4, <2>2, Zenon DEF PageChanged
<1>6. /\ HeapState(b3) /\ b3.next = o.next /\ b3.free = o.free /\ b3.halt = o.halt /\ b3.page[id] = p3
      /\ \A j \in 0 .. o.next - 1 : j # id => b3.page[j] = o.page[j]
  <2>1. b3 = [b2 EXCEPT !.page[id] = p3]
    BY Zenon DEF b3
  <2>2. PageChanged(b2, id, p3, b3)
    BY <1>2, <1>5, <2>1, PageSet, Zenon
  <2> QED
    BY <1>2, <1>5, <2>2, Zenon DEF PageChanged
<1>7. /\ HeapState(b4) /\ b4.next = o.next /\ b4.free = o.free /\ b4.halt = o.halt /\ b4.page[h] = g1 /\ b4.page[id] = p3
      /\ \A j \in 0 .. o.next - 1 : j # id /\ j # h => b4.page[j] = o.page[j]
  <2>1. b4 = [b3 EXCEPT !.page[h] = g1]
    BY Zenon DEF b4
  <2>2. PageChanged(b3, h, g1, b4)
    BY <1>2, <1>6, <2>1, PageSet, Zenon
  <2> QED
    BY <1>2, <1>6, <2>2, Zenon DEF PageChanged
<1>8. /\ HeapState(b5) /\ b5.next = o.next /\ b5.free = o.free /\ b5.halt = o.halt /\ b5.page[h] = g2 /\ b5.page[id] = p3
      /\ \A j \in 0 .. o.next - 1 : j # id /\ j # h => b5.page[j] = o.page[j]
  <2>1. b5 = [b4 EXCEPT !.page[h] = g2]
    BY Zenon DEF b5
  <2>2. PageChanged(b4, h, g2, b5)
    BY <1>2, <1>7, <2>1, PageSet, Zenon
  <2> QED
    BY <1>2, <1>7, <2>2, Zenon DEF PageChanged
<1>9. c1 = b1
  BY Zenon DEF c1, b1, p1, p
<1>10. c2 = b2
  BY <1>4, <1>9, Zenon DEF c2, b2, p2
<1>11. c3 = b3
  BY <1>5, <1>10, Zenon DEF c3, b3, p3
<1>12. c4 = b4
  BY <1>6, <1>11, Zenon DEF c4, b4, g1, g
<1>13. c5 = b5
  BY <1>7, <1>12, Zenon DEF c5, b5, g2
<1>14. c1.page[h].next = h
  BY <1>4, <1>9, Zenon
<1>15. a = c5
  BY <1>14, Zenon DEF PA!DLLPrepend, c1, c2, c3, c4, c5
<1> QED
  BY <1>3, <1>8, <1>13, <1>15, Zenon DEF p, Hung

\* The page of the class's ring, its blocks given by r: what FreeList::Allocate finds or provides.
PageReady(a, r, id, c) == HeapOk(a, r, id) /\ id \in PA!Data(a) /\ a.page[id].cls = c

\* FreeList::Allocate has a page of its class, which it may have just taken.
LEMMA WithPageOk ==
  ASSUME NEW o, NEW r, HeapOk(o, r, PA!Nil), NEW c \in PA!Classes, NEW a, a = PA!WithPage(o, c),
         NEW id, id = a.page[PA!NonEmpty(c)].next
  PROVE PageReady(a, r, id, c)
<1> DEFINE h == PA!NonEmpty(c)
           F == PA!FirstDataPage
<1>1. /\ HeapState(o) /\ FreePages(o) /\ Rings(o) /\ DataPages(o, r, PA!Nil) /\ Blocks(o, r) /\ Separate(r)
  BY Zenon DEF HeapOk
<1>2. h \in 0 .. F - 1 /\ F \in Nat /\ o.next \in Nat /\ o.next >= F
  BY <1>1, Headers, FirstData, Zenon DEF HeapState
<1>3. CASE ~PA!DLLEmpty(o, h)
  <2>1. a = o /\ id = o.page[h].next /\ id # h
    BY <1>3, Zenon DEF PA!WithPage, PA!DLLEmpty
  <2>2. Ring(o, h, c, id)
    BY <1>1, <2>1, Zenon DEF Rings
  <2>3. id \in PA!Data(o) /\ o.page[id].cls = c
    BY <2>1, <2>2, Zenon DEF Ring
  <2>4. DataPages(o, r, id)
    <3> SUFFICES ASSUME NEW j \in PA!Data(o) PROVE DataPage(o, r, id, j)
      BY Zenon DEF DataPages
    <3>1. DataPage(o, r, PA!Nil, j)
      BY <1>1, Zenon DEF DataPages
    <3>2. j # PA!Nil
      BY <1>2 DEF PA!Data, PA!Nil
    <3> QED
      BY <3>1, <3>2, Zenon DEF DataPage
  <2> QED
    BY <1>1, <2>1, <2>3, <2>4, Zenon DEF HeapOk, PageReady
<1>4. CASE PA!DLLEmpty(o, h)
  <2> DEFINE n == PA!NewPage(o)
             b == PA!AllocatePage(o)
  <2>1. a = PA!DLLPrepend([b EXCEPT !.page[n].cls = c], h, n) /\ o.page[h].next = h
    BY <1>4, Zenon DEF PA!WithPage, PA!DLLEmpty
  <2>19. Provided(o, n, b)
    BY <1>1, AllocatePageFacts, Zenon
  <2> HIDE DEF n, b
  <2>2. /\ HeapState(b) /\ FreePages(b) /\ b.halt = o.halt
        /\ n \in F .. b.next - 1 /\ n \notin PA!Data(o) /\ b.page[n] = PA!InitAllocatedPage(n)
        /\ o.next <= b.next /\ \A j \in 0 .. b.next - 1 : j # n => j \in 0 .. o.next - 1 /\ b.page[j] = o.page[j]
        /\ \A i \in 1 .. Len(b.free) : b.free[i] # n
    BY <2>19, Zenon DEF Provided
  <2>3. b.next \in Nat
    BY <2>2, Zenon DEF HeapState
  <2>4. n \in 0 .. b.next - 1 /\ h \in 0 .. b.next - 1 /\ n # h /\ c \in Int /\ n \in Int
    <3>1. c \in Int
      BY Headers
    <3> HIDE DEF h, F
    <3> QED
      BY <1>2, <2>2, <2>3, <3>1
  <2>5. b.page[h].next = h
    BY <2>1, <2>2, <2>4, Zenon
  <2>6. /\ HeapState(a) /\ a.next = b.next /\ a.free = b.free /\ a.halt = b.halt
        /\ \A j \in 0 .. b.next - 1 : j # n /\ j # h => a.page[j] = b.page[j]
        /\ a.page[h].next = n /\ a.page[h].prev = n
        /\ a.page[n].next = h /\ a.page[n].prev = h /\ a.page[n].cls = c /\ a.page[n].inuse = b.page[n].inuse
        /\ a.page[n].ref = b.page[n].ref /\ a.page[n].free = b.page[n].free
    <3>1. HeapState(b) /\ a = PA!DLLPrepend([b EXCEPT !.page[n].cls = c], h, n)
      BY <2>1, <2>2, Zenon
    <3>2. Hung(b, h, c, n, a)
      BY <2>4, <2>5, <3>1, Prepended, Zenon
    <3> QED
      BY <3>2, Zenon DEF Hung
  <2>7. id = n
    BY <2>6, Zenon
  <2>8. b.page[n].inuse = TRUE /\ b.page[n].ref = 0 /\ b.page[n].free = 0
    BY <2>2, InitPage, ZenonT(60)
  <2>9. /\ \A j : j \in PA!Data(o) <=> j \in 0 .. o.next - 1 /\ j >= F /\ o.page[j].inuse
        /\ \A j : j \in PA!Data(a) <=> j \in 0 .. b.next - 1 /\ j >= F /\ a.page[j].inuse
    <3>1. HeapState(a) /\ a.next = b.next
      BY <2>6, Zenon
    <3> QED
      BY <1>1, <3>1, DataMember, Zenon
  <2>20. \A j \in 0 .. b.next - 1 : j # n /\ j # h => j \in 0 .. o.next - 1 /\ a.page[j] = o.page[j]
    BY <2>2, <2>6, ZenonT(60)
  <2>10. \A j \in PA!Data(o) : j \in 0 .. b.next - 1 /\ j # n /\ j # h /\ a.page[j] = o.page[j] /\ j \in PA!Data(a)
    <3> SUFFICES ASSUME NEW j \in PA!Data(o) PROVE j \in 0 .. b.next - 1 /\ j # n /\ j # h /\ a.page[j] = o.page[j] /\ j \in PA!Data(a)
      OBVIOUS
    <3>1. j \in 0 .. o.next - 1 /\ j >= F /\ o.page[j].inuse /\ j # n
      BY <2>2, <2>9, Zenon
    <3>2. j \in 0 .. b.next - 1 /\ j # h
      <4> HIDE DEF h, F
      <4> QED
        BY <1>2, <2>2, <2>3, <3>1
    <3> QED
      BY <2>9, <2>20, <3>1, <3>2, Zenon
  <2>11. \A j \in PA!Data(a) : j = n \/ j \in PA!Data(o)
    <3> SUFFICES ASSUME NEW j \in PA!Data(a), j # n PROVE j \in PA!Data(o)
      OBVIOUS
    <3>1. j \in 0 .. b.next - 1 /\ j >= F /\ a.page[j].inuse
      BY <2>9, Zenon
    <3>2. j # h
      <4> HIDE DEF h, F
      <4> QED
        BY <1>2, <3>1
    <3> QED
      BY <2>9, <2>20, <3>1, <3>2, Zenon
  <2>12. n \in PA!Data(a)
    <3>1. n >= F
      BY <1>2, <2>2, <2>3
    <3> QED
      BY <2>4, <2>6, <2>8, <2>9, <3>1, Zenon
  <2>13. FreePages(a)
    <3>1. ASSUME NEW i \in 1 .. Len(b.free) PROVE b.free[i] \in F .. b.next - 1 /\ ~a.page[b.free[i]].inuse
      <4>1. b.free[i] \in F .. b.next - 1 /\ ~b.page[b.free[i]].inuse /\ b.free[i] # n
        BY <2>2, Zenon DEF FreePages
      <4>2. b.free[i] \in 0 .. b.next - 1 /\ b.free[i] # h
        <5> HIDE DEF h, F
        <5> QED
          BY <1>2, <2>3, <4>1
      <4> QED
        BY <2>6, <4>1, <4>2, Zenon
    <3>2. \A i, j \in 1 .. Len(b.free) : b.free[i] = b.free[j] => i = j
      BY <2>2, Zenon DEF FreePages
    <3>3. a.next = b.next /\ a.free = b.free
      BY <2>6, Zenon
    <3> QED
      BY <3>1, <3>2, <3>3, ZenonT(60) DEF FreePages
  <2>14. ASSUME NEW d \in PA!Classes, d # c
         PROVE PA!NonEmpty(d) # h /\ PA!NonEmpty(d) # n /\ PA!NonEmpty(d) \in 0 .. b.next - 1 /\ a.page[PA!NonEmpty(d)] = o.page[PA!NonEmpty(d)]
    <3> DEFINE g == PA!NonEmpty(d)
    <3>1. g \in 0 .. F - 1 /\ g # h
      BY <2>14, Headers, HeadersDiffer, Zenon
    <3>2. g \in 0 .. b.next - 1 /\ g # n
      <4> HIDE DEF g, F
      <4> QED
        BY <1>2, <2>2, <2>3, <3>1
    <3> QED
      BY <2>20, <3>1, <3>2, Zenon
  <2>15. Rings(a)
    <3> SUFFICES ASSUME NEW d \in PA!Classes PROVE Ring(a, PA!NonEmpty(d), d, a.page[PA!NonEmpty(d)].next)
      BY Zenon DEF Rings
    <3>1. CASE d = c
      BY <2>6, <2>12, <3>1, Zenon DEF Ring
    <3>2. CASE d # c
      <4> DEFINE g == PA!NonEmpty(d)
      <4>1. Ring(o, g, d, o.page[g].next)
        BY <1>1, Zenon DEF Rings
      <4> QED
        BY <2>10, <2>14, <3>2, <4>1, Zenon DEF Ring
    <3> QED
      BY <3>1, <3>2, Zenon
  <2>16. \A x \in r : x.from # n /\ x.from \in PA!Data(o)
    BY <1>1, <2>2, Zenon DEF Blocks
  <2>17. DataPages(a, r, id)
    <3> SUFFICES ASSUME NEW j \in PA!Data(a) PROVE DataPage(a, r, n, j)
      BY <2>7, Zenon DEF DataPages
    <3>1. CASE j = n
      <4>1. From(r, n) = {}
        BY <2>16, Zenon DEF From
      <4>2. Cardinality({}) = 0 /\ 0 \in Nat
        BY FS_EmptySet
      <4> QED
        BY <2>6, <2>8, <3>1, <4>1, <4>2, ZenonT(60) DEF DataPage
    <3>2. CASE j # n
      <4>1. j \in PA!Data(o) /\ a.page[j] = o.page[j]
        BY <2>10, <2>11, <3>2, Zenon
      <4>2. DataPage(o, r, PA!Nil, j)
        BY <1>1, <4>1, Zenon DEF DataPages
      <4>3. j # PA!Nil
        BY <1>2, <4>1 DEF PA!Data, PA!Nil
      <4>4. o.page[j].cls # c
        <5> SUFFICES ASSUME o.page[j].cls = c PROVE FALSE
          OBVIOUS
        <5>1. o.page[h].next = j
          BY <4>2, Zenon DEF DataPage
        <5> QED
          BY <2>1, <2>10, <4>1, <5>1, Zenon
      <4>5. a.page[PA!NonEmpty(o.page[j].cls)] = o.page[PA!NonEmpty(o.page[j].cls)]
        BY <2>14, <4>2, <4>4, Zenon DEF DataPage
      <4> QED
        BY <4>1, <4>2, <4>3, <4>5, Zenon DEF DataPage
    <3> QED
      BY <3>1, <3>2, Zenon
  <2>18. Blocks(a, r)
    BY <1>1, <2>10, Zenon DEF Blocks
  <2> QED
    BY <1>1, <2>2, <2>6, <2>7, <2>12, <2>13, <2>15, <2>17, <2>18, Zenon DEF HeapOk, PageReady
<1> QED
  BY <1>3, <1>4, Zenon

\* Only counters of data page id differ.
Touched(a, id, q) ==
  /\ HeapState(q) /\ q.next = a.next /\ q.free = a.free
  /\ \A j \in 0 .. a.next - 1 : j # id => q.page[j] = a.page[j]
  /\ q.page[id].inuse = a.page[id].inuse /\ q.page[id].cls = a.page[id].cls
  /\ q.page[id].next = a.page[id].next /\ q.page[id].prev = a.page[id].prev
TouchedKept(a, q) ==
  /\ FreePages(q) /\ Rings(q)
  /\ \A j : j \in PA!Data(q) <=> j \in PA!Data(a)
  /\ \A d \in PA!Classes : q.page[PA!NonEmpty(d)] = a.page[PA!NonEmpty(d)]

\* A change of a page's counters moves no page.
LEMMA TouchedKeeps ==
  ASSUME NEW a, HeapState(a), FreePages(a), Rings(a), NEW id \in PA!Data(a), NEW q, Touched(a, id, q)
  PROVE TouchedKept(a, q)
<1> DEFINE F == PA!FirstDataPage
<1>1. /\ HeapState(q) /\ q.next = a.next /\ q.free = a.free
      /\ \A j \in 0 .. a.next - 1 : j # id => q.page[j] = a.page[j]
      /\ \A j \in 0 .. a.next - 1 : /\ q.page[j].inuse = a.page[j].inuse /\ q.page[j].cls = a.page[j].cls
                                    /\ q.page[j].next = a.page[j].next /\ q.page[j].prev = a.page[j].prev
  BY Zenon DEF Touched
<1>2. F \in Nat /\ a.next \in Nat /\ a.next >= F
  BY FirstData, Zenon DEF HeapState
<1>3. id \in 0 .. a.next - 1 /\ id >= F
  BY DataMember, Zenon
<1>4. \A j : j \in PA!Data(q) <=> j \in PA!Data(a)
  <2>1. HeapState(q) /\ q.next = a.next
    BY <1>1, Zenon
  <2>2. /\ \A j : j \in PA!Data(q) <=> j \in 0 .. a.next - 1 /\ j >= F /\ q.page[j].inuse
        /\ \A j : j \in PA!Data(a) <=> j \in 0 .. a.next - 1 /\ j >= F /\ a.page[j].inuse
    BY <2>1, DataMember, Zenon
  <2> QED
    BY <1>1, <2>2, Zenon
<1>5. ASSUME NEW d \in PA!Classes PROVE q.page[PA!NonEmpty(d)] = a.page[PA!NonEmpty(d)]
  <2> DEFINE g == PA!NonEmpty(d)
  <2>1. g \in 0 .. F - 1
    BY Headers, Zenon
  <2>2. g \in 0 .. a.next - 1 /\ g # id
    <3> HIDE DEF g, F
    <3> QED
      BY <1>2, <1>3, <2>1
  <2> QED
    BY <1>1, <2>2, Zenon
<1>6. FreePages(q)
  <2>1. ASSUME NEW i \in 1 .. Len(a.free) PROVE a.free[i] \in F .. a.next - 1 /\ ~q.page[a.free[i]].inuse
    <3>1. a.free[i] \in F .. a.next - 1 /\ ~a.page[a.free[i]].inuse
      BY Zenon DEF FreePages
    <3>2. a.free[i] \in 0 .. a.next - 1
      BY <1>2, <3>1
    <3> QED
      BY <1>1, <3>1, <3>2, Zenon
  <2>2. \A i, j \in 1 .. Len(a.free) : a.free[i] = a.free[j] => i = j
    BY Zenon DEF FreePages
  <2>3. q.next = a.next /\ q.free = a.free
    BY <1>1, Zenon
  <2> QED
    BY <2>1, <2>2, <2>3, Zenon DEF FreePages
<1>7. Rings(q)
  <2> SUFFICES ASSUME NEW d \in PA!Classes PROVE Ring(q, PA!NonEmpty(d), d, q.page[PA!NonEmpty(d)].next)
    BY Zenon DEF Rings
  <2> DEFINE g == PA!NonEmpty(d)
             f == a.page[g].next
  <2>1. q.page[g] = a.page[g]
    BY <1>5, Zenon
  <2>2. Ring(a, g, d, f)
    BY Zenon DEF Rings
  <2>3. ASSUME f \in PA!Data(a) PROVE f \in PA!Data(q) /\ f \in 0 .. a.next - 1
    BY <1>4, <2>3, DataMember, Zenon
  <2> QED
    BY <1>1, <2>1, <2>2, <2>3, Zenon DEF Ring
<1> QED
  BY <1>4, <1>5, <1>6, <1>7, Zenon DEF TouchedKept

\* Blocks of a class come from one page.
LEMMA OnePage ==
  ASSUME NEW o, NEW r, NEW x, DataPages(o, r, x), Blocks(o, r), NEW id \in PA!Data(o), NEW b \in r, b.cls = o.page[id].cls
  PROVE b.from = id
<1>1. b.from \in PA!Data(o) /\ o.page[b.from].cls = b.cls
  BY Zenon DEF Blocks
<1>2. DataPage(o, r, x, id) /\ DataPage(o, r, x, b.from)
  BY <1>1, Zenon DEF DataPages
<1> QED
  BY <1>1, <1>2, Zenon DEF DataPage

\* Where a page starts.
LEMMA BaseFacts == ASSUME NEW id \in Nat PROVE PA!Base(id) \in Nat
BY PageAllocatorAssumption DEF PA!Base

\* A block given later starts behind the end of those before.
LEMMA OffsetOrder ==
  ASSUME NEW base \in Nat, NEW free \in Nat, NEW size \in Nat, size > 0, NEW off \in Nat, off <= base + free
  PROVE off + size <= base + (free + size) /\ off # base + (free + size) /\ off <= base + (free + size)
OBVIOUS

\* Page::Allocate past the blocks it has given: the new block ends beyond all of its class.
LEMMA PageAllocateOk ==
  ASSUME NEW a, NEW r, NEW id, HeapOk(a, r, id), id \in PA!Data(a), a.page[id].free_list = PA!Nil,
         NEW q, q = PA!PageAllocate(a, id),
         NEW k, k = [offset |-> PA!AllocatedOffset(a, id), cls |-> a.page[id].cls, from |-> id]
  PROVE HeapOk(q, r \cup {k}, PA!Nil)
<1> DEFINE p == a.page[id]
           c == p.cls
           size == PA!ClassSize(c)
           free == p.free
           base == PA!Base(id)
           s == r \cup {k}
           p1 == [p EXCEPT !.free = free + size]
           p2 == [p1 EXCEPT !.ref = p1.ref + 1]
           b1 == [a EXCEPT !.page[id] = p1]
           b2 == [b1 EXCEPT !.page[id] = p2]
<1>1. HeapState(a) /\ FreePages(a) /\ Rings(a) /\ DataPages(a, r, id) /\ Blocks(a, r) /\ Separate(r)
  BY Zenon DEF HeapOk
<1>2. id \in 0 .. a.next - 1 /\ p \in PageRecords
  BY <1>1, DataMember, Record, Zenon
<1>3. DataPage(a, r, id, id)
  BY <1>1, Zenon DEF DataPages
<1>4. free \in Nat /\ c \in PA!Classes /\ p.ref = Cardinality(From(r, id)) /\ a.page[PA!NonEmpty(c)].next = id
  BY <1>3, Zenon DEF DataPage
<1>5. c \in Nat /\ size \in Nat /\ size > 0
  BY <1>4, Headers, ClassSizeFacts, Zenon
<1>6. id \in Nat
  BY <1>2
<1>7. base \in Nat
  BY <1>6, BaseFacts, Zenon
<1>8. k.offset = base + (free + size) /\ k.cls = c /\ k.from = id /\ k.offset \in Nat
  <2>1. k.offset = base + (free + size) /\ k.cls = c /\ k.from = id
    BY Zenon DEF PA!AllocatedOffset
  <2> HIDE DEF base, free, size
  <2> QED
    BY <1>4, <1>5, <1>7, <2>1
<1>9. k \in BlockRecords
  BY <1>4, <1>6, <1>8, Zenon DEF BlockRecords
<1>10. free + size \in Nat /\ free + size \in Int /\ p1.ref = p.ref /\ p.ref \in Int /\ p1.ref + 1 \in Int
  <2>1. p1.ref = p.ref /\ p.ref \in Int
    BY <1>2, Zenon DEF PageRecords
  <2> HIDE DEF p, p1, free, size
  <2> QED
    BY <1>4, <1>5, <2>1
<1>11. p1 \in PageRecords /\ p2 \in PageRecords
  BY <1>2, <1>10, Zenon DEF PageRecords
<1>12. p2.inuse = p.inuse /\ p2.cls = p.cls /\ p2.next = p.next /\ p2.prev = p.prev /\ p2.free = free + size /\ p2.ref = p.ref + 1
  BY <1>2, <1>10, Zenon DEF PageRecords
<1>13. q = b2
  <2>1. q = [[a EXCEPT !.page[id].free = free + size] EXCEPT !.page[id].ref = @ + 1]
    BY ZenonT(60) DEF PA!PageAllocate
  <2>2. [a EXCEPT !.page[id].free = free + size] = b1
    BY Zenon
  <2>4. b1 = [a EXCEPT !.page[id] = p1] /\ p1 \in PageRecords
    BY <1>11, Zenon
  <2> HIDE DEF b1, p1
  <2>3. b1.page[id] = p1
    <3>1. PageChanged(a, id, p1, b1)
      BY <1>1, <1>2, <2>4, PageSet, Zenon
    <3> QED
      BY <3>1, Zenon DEF PageChanged
  <2> QED
    BY <2>1, <2>2, <2>3, Zenon
<1> HIDE DEF p1, p2, b1, b2, base, size, free
<1>14. PageChanged(a, id, p1, b1)
  BY <1>1, <1>2, <1>11, PageSet, Zenon DEF b1
<1>15. HeapState(b1) /\ b1.next = a.next
  BY <1>14, Zenon DEF PageChanged
<1>16. PageChanged(b1, id, p2, q)
  BY <1>2, <1>11, <1>13, <1>15, PageSet, Zenon DEF b2
<1>17. q.page[id] = p2 /\ Touched(a, id, q)
  <2>1. /\ HeapState(q) /\ q.next = b1.next /\ q.free = b1.free /\ q.page[id] = p2
        /\ \A j \in 0 .. b1.next - 1 : j # id => q.page[j] = b1.page[j]
    BY <1>16, Zenon DEF PageChanged
  <2>2. /\ b1.next = a.next /\ b1.free = a.free
        /\ \A j \in 0 .. a.next - 1 : j # id => b1.page[j] = a.page[j]
    BY <1>14, Zenon DEF PageChanged
  <2> QED
    BY <1>12, <2>1, <2>2, Zenon DEF Touched
<1>18. TouchedKept(a, q) /\ HeapState(q)
  BY <1>1, <1>17, TouchedKeeps, Zenon DEF Touched
<1>19. \A j \in PA!Data(a) : j # id => q.page[j] = a.page[j]
  <2>1. \A j \in PA!Data(a) : j \in 0 .. a.next - 1
    BY <1>1, DataMember, Zenon
  <2> QED
    BY <1>17, <2>1, Zenon DEF Touched
<1>20. \A b \in r : b.offset \in Nat
  BY <1>1, Zenon DEF Blocks, BlockRecords
<1>21. ASSUME NEW b \in r, b.from = id
       PROVE b.offset + size <= k.offset /\ b # k /\ b.offset <= k.offset
  <2>1. b.offset \in Nat /\ b.offset <= base + free
    BY <1>1, <1>20, <1>21, Zenon DEF Blocks, base, free
  <2>2. b.offset + size <= base + (free + size) /\ b.offset # base + (free + size) /\ b.offset <= base + (free + size)
    BY <1>4, <1>5, <1>7, <2>1, OffsetOrder, Zenon
  <2> QED
    BY <1>8, <2>2, Zenon
<1>22. k \notin r
  BY <1>8, <1>21, Zenon
<1>23. DataPages(q, s, PA!Nil)
  <2> SUFFICES ASSUME NEW j \in PA!Data(q) PROVE DataPage(q, s, PA!Nil, j)
    BY Zenon DEF DataPages
  <2>1. j \in PA!Data(a)
    BY <1>18, Zenon DEF TouchedKept
  <2>2. DataPage(a, r, id, j)
    BY <1>1, <2>1, Zenon DEF DataPages
  <2>3. CASE j # id
    <3>1. q.page[j] = a.page[j]
      BY <1>19, <2>1, <2>3, Zenon
    <3>2. From(s, j) = From(r, j)
      BY <1>8, <2>3, Zenon DEF From
    <3>3. a.page[j].cls \in PA!Classes
      BY <2>2, Zenon DEF DataPage
    <3>4. q.page[PA!NonEmpty(a.page[j].cls)] = a.page[PA!NonEmpty(a.page[j].cls)]
      BY <1>18, <3>3, Zenon DEF TouchedKept
    <3> QED
      BY <2>2, <2>3, <3>1, <3>2, <3>4, Zenon DEF DataPage
  <2>4. CASE j = id
    <3>1. IsFiniteSet(r) /\ From(r, id) \subseteq r
      BY <1>1, Zenon DEF Blocks, From
    <3>2. IsFiniteSet(From(r, id))
      BY <3>1, FS_Subset, Zenon
    <3>3. From(s, id) = From(r, id) \cup {k} /\ k \notin From(r, id)
      BY <1>8, <1>22, Zenon DEF From
    <3>4. Cardinality(From(s, id)) = Cardinality(From(r, id)) + 1 /\ Cardinality(From(r, id)) \in Nat
      <4> DEFINE T == From(r, id)
      <4> HIDE DEF T
      <4>1. IsFiniteSet(T) /\ k \notin T /\ From(s, id) = T \cup {k}
        BY <3>2, <3>3, Zenon DEF T
      <4>2. Cardinality(T \cup {k}) = Cardinality(T) + 1
        BY <4>1, FS_AddElement, Zenon
      <4>3. Cardinality(T) \in Nat
        BY <4>1, FS_CardinalityType, Zenon
      <4> QED
        BY <4>1, <4>2, <4>3, Zenon DEF T
    <3>5. p2.ref = Cardinality(From(s, id))
      BY <1>4, <1>12, <3>4, Zenon
    <3>6. Cardinality(From(s, id)) > 0
      BY <3>4
    <3>7. q.page[PA!NonEmpty(c)] = a.page[PA!NonEmpty(c)]
      BY <1>4, <1>18, Zenon DEF TouchedKept
    <3> QED
      BY <1>4, <1>10, <1>12, <1>17, <2>4, <3>5, <3>6, <3>7, Zenon DEF DataPage
  <2> QED
    BY <2>3, <2>4, Zenon
<1>24. Blocks(q, s)
  <2>1. IsFiniteSet(s)
    BY <1>1, FS_AddElement, Zenon DEF Blocks
  <2>2. s \subseteq BlockRecords
    BY <1>1, <1>9, Zenon DEF Blocks
  <2>3. ASSUME NEW b \in s
        PROVE b.from \in PA!Data(q) /\ q.page[b.from].cls = b.cls /\ b.offset <= PA!Base(b.from) + q.page[b.from].free
    <3>1. CASE b = k
      <4>1. k.offset <= base + p2.free
        <5>1. k.offset = base + p2.free
          BY <1>8, <1>12, Zenon
        <5>2. \A n \in Nat : n <= n
          OBVIOUS
        <5> QED
          BY <1>8, <5>1, <5>2, Zenon
      <4>2. id \in PA!Data(q)
        BY <1>18, Zenon DEF TouchedKept
      <4> QED
        BY <1>8, <1>12, <1>17, <3>1, <4>1, <4>2, Zenon DEF base
    <3>2. CASE b \in r
      <4>1. b.from \in PA!Data(a) /\ a.page[b.from].cls = b.cls /\ b.offset <= PA!Base(b.from) + a.page[b.from].free
        BY <1>1, <3>2, Zenon DEF Blocks
      <4>2. b.from \in PA!Data(q)
        BY <1>18, <4>1, Zenon DEF TouchedKept
      <4>3. CASE b.from = id
        BY <1>8, <1>12, <1>17, <1>21, <3>2, <4>1, <4>2, <4>3, ZenonT(60) DEF base
      <4>4. CASE b.from # id
        BY <1>19, <4>1, <4>2, <4>4, Zenon
      <4> QED
        BY <4>3, <4>4, Zenon
    <3> QED
      BY <3>1, <3>2, Zenon
  <2> QED
    BY <2>1, <2>2, <2>3, Zenon DEF Blocks
<1>25. ASSUME NEW b \in r, b.cls = c PROVE b.offset + PA!ClassSize(b.cls) <= k.offset
  <2>1. b.from = id
    BY <1>1, <1>25, OnePage, ZenonT(60)
  <2> QED
    BY <1>21, <1>25, <2>1, Zenon DEF size
<1>26. Separate(s)
  <2> SUFFICES ASSUME NEW b \in s, NEW d \in s, b # d, b.cls = d.cls
               PROVE b.offset + PA!ClassSize(b.cls) <= d.offset \/ d.offset + PA!ClassSize(d.cls) <= b.offset
    BY Zenon DEF Separate
  <2>1. CASE b \in r /\ d \in r
    BY <1>1, <2>1, Zenon DEF Separate
  <2>2. CASE b \in r /\ d = k
    BY <1>8, <1>25, <2>2, Zenon
  <2>3. CASE b = k /\ d \in r
    BY <1>8, <1>25, <2>3, Zenon
  <2> QED
    BY <2>1, <2>2, <2>3, Zenon
<1> QED
  BY <1>18, <1>23, <1>24, <1>26, Zenon DEF HeapOk, TouchedKept

HaltChanged(o, x, a) == HeapState(a) /\ a.page = o.page /\ a.next = o.next /\ a.free = o.free /\ a.halt = x

\* An assignment to halt leaves the heap alone.
LEMMA HaltSet ==
  ASSUME NEW o, HeapState(o), NEW x \in Halts, NEW a, a = [o EXCEPT !.halt = x]
  PROVE HaltChanged(o, x, a)
BY Zenon DEF HeapState, HaltChanged

\* Page::Deallocate: the page counts one block less; only it may be left without one.
PageLeft(o, id, q) ==
  /\ Touched(o, id, q)
  /\ q.page[id].ref = o.page[id].ref - 1 /\ q.page[id].free = o.page[id].free

\* Page::Deallocate counts one block less.
LEMMA PageDeallocateFacts ==
  ASSUME NEW o, HeapState(o), NEW id \in 0 .. o.next - 1, NEW off \in Nat, NEW q, q = PA!PageDeallocate(o, id, off)
  PROVE PageLeft(o, id, q)
<1> DEFINE p == o.page[id]
           p1 == [p EXCEPT !.ref = p.ref - 1]
           p2 == [p1 EXCEPT !.free_list = off]
           b1 == [o EXCEPT !.page[id] = p1]
           b2 == [b1 EXCEPT !.page[id] = p2]
           Meets == \/ PA!PageOf(PA!Base(id) + off) >= PageMax
                    \/ \E b \in ref : b.offset <= PA!Base(id) + off
                                   /\ PA!Base(id) + off < b.offset + PA!ClassSize(b.cls)
           x == IF Meets THEN "link in use" ELSE o.halt
<1>1. p \in PageRecords
  BY Record, Zenon
<1>2. p.ref \in Int
  BY <1>1, Zenon DEF PageRecords
<1>3. p.ref - 1 \in Int /\ off \in Int
  BY <1>2
<1>4. p1 \in PageRecords /\ p2 \in PageRecords
  BY <1>1, <1>3, Zenon DEF PageRecords
<1>5. /\ p2.inuse = p.inuse /\ p2.cls = p.cls /\ p2.next = p.next /\ p2.prev = p.prev /\ p2.free = p.free
      /\ p2.ref = p.ref - 1
  BY <1>1, <1>3, Zenon DEF PageRecords
<1>6. x \in Halts
  <2>1. o.halt \in Halts
    BY Zenon DEF HeapState
  <2> QED
    BY <2>1, Zenon DEF Halts
<1> DEFINE c2 == [o EXCEPT !.page[id].ref = p.ref - 1, !.page[id].free_list = off]
<1>7. b1 = [o EXCEPT !.page[id] = p1] /\ b2 = [b1 EXCEPT !.page[id] = p2]
  BY Zenon
<1>8. q = [c2 EXCEPT !.halt = x]
  <2>1. o \in [page : [0 .. o.next - 1 -> PageRecords], next : Nat, free : Seq(Nat), halt : Halts]
    BY Zenon DEF HeapState
  <2>2. c2.halt = o.halt
    BY <2>1, Zenon
  <2> QED
    BY <2>2, Zenon DEF PA!PageDeallocate
<1>9. c2 = [[o EXCEPT !.page[id].ref = p.ref - 1] EXCEPT !.page[id].free_list = off] /\ [o EXCEPT !.page[id].ref = p.ref - 1] = b1
  BY Zenon
<1> HIDE DEF x, b1, b2, c2, p1
<1>10. PageChanged(o, id, p1, b1)
  BY <1>4, <1>7, PageSet, Zenon
<1>11. HeapState(b1) /\ b1.next = o.next /\ b1.page[id] = p1
  BY <1>10, Zenon DEF PageChanged
<1>12. c2 = b2
  BY <1>7, <1>9, <1>11, Zenon
<1> HIDE DEF p2
<1>13. PageChanged(b1, id, p2, b2)
  BY <1>4, <1>7, <1>11, PageSet, Zenon
<1>14. HeapState(b2)
  BY <1>13, Zenon DEF PageChanged
<1>15. HeapState(q) /\ q.page = b2.page /\ q.next = b2.next /\ q.free = b2.free
  <2>1. q = [b2 EXCEPT !.halt = x]
    BY <1>8, <1>12, Zenon
  <2>2. HaltChanged(b2, x, q)
    BY <1>6, <1>14, <2>1, HaltSet, Zenon
  <2> QED
    BY <2>2, Zenon DEF HaltChanged
<1>16. /\ b2.next = b1.next /\ b2.free = b1.free /\ b2.page[id] = p2
       /\ \A j \in 0 .. b1.next - 1 : j # id => b2.page[j] = b1.page[j]
  BY <1>13, Zenon DEF PageChanged
<1>17. /\ b1.next = o.next /\ b1.free = o.free
       /\ \A j \in 0 .. o.next - 1 : j # id => b1.page[j] = o.page[j]
  BY <1>10, Zenon DEF PageChanged
<1>18. Touched(o, id, q)
  BY <1>5, <1>15, <1>16, <1>17, Zenon DEF Touched
<1> QED
  BY <1>5, <1>15, <1>16, <1>18, Zenon DEF PageLeft

\* Without the block the heap is in order, but for a page that may have none left.
LEMMA PageDeallocateOk ==
  ASSUME NEW o, NEW r, HeapOk(o, r, PA!Nil), NEW b \in r, NEW q, PageLeft(o, b.from, q)
  PROVE HeapOk(q, r \ {b}, b.from)
<1> DEFINE id == b.from
           s == r \ {b}
<1>1. HeapState(o) /\ FreePages(o) /\ Rings(o) /\ DataPages(o, r, PA!Nil) /\ Blocks(o, r) /\ Separate(r)
  BY Zenon DEF HeapOk
<1>2. id \in PA!Data(o)
  BY <1>1, Zenon DEF Blocks
<1>3. /\ Touched(o, id, q) /\ q.page[id].ref = o.page[id].ref - 1 /\ q.page[id].free = o.page[id].free
      /\ q.page[id].cls = o.page[id].cls
  BY Zenon DEF PageLeft, Touched
<1>4. TouchedKept(o, q) /\ HeapState(q)
  BY <1>1, <1>2, <1>3, TouchedKeeps, Zenon DEF Touched
<1>5. \A j \in PA!Data(o) : j # id => q.page[j] = o.page[j]
  <2>1. \A j \in PA!Data(o) : j \in 0 .. o.next - 1
    BY <1>1, DataMember, Zenon
  <2> QED
    BY <1>3, <2>1, Zenon DEF Touched
<1>6. DataPages(q, s, id)
  <2> SUFFICES ASSUME NEW j \in PA!Data(q) PROVE DataPage(q, s, id, j)
    BY Zenon DEF DataPages
  <2>1. j \in PA!Data(o)
    BY <1>4, Zenon DEF TouchedKept
  <2>2. DataPage(o, r, PA!Nil, j)
    BY <1>1, <2>1, Zenon DEF DataPages
  <2>3. o.page[j].cls \in PA!Classes
    BY <2>2, Zenon DEF DataPage
  <2>4. q.page[PA!NonEmpty(o.page[j].cls)] = o.page[PA!NonEmpty(o.page[j].cls)]
    BY <1>4, <2>3, Zenon DEF TouchedKept
  <2>5. CASE j # id
    <3>1. q.page[j] = o.page[j]
      BY <1>5, <2>1, <2>5, Zenon
    <3>2. From(s, j) = From(r, j)
      BY <2>5, Zenon DEF From
    <3>3. j # PA!Nil
      <4>1. j >= PA!FirstDataPage /\ j \in 0 .. o.next - 1
        BY <1>1, <2>1, DataMember, Zenon
      <4> QED
        BY <4>1, FirstData DEF PA!Nil
    <3> QED
      BY <2>2, <2>4, <3>1, <3>2, <3>3, Zenon DEF DataPage
  <2>6. CASE j = id
    <3> DEFINE T == From(r, id)
    <3>1. IsFiniteSet(r) /\ T \subseteq r
      BY <1>1, Zenon DEF Blocks, From
    <3>2. From(s, id) = T \ {b} /\ b \in T
      BY Zenon DEF From
    <3> HIDE DEF T
    <3>3. IsFiniteSet(T)
      BY <3>1, FS_Subset, Zenon
    <3>4. Cardinality(T \ {b}) = Cardinality(T) - 1
      BY <3>2, <3>3, FS_RemoveElement, Zenon
    <3>5. o.page[id].ref = Cardinality(T)
      BY <2>2, <2>6, Zenon DEF DataPage, T
    <3>6. q.page[id].ref = Cardinality(From(s, id))
      BY <1>3, <3>2, <3>4, <3>5, Zenon
    <3> QED
      BY <1>3, <2>2, <2>3, <2>4, <2>6, <3>6, Zenon DEF DataPage
  <2> QED
    BY <2>5, <2>6, Zenon
<1>7. Blocks(q, s)
  <2>1. IsFiniteSet(s)
    BY <1>1, FS_Subset, Zenon DEF Blocks
  <2>2. ASSUME NEW k \in s
        PROVE k.from \in PA!Data(q) /\ q.page[k.from].cls = k.cls /\ k.offset <= PA!Base(k.from) + q.page[k.from].free
    <3>1. k.from \in PA!Data(o) /\ o.page[k.from].cls = k.cls /\ k.offset <= PA!Base(k.from) + o.page[k.from].free
      BY <1>1, Zenon DEF Blocks
    <3>2. q.page[k.from].cls = o.page[k.from].cls /\ q.page[k.from].free = o.page[k.from].free
      BY <1>3, <1>5, <3>1, Zenon
    <3> QED
      BY <1>4, <3>1, <3>2, Zenon DEF TouchedKept
  <2>3. s \subseteq BlockRecords
    BY <1>1, Zenon DEF Blocks
  <2> QED
    BY <2>1, <2>2, <2>3, Zenon DEF Blocks
<1>8. Separate(s)
  BY <1>1, Zenon DEF Separate
<1> QED
  BY <1>4, <1>6, <1>7, <1>8, Zenon DEF HeapOk, TouchedKept

\* The page still has blocks.
LEMMA PageStays ==
  ASSUME NEW o, NEW r, NEW id, HeapOk(o, r, id), id \in PA!Data(o), o.page[id].ref # 0
  PROVE HeapOk(o, r, PA!Nil)
<1>1. HeapState(o) /\ FreePages(o) /\ Rings(o) /\ DataPages(o, r, id) /\ Blocks(o, r) /\ Separate(r)
  BY Zenon DEF HeapOk
<1>2. o.page[id].ref = Cardinality(From(r, id))
  BY <1>1, Zenon DEF DataPages, DataPage
<1>3. IsFiniteSet(From(r, id))
  <2>1. IsFiniteSet(r) /\ From(r, id) \subseteq r
    BY <1>1, Zenon DEF Blocks, From
  <2> QED
    BY <2>1, FS_Subset, Zenon
<1>4. Cardinality(From(r, id)) \in Nat
  BY <1>3, FS_CardinalityType, Zenon
<1>5. o.page[id].ref > 0
  BY <1>2, <1>4
<1>6. DataPages(o, r, PA!Nil)
  <2> SUFFICES ASSUME NEW j \in PA!Data(o) PROVE DataPage(o, r, PA!Nil, j)
    BY Zenon DEF DataPages
  <2>1. DataPage(o, r, id, j)
    BY <1>1, Zenon DEF DataPages
  <2> QED
    BY <1>5, <2>1, Zenon DEF DataPage
<1> QED
  BY <1>1, <1>6, Zenon DEF HeapOk

FreeChanged(o, t, a) == HeapState(a) /\ a.page = o.page /\ a.next = o.next /\ a.halt = o.halt /\ a.free = t

\* An assignment to free_list_ leaves the table alone.
LEMMA FreeSet ==
  ASSUME NEW o, HeapState(o), NEW t \in Seq(Nat), NEW a, a = [o EXCEPT !.free = t]
  PROVE FreeChanged(o, t, a)
BY Zenon DEF HeapState, FreeChanged

InFront(id, s, t) ==
  /\ Len(t) = Len(s) + 1 /\ t[1] = id /\ Len(s) \in Nat
  /\ \A i \in 1 .. Len(s) + 1 : i # 1 => i - 1 \in 1 .. Len(s) /\ t[i] = s[i - 1]

\* A page put in front of the free ones.
LEMMA FirstIn ==
  ASSUME NEW id \in Nat, NEW s \in Seq(Nat), NEW t, t = <<id>> \o s PROVE t \in Seq(Nat) /\ InFront(id, s, t)
BY DEF InFront

\* PageAllocator::Deallocate and DLLRemove of the only page of a ring.
Released(o, h, id, z) ==
  /\ HeapState(z) /\ z.next = o.next /\ z.free = <<id>> \o o.free
  /\ \A j \in 0 .. o.next - 1 : j # id /\ j # h => z.page[j] = o.page[j]
  /\ ~z.page[id].inuse /\ z.page[h].next = h /\ z.page[h].prev = h

\* The header points at itself again, and the page is the first of the free ones.
LEMMA ReleaseFacts ==
  ASSUME NEW o, HeapState(o), NEW id \in 0 .. o.next - 1, NEW h \in 0 .. o.next - 1, id # h,
         o.page[id].next = h, o.page[id].prev = h, NEW z, z = PA!DLLRemove(PA!DeallocatePage(o, id), id)
  PROVE Released(o, h, id, z)
<1> DEFINE p == o.page[id]
           g == o.page[h]
           p1 == [p EXCEPT !.inuse = FALSE]
           g1 == [g EXCEPT !.next = h]
           g2 == [g1 EXCEPT !.prev = h]
           t == <<id>> \o o.free
           Meets == \/ id + LinkSize > RecordSize
                    \/ \E j \in PA!Range(o.free) : id - j < LinkSize /\ j - id < LinkSize
           x == IF Meets THEN "page link" ELSE o.halt
           b1 == [o EXCEPT !.page[id] = p1]
           b2 == [b1 EXCEPT !.free = t]
           b3 == [b2 EXCEPT !.halt = x]
           b4 == [b3 EXCEPT !.page[h] = g1]
           b5 == [b4 EXCEPT !.page[h] = g2]
<1>1. p \in PageRecords /\ g \in PageRecords
  BY Record, Zenon
<1>2. id \in Int /\ h \in Int /\ id \in Nat
  OBVIOUS
<1>3. p1 \in PageRecords /\ g1 \in PageRecords /\ g2 \in PageRecords
  BY <1>1, <1>2, Zenon DEF PageRecords
<1>4. p1.inuse = FALSE /\ p1.next = p.next /\ p1.prev = p.prev /\ g2.next = h /\ g2.prev = h
  BY <1>1, <1>2, Zenon DEF PageRecords
<1>5. o \in [page : [0 .. o.next - 1 -> PageRecords], next : Nat, free : Seq(Nat), halt : Halts]
  BY Zenon DEF HeapState
<1>6. x \in Halts /\ o.free \in Seq(Nat)
  BY <1>5, Zenon DEF Halts
<1>7. t \in Seq(Nat)
  BY <1>2, <1>6, FirstIn, Zenon
<1>8. b1.free = o.free /\ b1.halt = o.halt
  BY <1>5, Zenon
<1>9. b2.halt = o.halt
  BY <1>5, <1>8, Zenon
<1>10. PA!DeallocatePage(o, id) = b3
  <2> DEFINE c1 == [o EXCEPT !.page[id].inuse = FALSE]
  <2>1. c1 = b1
    BY Zenon
  <2>2. PA!DeallocatePage(o, id) = [[c1 EXCEPT !.free = <<id>> \o c1.free] EXCEPT !.halt = IF Meets THEN "page link" ELSE [c1 EXCEPT !.free = <<id>> \o c1.free].halt]
    BY Zenon DEF PA!DeallocatePage
  <2> HIDE DEF b1, c1, Meets
  <2> QED
    BY <1>8, <1>9, <2>1, <2>2, Zenon
<1>11. b1 = [o EXCEPT !.page[id] = p1] /\ b2 = [b1 EXCEPT !.free = t] /\ b3 = [b2 EXCEPT !.halt = x]
  BY Zenon
<1>12. b4 = [b3 EXCEPT !.page[h] = g1] /\ b5 = [b4 EXCEPT !.page[h] = g2]
  BY Zenon
<1> HIDE DEF b1, b2, b3, b4, b5, x, t, p1
<1>13. PageChanged(o, id, p1, b1)
  BY <1>3, <1>11, PageSet, Zenon
<1>14. /\ HeapState(b1) /\ b1.next = o.next /\ b1.page[id] = p1
       /\ \A j \in 0 .. o.next - 1 : j # id => b1.page[j] = o.page[j]
  BY <1>13, Zenon DEF PageChanged
<1>15. HeapState(b2) /\ b2.page = b1.page /\ b2.next = b1.next /\ b2.free = t
  <2>1. FreeChanged(b1, t, b2)
    BY <1>7, <1>11, <1>14, FreeSet, Zenon
  <2> QED
    BY <2>1, Zenon DEF FreeChanged
<1>16. HeapState(b3) /\ b3.page = b2.page /\ b3.next = b2.next /\ b3.free = b2.free
  <2>1. HaltChanged(b2, x, b3)
    BY <1>6, <1>11, <1>15, HaltSet, Zenon
  <2> QED
    BY <2>1, Zenon DEF HaltChanged
<1>17. b3.page = b1.page /\ b3.next = o.next /\ b3.free = t
  BY <1>14, <1>15, <1>16, Zenon
<1>18. b3.page[id].next = h /\ b3.page[id].prev = h /\ b3.page[h] = g
  BY <1>4, <1>14, <1>17, Zenon
<1>19. z = b5
  <2> DEFINE c4 == [b3 EXCEPT !.page[h].next = h]
  <2>1. z = [c4 EXCEPT !.page[h].prev = h]
    BY <1>10, <1>18, Zenon DEF PA!DLLRemove
  <2> HIDE DEF g
  <2>2. c4 = b4
    BY <1>12, <1>18, Zenon
  <2> HIDE DEF c4, g1
  <2>4. h \in 0 .. b3.next - 1
    BY <1>17, Zenon
  <2>3. b4.page[h] = g1
    <3>1. PageChanged(b3, h, g1, b4)
      BY <1>3, <1>12, <1>16, <2>4, PageSet, Zenon
    <3> QED
      BY <3>1, Zenon DEF PageChanged
  <2> QED
    BY <1>12, <2>1, <2>2, <2>3, Zenon
<1> HIDE DEF g1, g2
<1>20. PageChanged(b3, h, g1, b4)
  <2>1. h \in 0 .. b3.next - 1
    BY <1>17, Zenon
  <2> QED
    BY <1>3, <1>12, <1>16, <2>1, PageSet, Zenon
<1>21. /\ HeapState(b4) /\ b4.next = o.next /\ b4.free = t
       /\ \A j \in 0 .. o.next - 1 : j # h => b4.page[j] = b3.page[j]
  BY <1>17, <1>20, Zenon DEF PageChanged
<1>22. PageChanged(b4, h, g2, z)
  <2>1. h \in 0 .. b4.next - 1
    BY <1>21, Zenon
  <2> QED
    BY <1>3, <1>12, <1>19, <1>21, <2>1, PageSet, Zenon
<1>23. /\ HeapState(z) /\ z.next = o.next /\ z.free = t /\ z.page[h] = g2
       /\ \A j \in 0 .. o.next - 1 : j # h => z.page[j] = b4.page[j]
  BY <1>21, <1>22, Zenon DEF PageChanged
<1>24. \A j \in 0 .. o.next - 1 : j # h => z.page[j] = b1.page[j]
  BY <1>17, <1>21, <1>23, Zenon
<1>25. /\ ~z.page[id].inuse /\ z.page[h].next = h /\ z.page[h].prev = h
       /\ \A j \in 0 .. o.next - 1 : j # id /\ j # h => z.page[j] = o.page[j]
  BY <1>4, <1>14, <1>23, <1>24, ZenonT(60)
<1> QED
  BY <1>23, <1>25, Zenon DEF Released, t
\* A page without blocks leaves its ring and joins the free ones.
LEMMA PageFreed ==
  ASSUME NEW o, NEW r, NEW id, HeapOk(o, r, id), id \in PA!Data(o), o.page[id].ref = 0,
         NEW z, z = PA!DLLRemove(PA!DeallocatePage(o, id), id)
  PROVE HeapOk(z, r, PA!Nil)
<1> DEFINE c == o.page[id].cls
           h == PA!NonEmpty(c)
           F == PA!FirstDataPage
<1>1. HeapState(o) /\ FreePages(o) /\ Rings(o) /\ DataPages(o, r, id) /\ Blocks(o, r) /\ Separate(r)
  BY Zenon DEF HeapOk
<1>2. id \in 0 .. o.next - 1 /\ id >= F /\ o.page[id].inuse
  BY <1>1, DataMember, Zenon
<1>3. c \in PA!Classes /\ o.page[h].next = id /\ o.page[id].ref = Cardinality(From(r, id))
  BY <1>1, Zenon DEF DataPages, DataPage
<1>4. F \in Nat /\ o.next \in Nat /\ o.next >= F /\ h \in 0 .. F - 1
  BY <1>1, <1>3, FirstData, Headers, Zenon DEF HeapState
<1>5. h \in 0 .. o.next - 1 /\ id # h /\ id \in Nat
  <2> HIDE DEF h, F
  <2> QED
    BY <1>2, <1>4
<1>6. Ring(o, h, c, id)
  BY <1>1, <1>3, Zenon DEF Rings
<1>7. o.page[id].next = h /\ o.page[id].prev = h
  BY <1>5, <1>6, Zenon DEF Ring
<1>8. Released(o, h, id, z)
  BY <1>1, <1>2, <1>5, <1>7, ReleaseFacts, Zenon
<1>9. /\ HeapState(z) /\ z.next = o.next /\ z.free = <<id>> \o o.free
      /\ \A j \in 0 .. o.next - 1 : j # id /\ j # h => z.page[j] = o.page[j]
      /\ ~z.page[id].inuse /\ z.page[h].next = h /\ z.page[h].prev = h
  BY <1>8, Zenon DEF Released
<1>10. /\ \A j : j \in PA!Data(z) <=> j \in 0 .. o.next - 1 /\ j >= F /\ z.page[j].inuse
       /\ \A j : j \in PA!Data(o) <=> j \in 0 .. o.next - 1 /\ j >= F /\ o.page[j].inuse
  <2>1. HeapState(z) /\ z.next = o.next
    BY <1>9, Zenon
  <2> QED
    BY <1>1, <2>1, DataMember, Zenon
<1>11. \A j \in 0 .. o.next - 1 : j >= F => j # h
  <2> HIDE DEF h, F
  <2> QED
    BY <1>4
<1>12. \A j \in PA!Data(o) : j # id => j \in PA!Data(z) /\ z.page[j] = o.page[j]
  BY <1>9, <1>10, <1>11, Zenon
<1>13. \A j \in PA!Data(z) : j # id /\ j \in PA!Data(o) /\ z.page[j] = o.page[j]
  BY <1>9, <1>10, <1>11, ZenonT(60)
<1>14. o.free \in Seq(Nat)
  BY <1>1, Zenon DEF HeapState
<1> DEFINE t == <<id>> \o o.free
<1>15. /\ Len(t) = Len(o.free) + 1 /\ t[1] = id /\ Len(o.free) \in Nat
       /\ \A i \in 1 .. Len(o.free) + 1 : i # 1 => i - 1 \in 1 .. Len(o.free) /\ t[i] = o.free[i - 1]
  <2>1. InFront(id, o.free, t)
    BY <1>5, <1>14, FirstIn, Zenon
  <2> QED
    BY <2>1, Zenon DEF InFront
<1>16. z.free = t
  BY <1>9, Zenon
<1> HIDE DEF t
<1>17. \A i \in 1 .. Len(o.free) : o.free[i] \in F .. o.next - 1 /\ ~o.page[o.free[i]].inuse /\ o.free[i] # id
  BY <1>1, <1>2, Zenon DEF FreePages
<1>18. FreePages(z)
  <2>1. ASSUME NEW i \in 1 .. Len(t) PROVE t[i] \in F .. o.next - 1 /\ ~z.page[t[i]].inuse /\ (i # 1 => t[i] # id)
    <3>1. CASE i = 1
      <4>1. id \in F .. o.next - 1
        BY <1>2, <1>4
      <4> QED
        BY <1>9, <1>15, <3>1, <4>1, Zenon
    <3>2. CASE i # 1
      <4> DEFINE f == t[i]
      <4>3. i - 1 \in 1 .. Len(o.free) /\ f = o.free[i - 1]
        BY <1>15, <3>2, Zenon
      <4>1. f \in F .. o.next - 1 /\ ~o.page[f].inuse /\ f # id
        BY <1>17, <4>3, Zenon
      <4>2. f \in 0 .. o.next - 1 /\ f >= F
        <5> HIDE DEF f, F
        <5> QED
          BY <1>4, <4>1
      <4> QED
        BY <1>9, <1>11, <4>1, <4>2, Zenon
    <3> QED
      BY <3>1, <3>2, Zenon
  <2>2. ASSUME NEW i \in 1 .. Len(t), NEW j \in 1 .. Len(t), t[i] = t[j] PROVE i = j
    <3>1. CASE i = 1 \/ j = 1
      BY <1>15, <2>1, <2>2, <3>1, Zenon
    <3>2. CASE i # 1 /\ j # 1
      <4>1. /\ i - 1 \in 1 .. Len(o.free) /\ t[i] = o.free[i - 1]
            /\ j - 1 \in 1 .. Len(o.free) /\ t[j] = o.free[j - 1]
        BY <1>15, <3>2, Zenon
      <4>2. \A k, l \in 1 .. Len(o.free) : o.free[k] = o.free[l] => k = l
        BY <1>1, Zenon DEF FreePages
      <4>3. o.free[i - 1] = o.free[j - 1]
        BY <2>2, <4>1, Zenon
      <4>4. i - 1 = j - 1
        BY <4>1, <4>2, <4>3, Zenon
      <4> QED
        BY <4>4
    <3> QED
      BY <3>1, <3>2, Zenon
  <2>3. z.next = o.next
    BY <1>9, Zenon
  <2>4. \A i \in 1 .. Len(z.free) : z.free[i] \in F .. z.next - 1 /\ ~z.page[z.free[i]].inuse
    BY <1>16, <2>1, <2>3, Zenon
  <2>6. \A i, j \in 1 .. Len(t) : t[i] = t[j] => i = j
    BY <2>2, Zenon
  <2>5. \A i, j \in 1 .. Len(z.free) : z.free[i] = z.free[j] => i = j
    BY <1>16, <2>6, ZenonT(60)
  <2> QED
    BY <2>4, <2>5, Zenon DEF FreePages
<1>19. ASSUME NEW d \in PA!Classes, d # c PROVE z.page[PA!NonEmpty(d)] = o.page[PA!NonEmpty(d)]
  <2> DEFINE g == PA!NonEmpty(d)
  <2>1. g \in 0 .. F - 1 /\ g # h
    BY <1>3, <1>19, Headers, HeadersDiffer, Zenon
  <2>2. g \in 0 .. o.next - 1 /\ g # id
    <3> HIDE DEF g, F
    <3> QED
      BY <1>2, <1>4, <2>1
  <2> QED
    BY <1>9, <2>1, <2>2, Zenon
<1>20. Rings(z)
  <2> SUFFICES ASSUME NEW d \in PA!Classes PROVE Ring(z, PA!NonEmpty(d), d, z.page[PA!NonEmpty(d)].next)
    BY Zenon DEF Rings
  <2>1. CASE d = c
    BY <1>9, <2>1, Zenon DEF Ring
  <2>2. CASE d # c
    <3> DEFINE g == PA!NonEmpty(d)
               f == o.page[g].next
    <3>1. Ring(o, g, d, f)
      BY <1>1, Zenon DEF Rings
    <3>2. z.page[g] = o.page[g]
      BY <1>19, <2>2, Zenon
    <3>3. ASSUME f \in PA!Data(o), o.page[f].cls = d PROVE f \in PA!Data(z) /\ z.page[f] = o.page[f]
      BY <1>12, <2>2, <3>3, Zenon
    <3> QED
      BY <3>1, <3>2, <3>3, Zenon DEF Ring
  <2> QED
    BY <2>1, <2>2, Zenon
<1>21. DataPages(z, r, PA!Nil)
  <2> SUFFICES ASSUME NEW j \in PA!Data(z) PROVE DataPage(z, r, PA!Nil, j)
    BY Zenon DEF DataPages
  <2>1. j # id /\ j \in PA!Data(o) /\ z.page[j] = o.page[j]
    BY <1>13, Zenon
  <2>2. DataPage(o, r, id, j)
    BY <1>1, <2>1, Zenon DEF DataPages
  <2>3. o.page[j].cls \in PA!Classes /\ o.page[j].cls # c
    BY <1>3, <2>1, <2>2, Zenon DEF DataPage
  <2>4. z.page[PA!NonEmpty(o.page[j].cls)] = o.page[PA!NonEmpty(o.page[j].cls)]
    BY <1>19, <2>3, Zenon
  <2> QED
    BY <2>1, <2>2, <2>4, Zenon DEF DataPage
<1>22. \A b \in r : b.from # id
  <2> DEFINE T == From(r, id)
  <2>1. IsFiniteSet(r) /\ T \subseteq r
    BY <1>1, Zenon DEF Blocks, From
  <2> HIDE DEF T
  <2>2. IsFiniteSet(T)
    BY <2>1, FS_Subset, Zenon
  <2>3. Cardinality(T) = 0
    BY <1>3, Zenon DEF T
  <2>4. T = {}
    BY <2>2, <2>3, FS_EmptySet, Zenon
  <2> QED
    BY <2>4, Zenon DEF T, From
<1>23. Blocks(z, r)
  <2>1. IsFiniteSet(r) /\ r \subseteq BlockRecords
    BY <1>1, Zenon DEF Blocks
  <2>2. ASSUME NEW b \in r
        PROVE b.from \in PA!Data(z) /\ z.page[b.from].cls = b.cls /\ b.offset <= PA!Base(b.from) + z.page[b.from].free
    <3>1. b.from \in PA!Data(o) /\ o.page[b.from].cls = b.cls /\ b.offset <= PA!Base(b.from) + o.page[b.from].free
      BY <1>1, Zenon DEF Blocks
    <3>2. b.from # id
      BY <1>22, Zenon
    <3> QED
      BY <1>12, <3>1, <3>2, Zenon
  <2> QED
    BY <2>1, <2>2, Zenon DEF Blocks
<1> QED
  BY <1>1, <1>9, <1>18, <1>20, <1>21, <1>23, Zenon DEF HeapOk

\* The model has stopped.
LEMMA HaltDiffers ==
  ASSUME NEW o, HeapState(o), NEW x \in Halts, x # "no", NEW a, a = [o EXCEPT !.halt = x] PROVE a.halt # "no"
<1>1. HaltChanged(o, x, a)
  BY HaltSet, Zenon
<1> QED
  BY <1>1, Zenon DEF HaltChanged

\* Allocator::Allocate keeps the invariant.
LEMMA AllocateOk == ASSUME NEW sz \in BlockSizes, PageInv, PA!Allocate(sz) PROVE PageInv'
<1> DEFINE c == PA!SizeClass(PA!RoundUpToPowerOfTwo(sz))
<1>1. obj.halt = "no"
  BY Zenon DEF PA!Allocate
<1>2. HeapOk(obj, ref, PA!Nil) /\ HeapState(obj)
  BY <1>1, Zenon DEF PageInv, HeapOk
<1>3. c \in Nat
  <2>1. sz \in Nat
    BY PageAllocatorAssumption, Zenon
  <2> QED
    BY <2>1, ClassFacts, Zenon
<1>4. CASE c >= ClassNum
  <2>1. obj' = [obj EXCEPT !.halt = "class"]
    BY <1>4, Zenon DEF PA!Allocate
  <2>2. "class" \in Halts /\ "class" # "no"
    BY Zenon DEF Halts
  <2>3. obj'.halt # "no"
    BY <1>2, <2>1, <2>2, HaltDiffers, Zenon
  <2> QED
    BY <2>3, Zenon DEF PageInv
<1>5. CASE ~(c >= ClassNum)
  <2> DEFINE a == PA!WithPage(obj, c)
             id == a.page[PA!NonEmpty(c)].next
             k == [offset |-> PA!AllocatedOffset(a, id), cls |-> c, from |-> id]
  <2>1. obj' = PA!PageAllocate(a, id) /\ ref' = ref \cup {k}
    BY <1>5, Zenon DEF PA!Allocate
  <2>2. c \in PA!Classes
    <3> HIDE DEF c
    <3> QED
      BY <1>3, <1>5, PageAllocatorAssumption DEF PA!Classes
  <2> HIDE DEF c
  <2>7. a = PA!WithPage(obj, c) /\ id = a.page[PA!NonEmpty(c)].next
    BY Zenon
  <2> HIDE DEF a, id
  <2>8. PageReady(a, ref, id, c)
    BY <1>2, <2>2, <2>7, WithPageOk, Zenon
  <2>3. HeapOk(a, ref, id) /\ id \in PA!Data(a) /\ a.page[id].cls = c
    BY <2>8, Zenon DEF PageReady
  <2>4. k = [offset |-> PA!AllocatedOffset(a, id), cls |-> a.page[id].cls, from |-> id]
    BY <2>3, Zenon
  <2> HIDE DEF k
  <2>5. CASE a.page[id].free_list = PA!Nil
    <3>1. HeapOk(obj', ref', PA!Nil)
      BY <2>1, <2>3, <2>4, <2>5, PageAllocateOk, Zenon
    <3> QED
      BY <3>1, Zenon DEF PageInv
  <2>6. CASE a.page[id].free_list # PA!Nil
    <3> DEFINE b == [a EXCEPT !.page[id] = [a.page[id] EXCEPT !.ref = a.page[id].ref + 1]]
    <3>1. HeapState(a)
      BY <2>3, Zenon DEF HeapOk
    <3>2. obj' = [b EXCEPT !.halt = "block link"]
      BY <2>1, <2>6, Zenon DEF PA!PageAllocate
    <3>3. a.page[id] \in PageRecords /\ id \in 0 .. a.next - 1
      BY <2>3, <3>1, DataMember, Record, Zenon
    <3>4. a.page[id].ref \in Int
      BY <3>3, Zenon DEF PageRecords
    <3>5. a.page[id].ref + 1 \in Int
      BY <3>4
    <3>6. [a.page[id] EXCEPT !.ref = a.page[id].ref + 1] \in PageRecords
      BY <3>3, <3>5, Zenon DEF PageRecords
    <3>7. PageChanged(a, id, [a.page[id] EXCEPT !.ref = a.page[id].ref + 1], b)
      BY <3>1, <3>3, <3>6, PageSet, Zenon
    <3> HIDE DEF b
    <3>8. HeapState(b)
      BY <3>7, Zenon DEF PageChanged
    <3>9. "block link" \in Halts /\ "block link" # "no"
      BY Zenon DEF Halts
    <3>10. obj'.halt # "no"
      BY <3>2, <3>8, <3>9, HaltDiffers, Zenon
    <3> QED
      BY <3>10, Zenon DEF PageInv
  <2> QED
    BY <2>5, <2>6, Zenon
<1> QED
  BY <1>4, <1>5, Zenon

\* Allocator::Deallocate keeps the invariant.
LEMMA DeallocateOk == ASSUME NEW b \in ref, PageInv, PA!Deallocate(b) PROVE PageInv'
<1> DEFINE id == PA!PageOf(b.offset)
           a == PA!PageDeallocate(obj, id, b.offset)
<1>1. obj.halt = "no" /\ ref' = ref \ {b}
  BY Zenon DEF PA!Deallocate
<1>2. HeapOk(obj, ref, PA!Nil) /\ HeapState(obj) /\ Blocks(obj, ref)
  BY <1>1, Zenon DEF PageInv, HeapOk
<1>3. obj' = IF id # b.from THEN [obj EXCEPT !.halt = "wrong page"]
             ELSE IF a.page[id].ref # 0 THEN a
             ELSE PA!DLLRemove(PA!DeallocatePage(a, id), id)
  BY Zenon DEF PA!Deallocate
<1>4. CASE id # b.from
  <2>1. obj' = [obj EXCEPT !.halt = "wrong page"]
    BY <1>3, <1>4, Zenon
  <2>2. "wrong page" \in Halts /\ "wrong page" # "no"
    BY Zenon DEF Halts
  <2>3. obj'.halt # "no"
    BY <1>2, <2>1, <2>2, HaltDiffers, Zenon
  <2> QED
    BY <2>3, Zenon DEF PageInv
<1>5. CASE id = b.from
  <2>1. id \in PA!Data(obj) /\ b.offset \in Nat
    BY <1>2, <1>5, Zenon DEF Blocks, BlockRecords
  <2>2. id \in 0 .. obj.next - 1
    BY <1>2, <2>1, DataMember, Zenon
  <2>3. PageLeft(obj, id, a)
    BY <1>2, <2>1, <2>2, PageDeallocateFacts, Zenon
  <2>7. obj' = IF a.page[id].ref # 0 THEN a ELSE PA!DLLRemove(PA!DeallocatePage(a, id), id)
    BY <1>3, <1>5, Zenon
  <2> HIDE DEF a, id
  <2>4. HeapOk(a, ref', id)
    BY <1>1, <1>2, <1>5, <2>3, PageDeallocateOk, Zenon
  <2>5. id \in PA!Data(a)
    <3>1. TouchedKept(obj, a)
      BY <1>2, <2>1, <2>3, TouchedKeeps, Zenon DEF HeapOk, PageLeft
    <3> QED
      BY <2>1, <3>1, Zenon DEF TouchedKept
  <2>6. HeapOk(obj', ref', PA!Nil)
    <3>1. CASE a.page[id].ref # 0
      BY <2>4, <2>5, <2>7, <3>1, PageStays, Zenon
    <3>2. CASE a.page[id].ref = 0
      BY <2>4, <2>5, <2>7, <3>2, PageFreed, Zenon
    <3> QED
      BY <3>1, <3>2, Zenon
  <2> QED
    BY <2>6, Zenon DEF PageInv
<1> QED
  BY <1>4, <1>5, Zenon

\* Every call of the allocator keeps the invariant.
LEMMA PageNext == PageInv /\ PA!Next => PageInv'
BY AllocateOk, DeallocateOk, Zenon DEF PA!Next

BlocksInv == kind = "PageAllocator" => PageInv

\* Until a link or a class meets memory it does not own, the live blocks of a class do not
\* overlap, a page is in use exactly while blocks of it are live, counts them and hangs in the
\* ring of its class, and a freed page is not in use. For every page size, number of classes
\* and smallest class.
THEOREM BlocksApartAlways == BlocksSpec => []BlocksApart
<1>1. BlocksInit => BlocksInv
  BY PageInit, Zenon DEF BlocksInit, BlocksInv
<1>2. BlocksInv /\ [BlocksNext]_vars => BlocksInv'
  <2> SUFFICES ASSUME BlocksInv, [BlocksNext]_vars PROVE BlocksInv'
    OBVIOUS
  <2>1. CASE BlocksNext
    BY <2>1, PageNext, Zenon DEF BlocksNext, BlocksInv
  <2>2. CASE UNCHANGED vars
    <3>1. obj' = obj /\ ref' = ref /\ kind' = kind
      BY <2>2, Zenon DEF vars
    <3> QED
      BY <3>1, Zenon DEF BlocksInv, PageInv
  <2> QED
    BY <2>1, <2>2, Zenon
<1>3. BlocksInv => BlocksApart
  BY PageInvAgrees, Zenon DEF BlocksInv, BlocksApart
<1> QED
  BY <1>1, <1>2, <1>3, PTL DEF BlocksSpec
=============================================================================

--------------------------- MODULE LogServerProofs ---------------------------
(***************************************************************************)
(* Proofs of LogServer, for any clients, workers, batch sizes and numbers  *)
(* of starts, kills and signals.                                           *)
(*                                                                         *)
(* Control is about the mutexes: a process inside the bus holds the mutex  *)
(* that it opened, and the processes that attached after the latest Listen *)
(* have all opened the same one, since the name stands for that mutex or   *)
(* for none.  Data is about the messages: the log, the batch and the bus   *)
(* hold increasing numbers, one after the other, and no number is in two   *)
(* places.                                                                 *)
(***************************************************************************)
EXTENDS LogServer, FiniteSetTheorems, TLAPS

\* The time a leaf may take, which on a slow machine is more than the five seconds of the default.
USE SMTT(60)

Attached == Inside \cup {"loop", "lock", "relock", "waiting", "append"}
Labels == Attached \cup Ended \cup {"connect", "open"}

Types ==
  /\ pc \in [Procs -> Labels]
  /\ holder \in [Mutexes -> Procs \cup {None}]
  /\ mutex_ \in [Procs -> 0 .. MaxStarts] /\ named \in 0 .. MaxStarts /\ smutex \in 0 .. MaxStarts
  /\ since \in [Procs -> Nat] /\ epoch \in Nat /\ starts \in Nat

Names == named \in {0, smutex} /\ (monitor \in {"opened", "fork", "wait"} => smutex # 0)

Opened == \A p \in Procs : pc[p] \in Attached => mutex_[p] # 0

Current == \A p \in Procs : since[p] <= epoch /\ (since[p] = epoch => mutex_[p] = smutex)

Holds == \A p \in Procs : InBus(p) => holder[mutex_[p]] = p

Control == Types /\ Names /\ Opened /\ Current /\ Holds /\ Exclusive

-----------------------------------------------------------------------------
(* The messages. *)
Vals(s) == {s[i] : i \in 1 .. Len(s)}
Held(w) == Vals(log[w]) \cup Vals(msgs[w])

(* Where a worker has nothing in its batch. *)
Idle == Labels \ {"read", "append", "killed", "replaced"}

DataTypes ==
  /\ bus \in Seq(Nat) /\ accepted \in Nat /\ dropped \subseteq 1 .. accepted
  /\ msgs \in [Workers -> Seq(Nat)] /\ log \in [Workers -> Seq(Nat)]

Sorted ==
  /\ Increasing(bus)
  /\ \A w \in Workers : /\ Increasing(log[w]) /\ Increasing(msgs[w])
                        /\ \A x \in Vals(log[w]) : \A y \in Vals(msgs[w]) : x < y
                        /\ \A x \in Held(w) : \A y \in Vals(bus) : x < y

Bounded ==
  /\ Vals(bus) \subseteq 1 .. accepted
  /\ \A w \in Workers : /\ Held(w) \subseteq 1 .. accepted
                        /\ Len(msgs[w]) <= MaxBatch
                        /\ Len(log[w]) + Len(msgs[w]) + Len(bus) <= accepted

Covered == \A n \in 1 .. accepted : n \in dropped \/ n \in Vals(bus) \/ \E w \in Workers : n \in Held(w)

Apart ==
  /\ \A n \in dropped : n \notin Vals(bus) /\ \A w \in Workers : n \notin Held(w)
  /\ \A w, v \in Workers : w # v => \A n \in Held(w) : n \notin Held(v)

Batches == \A w \in Workers : pc[w] \in Idle => msgs[w] = <<>>

Data == DataTypes /\ Sorted /\ Bounded /\ Covered /\ Apart /\ Batches

-----------------------------------------------------------------------------
(* Control. *)
LEMMA InitControl == Init => Control
<1> SUFFICES ASSUME Init PROVE Control
  OBVIOUS
<1>1. Types
  BY SizesAssumption DEF Init, Types, Labels, Attached, Ended
<1>2. Names /\ Current /\ Exclusive
  BY DEF Init, Names, Current, Exclusive
<1>3. Opened /\ Holds
  BY DEF Init, Opened, Holds, InBus, Attached, Inside
<1> QED
  BY <1>1, <1>2, <1>3 DEF Control

(* A step that moves no process into the bus and opens no mutex. *)
LEMMA Moves ==
  ASSUME Control, ~torn, ~torn', pc' \in [Procs -> Labels],
         \A q \in Procs : (pc'[q] \in Attached => pc[q] \in Attached) /\ (pc'[q] \in Inside => pc[q] \in Inside),
         named' \in {named, 0}, monitor' \in {monitor, "gone"} \/ (monitor \in {"opened", "fork"} /\ monitor' \in {"fork", "wait"}),
         starts' = starts, UNCHANGED <<holder, mutex_, smutex, since, epoch>>
  PROVE  Control'
<1>1. Types /\ Names /\ Opened /\ Current /\ Holds
  BY DEF Control
<1>2. Types' /\ Names'
  BY <1>1, SizesAssumption DEF Types, Names
<1>3. Opened' /\ Current'
  BY <1>1 DEF Opened, Current
<1>4. Holds' /\ Exclusive'
  BY <1>1 DEF Holds, InBus, Exclusive
<1> QED
  BY <1>2, <1>3, <1>4 DEF Control

(* Who enters while another process is inside has opened another mutex, so   *)
(* that one of the two attached before the latest Listen.                    *)
LEMMA AcquireControl ==
  ASSUME Control, ~torn, NEW p \in Procs, NEW label \in Inside, Acquire(p, label), pc[p] \in Attached,
         UNCHANGED <<smutex, epoch, starts, monitor>>
  PROVE  Control'
<1>0. /\ holder[mutex_[p]] = None /\ holder' = [holder EXCEPT ![mutex_[p]] = p]
      /\ torn' = (torn \/ \E q \in Procs \ {p} : InBus(q))
      /\ pc' = [pc EXCEPT ![p] = label] /\ UNCHANGED <<named, mutex_, since>>
  BY DEF Acquire, Go
<1>1. Types /\ Names /\ Opened /\ Current /\ Holds /\ None \notin Procs
  BY ProcsAssumption DEF Control, Procs
<1>2. mutex_[p] \in Mutexes /\ label \in Labels /\ label \in Attached
  BY <1>1, SizesAssumption DEF Types, Opened, Mutexes, Labels, Attached
<1>3. Types'
  BY <1>0, <1>1, <1>2 DEF Types
<1>4. Names' /\ Current'
  BY <1>0, <1>1 DEF Names, Current
<1>5. Opened'
  BY <1>0, <1>1, <1>2 DEF Types, Opened
<1>6. ASSUME NEW q \in Procs, q # p, InBus(q) PROVE mutex_[q] # mutex_[p] /\ InBus(q)'
  BY <1>0, <1>1, <1>6 DEF Types, Holds, InBus
<1>7. Holds'
  <2> SUFFICES ASSUME NEW q \in Procs, InBus(q)' PROVE holder'[mutex_[q]] = q
    BY <1>0 DEF Holds
  <2>1. CASE q = p
    BY <1>0, <1>1, <1>2, <2>1 DEF Types
  <2>2. CASE q # p
    <3>1. InBus(q)
      BY <1>0, <1>1, <2>2 DEF Types, InBus
    <3>2. holder[mutex_[q]] = q /\ mutex_[q] # mutex_[p]
      BY <1>1, <1>6, <2>2, <3>1 DEF Holds
    <3>3. mutex_[q] \in Mutexes
      BY <1>1, <3>1, SizesAssumption DEF Types, Opened, InBus, Attached, Mutexes
    <3> QED
      BY <1>0, <1>1, <3>2, <3>3 DEF Types
  <2> QED
    BY <2>1, <2>2
<1>8. Exclusive'
  <2> SUFFICES ASSUME torn' PROVE \E q \in Procs : InBus(q)' /\ since[q] < epoch
    BY <1>0 DEF Exclusive
  <2>1. PICK q \in Procs \ {p} : InBus(q)
    BY Zenon, <1>0
  <2>2. InBus(q)' /\ mutex_[q] # mutex_[p]
    BY <1>6, <2>1
  <2>3. InBus(p)'
    BY <1>0, <1>1 DEF Types, InBus
  <2>4. since[p] < epoch \/ since[q] < epoch
    BY <1>1, <2>1, <2>2 DEF Types, Current
  <2> QED
    BY <2>1, <2>2, <2>3, <2>4
<1> QED
  BY <1>3, <1>4, <1>5, <1>7, <1>8 DEF Control

(* Whoever leaves frees a mutex that no other process inside has. *)
LEMMA ReleaseControl ==
  ASSUME Control, ~torn, NEW p \in Procs, InBus(p), pc' \in [Procs -> Labels], pc'[p] \notin Inside,
         \A q \in Procs : (pc'[q] \in Attached => pc[q] \in Attached) /\ (pc'[q] \in Inside => pc[q] \in Inside),
         holder' = [holder EXCEPT ![mutex_[p]] = None],
         UNCHANGED <<named, mutex_, since, torn, smutex, epoch, starts, monitor>>
  PROVE  Control'
<1>1. Types /\ Names /\ Opened /\ Current /\ Holds
  BY DEF Control
<1>2. Types'
  BY Zenon, <1>1 DEF Types
<1>3. Names' /\ Current' /\ Opened' /\ Exclusive'
  BY <1>1 DEF Names, Current, Opened, Exclusive
<1>4. Holds'
  <2> SUFFICES ASSUME NEW q \in Procs, InBus(q)' PROVE holder'[mutex_[q]] = q
    BY DEF Holds
  <2>1. q # p /\ InBus(q)
    BY DEF InBus
  <2>2. holder[mutex_[q]] = q /\ holder[mutex_[p]] = p
    BY <1>1, <2>1 DEF Holds
  <2>3. mutex_[q] \in Mutexes
    BY <1>1, <2>1, SizesAssumption DEF Types, Opened, InBus, Attached, Mutexes
  <2> QED
    BY <1>1, <2>1, <2>2, <2>3 DEF Types
<1> QED
  BY <1>2, <1>3, <1>4 DEF Control

(* A process that attaches gets the mutex of the latest server. *)
LEMMA AttachControl ==
  ASSUME Control, ~torn, NEW p \in Procs, smutex # 0, pc[p] \notin Attached, pc'[p] \notin Inside,
         pc' \in [Procs -> Labels], \A q \in Procs \ {p} : pc'[q] = pc[q] \/ pc'[q] \notin Attached,
         mutex_' = [mutex_ EXCEPT ![p] = smutex], since' = [since EXCEPT ![p] = epoch],
         monitor' \in {monitor, "gone"} \/ monitor' \in {"fork", "wait"},
         UNCHANGED <<named, holder, torn, smutex, epoch, starts>>
  PROVE  Control'
<1>1. Types /\ Names /\ Opened /\ Current /\ Holds
  BY DEF Control
<1>2. Types'
  BY <1>1 DEF Types
<1>3. Names' /\ Exclusive'
  BY <1>1 DEF Names, Exclusive
<1>4. Opened'
  BY <1>1 DEF Types, Opened
<1>5. Current'
  BY <1>1 DEF Types, Current
<1>6. Holds'
  <2> SUFFICES ASSUME NEW q \in Procs, InBus(q)' PROVE holder[mutex_'[q]] = q
    BY DEF Holds
  <2>1. q # p /\ InBus(q)
    BY DEF InBus, Attached
  <2> QED
    BY <1>1, <2>1 DEF Types, Holds
<1> QED
  BY <1>2, <1>3, <1>4, <1>5, <1>6 DEF Control

(* The server's first process. *)
LEMMA ServerControl ==
  ASSUME Control, ~torn, Server PROVE Control'
<1> USE DEF Labels, Attached, Ended, Inside
<1>1. Types /\ Names /\ Opened /\ Current /\ Holds
  BY DEF Control
<1>2. CASE InitSyncTools
  <2>0. /\ starts < MaxStarts /\ starts' = starts + 1 /\ named' = smutex' /\ monitor' = "opened" /\ epoch' = epoch + 1
        /\ smutex' = IF named # 0 THEN named ELSE starts + 1
        /\ UNCHANGED <<holder, mutex_, since, pc, torn>>
    BY <1>2 DEF InitSyncTools
  <2>1. smutex' \in 0 .. MaxStarts /\ smutex' # 0
    BY <1>1, <2>0, SizesAssumption DEF Types
  <2>2. Types' /\ Names'
    BY <1>1, <2>0, <2>1 DEF Types, Names
  <2>3. Opened' /\ Holds' /\ Exclusive'
    BY <1>1, <2>0 DEF Opened, Holds, InBus, Exclusive
  <2>4. Current'
    BY <1>1, <2>0 DEF Types, Current
  <2> QED
    BY <2>2, <2>3, <2>4 DEF Control
<1>3. CASE InitFails
  <2>1. /\ monitor' = "gone" /\ named' = 0 /\ UNCHANGED <<holder, mutex_, since, pc, torn, smutex, starts, epoch>>
    BY <1>3 DEF InitFails, busVars
  <2> QED
    BY <1>1, <2>1, Moves DEF Types
<1>4. CASE Listen
  <2>0. /\ monitor = "opened" /\ epoch' = epoch + 1 /\ torn' = (torn \/ \E p \in Procs : InBus(p))
        /\ \/ monitor' = "fork" /\ named' = named
           \/ monitor' = "gone" /\ named' = 0
        /\ UNCHANGED <<holder, mutex_, since, pc, smutex, starts>>
    BY <1>4 DEF Listen
  <2>1. Types' /\ Names'
    BY <1>1, <2>0, SizesAssumption DEF Types, Names
  <2>2. Opened' /\ Holds'
    BY <1>1, <2>0 DEF Opened, Holds, InBus
  <2>3. \A p \in Procs : since[p] < epoch'
    BY <1>1, <2>0 DEF Types, Current
  <2>4. Current'
    BY <1>1, <2>0, <2>3 DEF Types, Current
  <2>5. Exclusive'
    BY Zenon, <2>0, <2>3 DEF Exclusive, InBus
  <2> QED
    BY Zenon, <2>1, <2>2, <2>4, <2>5 DEF Control
<1>5. ASSUME NEW w \in Workers, Fork(w) PROVE Control'
  <2>0. /\ monitor = "fork" /\ pc[w] = "unborn" /\ pc' = [pc EXCEPT ![w] = "loop"] /\ monitor' \in {"gone", "wait", "fork"}
        /\ mutex_' = [mutex_ EXCEPT ![w] = smutex] /\ since' = [since EXCEPT ![w] = epoch]
        /\ UNCHANGED <<named, holder, torn, smutex, epoch, starts>>
    BY <1>5 DEF Fork, Spawn, Fresh, Go, busVars
  <2>1. w \in Procs /\ smutex # 0
    BY <1>1, <2>0 DEF Procs, Names
  <2>2. pc' \in [Procs -> Labels] /\ pc'[w] = "loop" /\ \A q \in Procs \ {w} : pc'[q] = pc[q]
    BY <1>1, <2>0, <2>1 DEF Types
  <2> QED
    BY Zenon, <2>0, <2>1, <2>2, AttachControl
<1>6. ASSUME NEW w \in Workers, NEW v \in Workers, MonitorRoutine(w, v) PROVE Control'
  <2>0. /\ monitor = "wait" /\ w # v /\ pc[w] = "killed" /\ pc[v] = "unborn" /\ pc' = [pc EXCEPT ![w] = "replaced", ![v] = "loop"]
        /\ mutex_' = [mutex_ EXCEPT ![v] = smutex] /\ since' = [since EXCEPT ![v] = epoch]
        /\ UNCHANGED <<named, holder, torn, smutex, epoch, starts, monitor>>
    BY <1>6 DEF MonitorRoutine, Spawn, Fresh, busVars
  <2>1. w \in Procs /\ v \in Procs /\ smutex # 0
    BY <1>1, <2>0 DEF Procs, Names
  <2>2. pc' \in [Procs -> Labels] /\ pc'[v] = "loop" /\ \A q \in Procs \ {v} : pc'[q] = pc[q] \/ pc'[q] = "replaced"
    BY <1>1, <2>0, <2>1 DEF Types
  <2> QED
    BY ZenonT(30), <2>0, <2>1, <2>2, AttachControl
<1> QED
  BY <1>2, <1>3, <1>4, <1>5, <1>6 DEF Server

(* A process goes from one place to another, neither into the bus nor from   *)
(* outside to a place where it needs a mutex.                                *)
LEMMA GoControl ==
  ASSUME Control, ~torn, NEW p \in Procs, NEW label \in Labels, Go(p, label),
         label \in Attached => pc[p] \in Attached, label \in Inside => pc[p] \in Inside,
         named' \in {named, 0}, UNCHANGED <<torn, monitor, starts, holder, mutex_, smutex, since, epoch>>
  PROVE  Control'
<1>1. pc \in [Procs -> Labels] /\ pc' = [pc EXCEPT ![p] = label]
  BY DEF Control, Types, Go
<1>2. pc' \in [Procs -> Labels] /\ \A q \in Procs : pc'[q] = IF q = p THEN label ELSE pc[q]
  BY <1>1
<1> QED
  BY <1>2, Moves

\* A worker's steps keep Control.
LEMMA WorkerControl ==
  ASSUME Control, ~torn, NEW w \in Workers, Worker(w) PROVE Control'
<1> USE DEF Labels, Attached, Ended, Inside, serverVars
<1>1. Types /\ w \in Procs
  BY DEF Control, Procs
<1>2. CASE Loop(w)
  <2>1. /\ pc[w] = "loop" /\ (Go(w, "lock") \/ Go(w, "exited"))
        /\ named' \in {named, 0} /\ UNCHANGED <<torn, monitor, starts, holder, mutex_, smutex, since, epoch>>
    BY <1>2 DEF Loop, busVars
  <2> QED
    BY Zenon, <1>1, <2>1, GoControl
<1>3. CASE Lock(w)
  <2>1. pc[w] \in {"lock", "relock"} /\ Acquire(w, "check") /\ UNCHANGED <<smutex, epoch, starts, monitor>>
    BY <1>3 DEF Lock, busVars
  <2> QED
    BY <1>1, <2>1, AcquireControl
<1>4. CASE Check(w)
  <2>1. pc[w] = "check" /\ UNCHANGED <<smutex, epoch, starts, monitor>>
    BY <1>4 DEF Check, busVars
  <2>2. CASE Release(w, "waiting")
    <3>1. /\ holder' = [holder EXCEPT ![mutex_[w]] = None] /\ pc' = [pc EXCEPT ![w] = "waiting"]
          /\ UNCHANGED <<named, mutex_, since, torn>>
      BY <2>2 DEF Release, Go
    <3>2. pc' \in [Procs -> Labels] /\ \A q \in Procs : pc'[q] = IF q = w THEN "waiting" ELSE pc[q]
      BY <1>1, <3>1 DEF Types
    <3> QED
      BY Zenon, <1>1, <2>1, <3>1, <3>2, ReleaseControl DEF InBus
  <2>3. CASE Go(w, "read") /\ UNCHANGED <<lockVars, torn>>
    BY <1>1, <2>1, <2>3, GoControl DEF lockVars
  <2> QED
    BY <1>4, <2>2, <2>3 DEF Check
<1>5. CASE Timeout(w)
  <2>1. pc[w] = "waiting" /\ Go(w, "relock") /\ UNCHANGED <<named, torn, monitor, starts, holder, mutex_, smutex, since, epoch>>
    BY <1>5 DEF Timeout, busVars, lockVars
  <2> QED
    BY <1>1, <2>1, GoControl
<1>6. CASE Read(w)
  <2>1. pc[w] = "read" /\ UNCHANGED <<smutex, starts, monitor>>
    BY <1>6 DEF Read
  <2>2. CASE UNCHANGED <<epoch, lockVars, torn, pc>>
    <3>1. UNCHANGED <<named, torn, pc, monitor, starts, holder, mutex_, smutex, since, epoch>>
      BY <2>1, <2>2 DEF lockVars
    <3>2. pc' \in [Procs -> Labels]
      BY <1>1, <3>1 DEF Types
    <3>3. torn' = torn /\ pc' = pc
      BY <3>1
    <3> HIDE DEF Labels, Attached, Ended, Inside
    <3> QED
      BY <3>1, <3>2, <3>3, Moves
  <2>3. CASE Go(w, "killed") /\ UNCHANGED <<busVars, lockVars, torn>>
    <3>1. Go(w, "killed") /\ UNCHANGED <<named, torn, monitor, starts, holder, mutex_, smutex, since, epoch>>
      BY <2>1, <2>3 DEF lockVars, busVars
    <3>2. "killed" \in Labels /\ "killed" \notin Attached /\ "killed" \notin Inside
      OBVIOUS
    <3> HIDE DEF Labels, Attached, Ended, Inside
    <3> QED
      BY <1>1, <3>1, <3>2, GoControl
  <2>4. CASE Release(w, "append") /\ UNCHANGED busVars
    <3>1. /\ holder' = [holder EXCEPT ![mutex_[w]] = None] /\ pc' = [pc EXCEPT ![w] = "append"]
          /\ UNCHANGED <<named, mutex_, since, torn, epoch>>
      BY <2>4 DEF Release, Go, busVars
    <3>2. pc' \in [Procs -> Labels] /\ \A q \in Procs : pc'[q] = IF q = w THEN "append" ELSE pc[q]
      BY <1>1, <3>1 DEF Types
    <3> QED
      BY Zenon, <1>1, <2>1, <3>1, <3>2, ReleaseControl DEF InBus
  <2> QED
    BY <1>6, <2>2, <2>3, <2>4 DEF Read, AssertsPlen
<1>7. CASE WriteLog(w)
  <2>1. /\ pc[w] = "append" /\ (pc' = pc \/ Go(w, "loop"))
        /\ UNCHANGED <<named, torn, monitor, starts, holder, mutex_, smutex, since, epoch>>
    BY <1>7 DEF WriteLog, busVars, lockVars
  <2>2. CASE pc' = pc
    BY <1>1, <2>1, <2>2, Moves DEF Types
  <2>3. CASE Go(w, "loop")
    BY <1>1, <2>1, <2>3, GoControl
  <2> QED
    BY <2>1, <2>2, <2>3
<1> QED
  BY <1>2, <1>3, <1>4, <1>5, <1>6, <1>7 DEF Worker

\* A client's steps keep Control.
LEMMA ClientControl ==
  ASSUME Control, ~torn, NEW c \in Clients, Client(c) PROVE Control'
<1> USE DEF Labels, Attached, Ended, Inside, serverVars
<1>1. Types /\ c \in Procs
  BY DEF Control, Procs
<1>2. CASE Connect(c)
  <2>1. /\ pc[c] = "connect" /\ (Go(c, "open") \/ Go(c, "killed"))
        /\ UNCHANGED <<named, torn, monitor, starts, holder, mutex_, smutex, since, epoch>>
    BY <1>2 DEF Connect, busVars, lockVars
  <2> QED
    BY <1>1, <2>1, GoControl
<1>3. CASE OpenSyncTools(c)
  <2>1. pc[c] = "open" /\ UNCHANGED <<named, holder, torn, smutex, epoch, starts, monitor>>
    BY <1>3 DEF OpenSyncTools, busVars
  <2>2. CASE named # 0 /\ mutex_' = [mutex_ EXCEPT ![c] = named] /\ since' = [since EXCEPT ![c] = epoch] /\ Go(c, "loop")
    <3>1. smutex # 0 /\ mutex_' = [mutex_ EXCEPT ![c] = smutex]
      BY Zenon, <2>2 DEF Control, Names
    <3>2. pc' \in [Procs -> Labels] /\ pc'[c] = "loop" /\ \A q \in Procs \ {c} : pc'[q] = pc[q]
      BY <1>1, <2>2 DEF Types, Go
    <3> QED
      BY Zenon, <1>1, <2>1, <2>2, <3>1, <3>2, AttachControl
  <2>3. CASE Go(c, "killed") /\ UNCHANGED <<mutex_, since>>
    BY <1>1, <2>1, <2>3, GoControl
  <2> QED
    BY <1>3, <2>2, <2>3 DEF OpenSyncTools
<1>4. CASE ThreadRoutine(c)
  <2>1. /\ pc[c] = "loop" /\ (Go(c, "lock") \/ Go(c, "exited"))
        /\ UNCHANGED <<named, torn, monitor, starts, holder, mutex_, smutex, since, epoch>>
    BY <1>4 DEF ThreadRoutine, busVars, lockVars
  <2> QED
    BY <1>1, <2>1, GoControl
<1>5. CASE OutputLock(c)
  <2>1. pc[c] = "lock" /\ Acquire(c, "write") /\ UNCHANGED <<smutex, epoch, starts, monitor>>
    BY <1>5 DEF OutputLock, busVars
  <2> QED
    BY <1>1, <2>1, AcquireControl
<1>6. CASE OutputWrite(c)
  <2>1. pc[c] = "write" /\ UNCHANGED <<smutex, epoch, starts, monitor>>
    BY <1>6 DEF OutputWrite, busVars
  <2>2. CASE Go(c, "notify") /\ UNCHANGED <<lockVars, torn>>
    BY <1>1, <2>1, <2>2, GoControl DEF lockVars
  <2>3. CASE Release(c, "loop")
    <3>1. /\ holder' = [holder EXCEPT ![mutex_[c]] = None] /\ pc' = [pc EXCEPT ![c] = "loop"]
          /\ UNCHANGED <<named, mutex_, since, torn>>
      BY <2>3 DEF Release, Go
    <3>2. pc' \in [Procs -> Labels] /\ \A q \in Procs : pc'[q] = IF q = c THEN "loop" ELSE pc[q]
      BY <1>1, <3>1 DEF Types
    <3> QED
      BY Zenon, <1>1, <2>1, <3>1, <3>2, ReleaseControl DEF InBus
  <2> QED
    BY <1>6, <2>2, <2>3 DEF OutputWrite
<1>7. CASE OutputNotify(c)
  <2>1. /\ pc[c] = "notify" /\ holder' = [holder EXCEPT ![mutex_[c]] = None]
        /\ UNCHANGED <<named, mutex_, since, torn, smutex, epoch, starts, monitor>>
    BY <1>7 DEF OutputNotify, busVars
  <2>2. /\ pc' \in [Procs -> Labels] /\ pc'[c] = "loop"
        /\ \A q \in Procs \ {c} : pc'[q] = pc[q] \/ (pc[q] = "waiting" /\ pc'[q] = "relock")
    <3>1. CASE Go(c, "loop")
      BY <1>1, <3>1 DEF Types, Go
    <3>2. ASSUME NEW w \in Waiters(c), pc' = [pc EXCEPT ![c] = "loop", ![w] = "relock"]
          PROVE  /\ pc' \in [Procs -> Labels] /\ pc'[c] = "loop"
                 /\ \A q \in Procs \ {c} : pc'[q] = pc[q] \/ (pc[q] = "waiting" /\ pc'[q] = "relock")
      <4>1. w \in Procs /\ w # c /\ pc[w] = "waiting"
        BY <2>1, <3>2 DEF Waiters, Procs
      <4> QED
        BY <1>1, <3>2, <4>1 DEF Types
    <3> QED
      BY <1>7, <3>1, <3>2 DEF OutputNotify
  <2> QED
    BY Zenon, <1>1, <2>1, <2>2, ReleaseControl DEF InBus
<1> QED
  BY <1>2, <1>3, <1>4, <1>5, <1>6, <1>7 DEF Client

\* Kills, signals and starts keep Control.
LEMMA EnvironmentControl ==
  ASSUME Control, ~torn, Environment PROVE Control'
<1> USE DEF Labels, Attached, Ended, Inside, serverVars
<1>1. Types
  BY DEF Control
<1>2. ASSUME NEW p \in Procs, Stop(p) PROVE Control'
  <2>1. UNCHANGED <<pc, named, torn, monitor, starts, holder, mutex_, smutex, since, epoch>>
    BY <1>2 DEF Stop, busVars, lockVars
  <2> QED
    BY <1>1, <2>1, Moves DEF Types
<1>3. ASSUME NEW p \in Procs, Kill(p) PROVE Control'
  <2>1. Go(p, "killed") /\ UNCHANGED <<named, torn, monitor, starts, holder, mutex_, smutex, since, epoch>>
    BY <1>3 DEF Kill, busVars, lockVars
  <2> QED
    BY <1>1, <2>1, GoControl
<1>4. CASE KillMonitor
  <2>1. monitor' = "gone" /\ UNCHANGED <<pc, named, torn, starts, holder, mutex_, smutex, since, epoch>>
    BY <1>4 DEF KillMonitor, busVars, lockVars
  <2> QED
    BY <1>1, <2>1, Moves DEF Types
<1> QED
  BY <1>2, <1>3, <1>4 DEF Environment

\* Every step keeps Control.
LEMMA NextControl == Control /\ [Next]_vars => Control'
<1> SUFFICES ASSUME Control, [Next]_vars PROVE Control'
  OBVIOUS
<1>1. CASE Next
  BY <1>1, ServerControl, WorkerControl, ClientControl, EnvironmentControl DEF Next
<1>2. CASE UNCHANGED vars
  <2>1. UNCHANGED <<pc, named, torn, monitor, starts, holder, mutex_, smutex, since, epoch>>
    BY <1>2 DEF vars, busVars, lockVars, serverVars
  <2>2. Types' /\ Names' /\ Current'
    BY Zenon, <2>1 DEF Control, Types, Names, Current
  <2>3. Opened' /\ Holds' /\ Exclusive'
    BY <2>1 DEF Control, Opened, Holds, Exclusive, InBus
  <2> QED
    BY <2>2, <2>3 DEF Control
<1> QED
  BY <1>1, <1>2

(* The mutexes and the bus are used as Control says in every state.          *)
THEOREM ControlAlways == Spec => []Control
BY InitControl, NextControl, PTL DEF Spec

(* For any clients, workers, starts, kills and signals: two processes are    *)
(* inside the bus at once, or one while Listen resets it, only if one of     *)
(* them attached before the latest server had called Listen.                 *)
THEOREM ExclusiveAlways == Spec => []Exclusive
<1>1. Control => Exclusive
  BY DEF Control
<1> QED
  BY <1>1, ControlAlways, PTL

-----------------------------------------------------------------------------
(* Data.  First what Append, Head and Tail do to the values of a sequence.   *)
LEMMA EmptyVals == Vals(<<>>) = {} /\ Increasing(<<>>) /\ <<>> \in Seq(Nat) /\ Len(<<>>) = 0
BY DEF Vals, Increasing

\* Appending a larger number keeps a sequence increasing.
LEMMA AppendVals ==
  ASSUME NEW s \in Seq(Nat), NEW x \in Nat
  PROVE  /\ Append(s, x) \in Seq(Nat) /\ Len(Append(s, x)) = Len(s) + 1
         /\ Vals(Append(s, x)) = Vals(s) \cup {x}
         /\ Increasing(s) /\ (\A y \in Vals(s) : y < x) => Increasing(Append(s, x))
<1>1. /\ Append(s, x) \in Seq(Nat) /\ Len(Append(s, x)) = Len(s) + 1 /\ Len(s) \in Nat
      /\ \A i \in 1 .. Len(s) : Append(s, x)[i] = s[i]
      /\ Append(s, x)[Len(s) + 1] = x
  OBVIOUS
<1>2. Vals(Append(s, x)) = Vals(s) \cup {x}
  <2>1. \A i : i \in 1 .. Len(s) + 1 <=> i \in 1 .. Len(s) \/ i = Len(s) + 1
    BY <1>1
  <2> HIDE <1>1
  <2> QED
    BY <1>1, <2>1 DEF Vals
<1>3. ASSUME Increasing(s), \A y \in Vals(s) : y < x, NEW i \in 1 .. Len(s) + 1, NEW j \in 1 .. Len(s) + 1, i < j
      PROVE  Append(s, x)[i] < Append(s, x)[j]
  <2>1. i \in 1 .. Len(s) /\ (j \in 1 .. Len(s) \/ j = Len(s) + 1)
    BY <1>1, <1>3
  <2> QED
    BY <1>1, <1>3, <2>1 DEF Increasing, Vals
<1> QED
  BY Zenon, <1>1, <1>2, <1>3 DEF Increasing

\* The head of an increasing sequence is below its tail.
LEMMA TailVals ==
  ASSUME NEW s \in Seq(Nat), s # <<>>
  PROVE  /\ Tail(s) \in Seq(Nat) /\ Len(Tail(s)) = Len(s) - 1 /\ Len(s) > 0 /\ Head(s) \in Nat
         /\ Vals(s) = Vals(Tail(s)) \cup {Head(s)}
         /\ Increasing(s) => Increasing(Tail(s)) /\ \A y \in Vals(Tail(s)) : Head(s) < y
<1>1. /\ Tail(s) \in Seq(Nat) /\ Len(Tail(s)) = Len(s) - 1 /\ Len(s) > 0 /\ Len(s) \in Nat
      /\ Head(s) = s[1] /\ Head(s) \in Nat /\ \A i \in 1 .. Len(s) - 1 : Tail(s)[i] = s[i + 1]
  OBVIOUS
<1>2. Vals(s) = Vals(Tail(s)) \cup {Head(s)}
  <2>1. ASSUME NEW i \in 1 .. Len(s) PROVE s[i] \in Vals(Tail(s)) \cup {Head(s)}
    <3>1. i = 1 \/ (i - 1 \in 1 .. Len(s) - 1 /\ (i - 1) + 1 = i)
      BY <1>1
    <3> QED
      BY <1>1, <3>1 DEF Vals
  <2>2. ASSUME NEW i \in 1 .. Len(s) - 1 PROVE Tail(s)[i] \in Vals(s)
    <3>1. i + 1 \in 1 .. Len(s)
      BY <1>1
    <3> QED
      BY <1>1, <3>1 DEF Vals
  <2>3. Head(s) \in Vals(s)
    <3>1. 1 \in 1 .. Len(s)
      BY <1>1
    <3> QED
      BY <1>1, <3>1 DEF Vals
  <2> QED
    BY <1>1, <2>1, <2>2, <2>3 DEF Vals
<1>3. ASSUME Increasing(s), NEW i \in 1 .. Len(s) - 1 PROVE Head(s) < Tail(s)[i]
  <2>1. i + 1 \in 1 .. Len(s) /\ 1 \in 1 .. Len(s) /\ 1 < i + 1
    BY <1>1
  <2> QED
    BY <1>1, <1>3, <2>1 DEF Increasing
<1>4. ASSUME Increasing(s), NEW i \in 1 .. Len(s) - 1, NEW j \in 1 .. Len(s) - 1, i < j PROVE Tail(s)[i] < Tail(s)[j]
  <2>1. i + 1 \in 1 .. Len(s) /\ j + 1 \in 1 .. Len(s) /\ i + 1 < j + 1
    BY <1>1, <1>4
  <2> QED
    BY <1>1, <1>4, <2>1 DEF Increasing
<1> QED
  BY Zenon, <1>1, <1>2, <1>3, <1>4 DEF Increasing, Vals

\* Nothing was accepted at the beginning.
LEMMA InitData == Init => Data
<1> SUFFICES ASSUME Init PROVE Data
  OBVIOUS
<1>1. /\ bus = <<>> /\ msgs = [w \in Workers |-> <<>>] /\ log = [w \in Workers |-> <<>>]
      /\ accepted = 0 /\ dropped = {}
  BY DEF Init
<1>2. DataTypes /\ Batches
  BY <1>1, EmptyVals DEF DataTypes, Batches
<1>3. Vals(bus) = {} /\ \A w \in Workers : msgs[w] = <<>> /\ log[w] = <<>> /\ Held(w) = {}
  BY <1>1, EmptyVals DEF Held
<1>4. Sorted /\ Apart
  BY <1>1, <1>3, EmptyVals DEF Sorted, Apart
<1>5. Bounded
  BY <1>1, <1>3, EmptyVals, SizesAssumption DEF Bounded
<1>6. Covered
  BY <1>1 DEF Covered
<1> QED
  BY <1>2, <1>4, <1>5, <1>6 DEF Data

(* A step that leaves the messages where they are. *)
LEMMA Keeps ==
  ASSUME Data, UNCHANGED <<bus, msgs, log, accepted, dropped>>,
         \A w \in Workers : pc'[w] \in Idle => pc[w] \in Idle \/ msgs[w] = <<>>
  PROVE  Data'
<1>1. DataTypes /\ Sorted /\ Bounded /\ Covered /\ Apart /\ Batches
  BY DEF Data
<1>2. Batches' /\ DataTypes'
  BY <1>1 DEF Batches, DataTypes
<1>3. \A w : Held(w)' = Held(w)
  BY DEF Held
<1>4. Sorted' /\ Bounded' /\ Covered' /\ Apart'
  BY Zenon, <1>1, <1>3 DEF Sorted, Bounded, Covered, Apart
<1> QED
  BY <1>2, <1>4 DEF Data

(* Listen forgets what is on the bus. *)
LEMMA ListenData == ASSUME Data, Listen PROVE Data'
<1>0. dropped' = dropped \cup Vals(bus) /\ bus' = <<>> /\ UNCHANGED <<msgs, log, accepted, pc>>
  BY DEF Listen, workVars, Vals
<1>1. DataTypes /\ Sorted /\ Bounded /\ Covered /\ Apart /\ Batches
  BY DEF Data
<1>2. Vals(bus') = {} /\ Increasing(bus') /\ bus' \in Seq(Nat) /\ Len(bus') = 0 /\ Len(bus) \in Nat
  BY <1>0, <1>1, EmptyVals DEF DataTypes
<1>3. \A w : Held(w)' = Held(w)
  BY <1>0 DEF Held
<1>4. DataTypes' /\ Batches'
  BY Zenon, <1>0, <1>1, <1>2 DEF DataTypes, Bounded, Batches
<1>5. Sorted'
  BY <1>0, <1>1, <1>2, <1>3 DEF Sorted
<1>6. Bounded'
  <2>1. ASSUME NEW w \in Workers PROVE Len(log[w]) + Len(msgs[w]) + 0 <= accepted
    <3>1. Len(log[w]) \in Nat /\ Len(msgs[w]) \in Nat /\ accepted \in Nat
      BY <1>1 DEF DataTypes
    <3>2. Len(log[w]) + Len(msgs[w]) + Len(bus) <= accepted
      BY Zenon, <1>1 DEF Bounded
    <3>3. \A a, b, c, n \in Nat : a + b + c <= n => a + b + 0 <= n
      OBVIOUS
    <3> QED
      BY Zenon, <1>2, <3>1, <3>2, <3>3
  <2> QED
    BY Zenon, <1>0, <1>1, <1>2, <1>3, <2>1 DEF Bounded
<1>7. Covered'
  BY <1>0, <1>1, <1>3 DEF Covered
<1>8. Apart'
  <2>1. ASSUME NEW w \in Workers, NEW x \in Held(w) PROVE x \notin Vals(bus)
    <3>1. x \in 1 .. accepted /\ accepted \in Nat
      BY <1>1 DEF Bounded, DataTypes
    <3>2. ~(x < x)
      BY <3>1
    <3> QED
      BY <1>1, <3>2 DEF Sorted
  <2> QED
    BY Zenon, <1>0, <1>1, <1>2, <1>3, <2>1 DEF Apart
<1> QED
  BY Zenon, <1>4, <1>5, <1>6, <1>7, <1>8 DEF Data

(* A worker takes the first message of the bus to the end of its batch. *)
LEMMA PopData ==
  ASSUME Data, NEW w \in Workers, pc[w] = "read", Len(msgs[w]) < MaxBatch, bus # <<>>,
         msgs' = [msgs EXCEPT ![w] = Append(@, Head(bus))], bus' = Tail(bus),
         UNCHANGED <<log, accepted, dropped, pc>>
  PROVE  Data'
<1> DEFINE x == Head(bus)
<1>1. DataTypes /\ Sorted /\ Bounded /\ Covered /\ Apart /\ Batches
  BY DEF Data
<1>2. /\ bus \in Seq(Nat) /\ accepted \in Nat /\ msgs[w] \in Seq(Nat) /\ log[w] \in Seq(Nat) /\ x \in Nat
      /\ msgs'[w] = Append(msgs[w], x) /\ \A v \in Workers \ {w} : msgs'[v] = msgs[v]
  BY <1>1, TailVals DEF DataTypes
<1>3. /\ bus' \in Seq(Nat) /\ Len(bus') = Len(bus) - 1 /\ Len(bus) > 0
      /\ Vals(bus) = Vals(bus') \cup {x} /\ Increasing(bus') /\ \A y \in Vals(bus') : x < y
  BY <1>1, <1>2, TailVals DEF Sorted
<1>4. \A v \in Workers : \A y \in Held(v) : y < x
  BY Zenon, <1>1, <1>3 DEF Sorted
<1>4a. Increasing(msgs[w]) /\ \A y \in Vals(msgs[w]) : y < x
  BY Zenon, <1>1, <1>4 DEF Sorted, Held
<1>5. /\ msgs'[w] \in Seq(Nat) /\ Len(msgs'[w]) = Len(msgs[w]) + 1 /\ Vals(msgs'[w]) = Vals(msgs[w]) \cup {x}
      /\ Increasing(msgs'[w])
  BY <1>2, <1>4a, AppendVals
<1> HIDE DEF x
<1>6. Held(w)' = Held(w) \cup {x} /\ \A v \in Workers \ {w} : Held(v)' = Held(v)
  BY <1>2, <1>5 DEF Held
<1>7. DataTypes'
  BY <1>1, <1>2, <1>3, <1>5 DEF DataTypes
<1>8. Batches'
  BY Zenon, <1>1, <1>2 DEF Batches, Idle
<1>9. Sorted'
  <2>1. ASSUME NEW v \in Workers
        PROVE  /\ Increasing(log[v]) /\ Increasing(msgs'[v])
               /\ \A a \in Vals(log[v]) : \A b \in Vals(msgs'[v]) : a < b
    <3>1. CASE v = w
      BY Zenon, <1>1, <1>4, <1>5, <3>1 DEF Sorted, Held
    <3>2. CASE v # w
      BY Zenon, <1>1, <1>2, <3>2 DEF Sorted
    <3> QED
      BY Zenon, <3>1, <3>2
  <2>2. ASSUME NEW v \in Workers, NEW a \in Held(v)', NEW b \in Vals(bus') PROVE a < b
    <3>1. a \in Held(v) \/ a = x
      BY <1>6
    <3> QED
      BY <1>1, <1>3, <3>1 DEF Sorted
  <2> QED
    BY Zenon, <1>3, <2>1, <2>2 DEF Sorted
<1>10. Bounded'
  <2>1. x \in 1 .. accepted /\ Vals(bus') \subseteq 1 .. accepted
    BY <1>1, <1>3 DEF Bounded
  <2>2. ASSUME NEW v \in Workers PROVE Held(v)' \subseteq 1 .. accepted
    BY Zenon, <1>1, <1>6, <2>1 DEF Bounded
  <2>3. ASSUME NEW v \in Workers PROVE Len(msgs'[v]) <= MaxBatch /\ Len(log[v]) + Len(msgs'[v]) + Len(bus') <= accepted
    <3>1. Len(log[v]) \in Nat /\ Len(msgs[v]) \in Nat /\ Len(bus) \in Nat /\ MaxBatch \in Nat
      BY <1>1, SizesAssumption DEF DataTypes
    <3>2. Len(msgs[v]) <= MaxBatch /\ Len(log[v]) + Len(msgs[v]) + Len(bus) <= accepted
      BY Zenon, <1>1 DEF Bounded
    <3>3. \A a, b, c, n \in Nat : c > 0 /\ a + b + c <= n => a + (b + 1) + (c - 1) <= n /\ a + b + (c - 1) <= n
      OBVIOUS
    <3>4. CASE v = w
      <4>1. Len(log[w]) + (Len(msgs[w]) + 1) + (Len(bus) - 1) <= accepted
        BY Zenon, <1>2, <1>3, <3>1, <3>2, <3>3, <3>4
      <4>2. Len(msgs[w]) + 1 <= MaxBatch
        BY <3>1, <3>4
      <4> QED
        BY Zenon, <1>3, <1>5, <3>4, <4>1, <4>2
    <3>5. CASE v # w
      BY Zenon, <1>2, <1>3, <3>1, <3>2, <3>3, <3>5
    <3> QED
      BY Zenon, <3>4, <3>5
  <2> QED
    BY Zenon, <2>1, <2>2, <2>3 DEF Bounded
<1>11. Covered'
  BY <1>1, <1>3, <1>6 DEF Covered
<1>12. Apart'
  <2>0. ~(x < x)
    BY <1>2
  <2>1. \A v \in Workers : x \notin Held(v)
    BY <1>4, <2>0
  <2>2. x \notin dropped
    BY <1>1, <1>3 DEF Apart
  <2> QED
    BY <1>1, <1>3, <1>6, <2>1, <2>2 DEF Apart
<1> QED
  BY <1>7, <1>8, <1>9, <1>10, <1>11, <1>12 DEF Data

(* A worker moves the first message of its batch to the end of its file. *)
LEMMA WriteData ==
  ASSUME Data, NEW w \in Workers, pc[w] = "append", msgs[w] # <<>>,
         log' = [log EXCEPT ![w] = Append(@, Head(msgs[w]))], msgs' = [msgs EXCEPT ![w] = Tail(@)],
         UNCHANGED <<bus, accepted, dropped, pc>>
  PROVE  Data'
<1> DEFINE x == Head(msgs[w])
<1>1. DataTypes /\ Sorted /\ Bounded /\ Covered /\ Apart /\ Batches
  BY DEF Data
<1>2. /\ msgs[w] \in Seq(Nat) /\ log[w] \in Seq(Nat) /\ x \in Nat
      /\ msgs'[w] = Tail(msgs[w]) /\ log'[w] = Append(log[w], x)
      /\ \A v \in Workers \ {w} : msgs'[v] = msgs[v] /\ log'[v] = log[v]
  BY <1>1, TailVals DEF DataTypes
<1>3. /\ msgs'[w] \in Seq(Nat) /\ Len(msgs'[w]) = Len(msgs[w]) - 1 /\ Len(msgs[w]) > 0
      /\ Vals(msgs[w]) = Vals(msgs'[w]) \cup {x} /\ Increasing(msgs'[w]) /\ \A y \in Vals(msgs'[w]) : x < y
  <2>1. Increasing(msgs[w])
    BY Zenon, <1>1 DEF Sorted
  <2>2. /\ Tail(msgs[w]) \in Seq(Nat) /\ Len(Tail(msgs[w])) = Len(msgs[w]) - 1 /\ Len(msgs[w]) > 0
        /\ Vals(msgs[w]) = Vals(Tail(msgs[w])) \cup {x} /\ Increasing(Tail(msgs[w]))
        /\ \A y \in Vals(Tail(msgs[w])) : x < y
    BY Zenon, <1>2, <2>1, TailVals
  <2>3. msgs'[w] = Tail(msgs[w])
    BY Zenon, <1>2
  <2> QED
    BY Zenon, <2>2, <2>3
<1>4. \A y \in Vals(log[w]) : y < x
  BY Zenon, <1>1, <1>3 DEF Sorted
<1>5. /\ log'[w] \in Seq(Nat) /\ Len(log'[w]) = Len(log[w]) + 1 /\ Vals(log'[w]) = Vals(log[w]) \cup {x}
      /\ Increasing(log'[w])
  BY <1>1, <1>2, <1>4, AppendVals DEF Sorted
<1> HIDE DEF x
<1>6. \A v \in Workers : Held(v)' = Held(v)
  BY Zenon, <1>2, <1>3, <1>5 DEF Held
<1>7. DataTypes'
  BY Zenon, <1>1, <1>2, <1>3, <1>5 DEF DataTypes
<1>8. Batches'
  BY Zenon, <1>1, <1>2 DEF Batches, Idle
<1>9. Sorted'
  <2>1. ASSUME NEW v \in Workers
        PROVE  /\ Increasing(log'[v]) /\ Increasing(msgs'[v])
               /\ \A a \in Vals(log'[v]) : \A b \in Vals(msgs'[v]) : a < b
    <3>1. CASE v = w
      BY Zenon, <1>1, <1>3, <1>5, <3>1 DEF Sorted
    <3>2. CASE v # w
      BY <1>1, <1>2, <3>2 DEF Sorted
    <3> QED
      BY <3>1, <3>2
  <2> QED
    BY Zenon, <1>1, <1>6, <2>1 DEF Sorted
<1>10. Bounded'
  <2>1. ASSUME NEW v \in Workers PROVE Len(msgs'[v]) <= MaxBatch /\ Len(log'[v]) + Len(msgs'[v]) + Len(bus) <= accepted
    <3>1. Len(log[v]) \in Nat /\ Len(msgs[v]) \in Nat /\ Len(bus) \in Nat /\ MaxBatch \in Nat /\ accepted \in Nat
      BY <1>1, SizesAssumption DEF DataTypes
    <3>2. Len(msgs[v]) <= MaxBatch /\ Len(log[v]) + Len(msgs[v]) + Len(bus) <= accepted
      BY Zenon, <1>1 DEF Bounded
    <3>3. \A a, b, c, n \in Nat : b > 0 /\ a + b + c <= n => (a + 1) + (b - 1) + c <= n
      OBVIOUS
    <3>4. CASE v = w
      <4>1. (Len(log[w]) + 1) + (Len(msgs[w]) - 1) + Len(bus) <= accepted
        BY Zenon, <1>3, <3>1, <3>2, <3>3, <3>4
      <4>2. Len(msgs[w]) - 1 <= MaxBatch
        BY <3>1, <3>2, <3>4
      <4> QED
        BY Zenon, <1>3, <1>5, <3>4, <4>1, <4>2
    <3>5. CASE v # w
      BY Zenon, <1>2, <3>2, <3>5
    <3> QED
      BY Zenon, <3>4, <3>5
  <2> QED
    BY Zenon, <1>1, <1>6, <2>1 DEF Bounded
<1>11. Covered' /\ Apart'
  BY <1>1, <1>6 DEF Covered, Apart
<1> QED
  BY <1>7, <1>8, <1>9, <1>10, <1>11 DEF Data

(* The bus accepts a message, which gets the next number. *)
LEMMA PushData ==
  ASSUME Data, NEW c \in Clients, bus' = Append(bus, accepted + 1), accepted' = accepted + 1,
         \A w \in Workers : pc'[w] = pc[w], UNCHANGED <<msgs, log, dropped>>
  PROVE  Data'
<1> DEFINE x == accepted + 1
<1>1. DataTypes /\ Sorted /\ Bounded /\ Covered /\ Apart /\ Batches
  BY DEF Data
<1>2. /\ bus \in Seq(Nat) /\ accepted \in Nat /\ x \in Nat /\ \A y \in 1 .. accepted : y < x
      /\ 1 .. x = (1 .. accepted) \cup {x} /\ x \notin 1 .. accepted
  BY <1>1 DEF DataTypes
<1>3. /\ bus' \in Seq(Nat) /\ Len(bus') = Len(bus) + 1 /\ Vals(bus') = Vals(bus) \cup {x} /\ Increasing(bus')
  BY <1>1, <1>2, AppendVals DEF Sorted, Bounded
<1>4. accepted' = x
  OBVIOUS
<1> HIDE DEF x
<1>5. \A v : Held(v)' = Held(v)
  BY DEF Held
<1>6. DataTypes' /\ Batches'
  BY Zenon, <1>1, <1>2, <1>3, <1>4 DEF DataTypes, Batches
<1>7. Sorted'
  BY ZenonT(60), <1>1, <1>2, <1>3, <1>5 DEF Sorted, Bounded
<1>8. Bounded'
  <2>1. ASSUME NEW v \in Workers PROVE Len(log[v]) + Len(msgs[v]) + Len(bus') <= accepted'
    <3>1. Len(log[v]) \in Nat /\ Len(msgs[v]) \in Nat /\ Len(bus) \in Nat
      BY <1>1 DEF DataTypes
    <3>2. Len(log[v]) + Len(msgs[v]) + Len(bus) <= accepted
      BY ZenonT(30), <1>1 DEF Bounded
    <3>3. \A a, b, d, n \in Nat : a + b + d <= n => a + b + (d + 1) <= n + 1
      OBVIOUS
    <3> QED
      BY Zenon, <1>2, <1>3, <3>1, <3>2, <3>3
  <2> QED
    BY Zenon, <1>1, <1>2, <1>3, <1>4, <1>5, <2>1 DEF Bounded
<1>9. Covered'
  BY Zenon, <1>1, <1>2, <1>3, <1>4, <1>5 DEF Covered
<1>10. Apart'
  <2>1. x \notin dropped
    BY Zenon, <1>1, <1>2 DEF DataTypes
  <2> QED
    BY Zenon, <1>1, <1>3, <1>5, <2>1 DEF Apart
<1> QED
  BY <1>6, <1>7, <1>8, <1>9, <1>10 DEF Data

\* A step that only moves a program counter keeps Data, if no worker leaves a batch behind.
LEMMA GoData ==
  ASSUME Data, Types, NEW p \in Procs, NEW label \in Labels, Go(p, label),
         p \in Workers /\ label \in Idle => pc[p] \in Idle \/ msgs[p] = <<>>,
         UNCHANGED <<bus, msgs, log, accepted, dropped>>
  PROVE  Data'
<1>1. \A w \in Workers : pc'[w] = IF w = p THEN label ELSE pc[w]
  BY DEF Types, Go, Procs
<1>2. \A w \in Workers : pc'[w] \in Idle => pc[w] \in Idle \/ msgs[w] = <<>>
  BY <1>1
<1> QED
  BY Zenon, <1>2, Keeps

\* The steps of the server's first process keep Data.
LEMMA ServerData ==
  ASSUME Data, Types, Server PROVE Data'
<1> USE DEF Labels, Attached, Ended, Inside, Idle
<1>1. CASE InitSyncTools \/ InitFails
  <2>1. UNCHANGED <<pc, bus, msgs, log, accepted, dropped>>
    BY <1>1 DEF InitSyncTools, InitFails, busVars, workVars
  <2> QED
    BY <2>1, Keeps
<1>2. CASE Listen
  BY Zenon, <1>2, ListenData
<1>3. ASSUME NEW w \in Workers, Fork(w) PROVE Data'
  <2>1. w \in Procs /\ pc[w] = "unborn" /\ Go(w, "loop") /\ UNCHANGED <<bus, msgs, log, accepted, dropped>>
    BY <1>3 DEF Fork, Spawn, Fresh, busVars, workVars, Procs
  <2> QED
    BY Zenon, <2>1, GoData
<1>4. ASSUME NEW w \in Workers, NEW v \in Workers, MonitorRoutine(w, v) PROVE Data'
  <2>1. /\ w # v /\ pc[v] = "unborn" /\ pc' = [pc EXCEPT ![w] = "replaced", ![v] = "loop"]
        /\ UNCHANGED <<bus, msgs, log, accepted, dropped>>
    BY <1>4 DEF MonitorRoutine, Spawn, Fresh, busVars, workVars
  <2>2. \A u \in Workers : pc'[u] = IF u = v THEN "loop" ELSE IF u = w THEN "replaced" ELSE pc[u]
    BY <2>1 DEF Types, Procs
  <2>3. \A u \in Workers : pc'[u] \in Idle => pc[u] \in Idle
    BY <2>1, <2>2
  <2> QED
    BY Zenon, <2>1, <2>3, Keeps
<1> QED
  BY <1>1, <1>2, <1>3, <1>4 DEF Server

\* A worker's steps keep Data: Read and WriteLog move one message.
LEMMA WorkerData ==
  ASSUME Data, Types, NEW w \in Workers, Worker(w) PROVE Data'
<1> USE DEF Labels, Attached, Ended, Inside, Idle
<1>0. w \in Procs
  BY Zenon DEF Procs
<1>1. CASE Loop(w)
  <2>1. pc[w] = "loop" /\ (Go(w, "lock") \/ Go(w, "exited")) /\ UNCHANGED <<bus, msgs, log, accepted, dropped>>
    BY Zenon, <1>1 DEF Loop, busVars, workVars
  <2> QED
    BY Zenon, <1>0, <2>1, GoData
<1>2. CASE Lock(w)
  <2>1. pc[w] \in {"lock", "relock"} /\ Go(w, "check") /\ UNCHANGED <<bus, msgs, log, accepted, dropped>>
    BY Zenon, <1>2 DEF Lock, Acquire, busVars, workVars
  <2> QED
    BY Zenon, <1>0, <2>1, GoData
<1>3. CASE Check(w)
  <2>1. pc[w] = "check" /\ (Go(w, "waiting") \/ Go(w, "read")) /\ UNCHANGED <<bus, msgs, log, accepted, dropped>>
    BY Zenon, <1>3 DEF Check, Release, busVars, workVars
  <2> QED
    BY Zenon, <1>0, <2>1, GoData
<1>4. CASE Timeout(w)
  <2>1. pc[w] = "waiting" /\ Go(w, "relock") /\ UNCHANGED <<bus, msgs, log, accepted, dropped>>
    BY Zenon, <1>4 DEF Timeout, busVars, workVars
  <2> QED
    BY <1>0, <2>1, GoData
<1>5. CASE Read(w)
  <2>1. CASE /\ Len(msgs[w]) < MaxBatch /\ bus # <<>> /\ msgs' = [msgs EXCEPT ![w] = Append(@, Head(bus))]
             /\ bus' = Tail(bus) /\ UNCHANGED <<file, accepted, dropped, epoch, lockVars, torn, pc, log>>
    <3>1. pc[w] = "read" /\ UNCHANGED <<log, accepted, dropped, pc>>
      BY Zenon, <1>5, <2>1 DEF Read
    <3> QED
      BY Zenon, <2>1, <3>1, PopData
  <2>2. CASE (Go(w, "killed") \/ Go(w, "append")) /\ UNCHANGED <<busVars, workVars>>
    <3>1. (Go(w, "killed") \/ Go(w, "append")) /\ UNCHANGED <<bus, msgs, log, accepted, dropped>>
      BY Zenon, <2>2 DEF busVars, workVars
    <3> QED
      BY <1>0, <3>1, GoData
  <2>3. Read(w) => \/ /\ Len(msgs[w]) < MaxBatch /\ bus # <<>> /\ msgs' = [msgs EXCEPT ![w] = Append(@, Head(bus))]
                      /\ bus' = Tail(bus) /\ UNCHANGED <<file, accepted, dropped, epoch, lockVars, torn, pc, log>>
                   \/ (Go(w, "killed") \/ Go(w, "append")) /\ UNCHANGED <<busVars, workVars>>
    BY DEF Read, AssertsPlen, Release
  <2> QED
    BY <1>5, <2>1, <2>2, <2>3
<1>6. CASE WriteLog(w)
  <2>0. pc[w] = "append" /\ UNCHANGED <<bus, accepted, dropped>>
    BY <1>6 DEF WriteLog, busVars
  <2>1. CASE /\ msgs[w] # <<>> /\ log' = [log EXCEPT ![w] = Append(@, Head(msgs[w]))]
             /\ msgs' = [msgs EXCEPT ![w] = Tail(@)] /\ UNCHANGED pc
    BY ZenonT(30), <2>0, <2>1, WriteData
  <2>2. CASE msgs[w] = <<>> /\ Go(w, "loop") /\ UNCHANGED workVars
    <3>1. msgs[w] = <<>> /\ Go(w, "loop") /\ UNCHANGED <<bus, msgs, log, accepted, dropped>>
      BY Zenon, <2>0, <2>2 DEF workVars
    <3> QED
      BY Zenon, <1>0, <3>1, GoData
  <2> QED
    BY Zenon, <1>6, <2>1, <2>2 DEF WriteLog
<1> QED
  BY <1>1, <1>2, <1>3, <1>4, <1>5, <1>6 DEF Worker

\* A client's steps keep Data: OutputWrite gives the message the next number.
LEMMA ClientData ==
  ASSUME Data, Types, NEW c \in Clients, Client(c) PROVE Data'
<1> USE DEF Labels, Attached, Ended, Inside, Idle
<1>0. c \in Procs /\ c \notin Workers /\ \A l : Go(c, l) => \A w \in Workers : pc'[w] = pc[w]
  BY Zenon, ProcsAssumption DEF Procs, Types, Go
<1>1. CASE Connect(c) \/ OpenSyncTools(c) \/ ThreadRoutine(c) \/ OutputLock(c)
  <2>1. (\E l : Go(c, l)) /\ UNCHANGED <<bus, msgs, log, accepted, dropped>>
    BY ZenonT(30), <1>1 DEF Connect, OpenSyncTools, ThreadRoutine, OutputLock, Acquire, busVars, workVars
  <2> QED
    BY <1>0, <2>1, Keeps
<1>2. CASE OutputWrite(c)
  <2>1. CASE bus' = Append(bus, accepted + 1) /\ accepted' = accepted + 1 /\ Go(c, "notify") /\ UNCHANGED <<msgs, log, dropped>>
    BY Zenon, <1>0, <2>1, PushData
  <2>2. CASE Go(c, "loop") /\ UNCHANGED <<bus, msgs, log, accepted, dropped>>
    BY Zenon, <1>0, <2>2, Keeps
  <2> QED
    BY Zenon, <1>2, <2>1, <2>2 DEF OutputWrite, Release, busVars, workVars
<1>3. CASE OutputNotify(c)
  <2>1. UNCHANGED <<bus, msgs, log, accepted, dropped>>
    BY Zenon, <1>3 DEF OutputNotify, busVars, workVars
  <2>2. CASE Go(c, "loop")
    BY Zenon, <1>0, <2>1, <2>2, Keeps
  <2>3. ASSUME NEW w \in Waiters(c), pc' = [pc EXCEPT ![c] = "loop", ![w] = "relock"] PROVE Data'
    <3>1. w \in Workers /\ pc[w] = "waiting" /\ \A v \in Workers : pc'[v] = IF v = w THEN "relock" ELSE pc[v]
      BY Zenon, <1>0, <2>3 DEF Waiters, Types, Procs
    <3>2. \A v \in Workers : pc'[v] \in Idle => pc[v] \in Idle
      BY <3>1
    <3> QED
      BY Zenon, <2>1, <3>2, Keeps
  <2> QED
    BY Zenon, <1>3, <2>2, <2>3 DEF OutputNotify
<1> QED
  BY Zenon, <1>1, <1>2, <1>3 DEF Client

\* Kills, signals and starts keep Data: a killed worker keeps its
\* batch, which nobody writes.
LEMMA EnvironmentData ==
  ASSUME Data, Types, Environment PROVE Data'
<1> USE DEF Labels, Attached, Ended, Inside, Idle
<1>1. ASSUME NEW p \in Procs, Stop(p) PROVE Data'
  <2>1. UNCHANGED <<pc, bus, msgs, log, accepted, dropped>>
    BY Zenon, <1>1 DEF Stop, busVars, workVars
  <2> QED
    BY Zenon, <2>1, Keeps
<1>2. ASSUME NEW p \in Procs, Kill(p) PROVE Data'
  <2>1. Go(p, "killed") /\ UNCHANGED <<bus, msgs, log, accepted, dropped>>
    BY Zenon, <1>2 DEF Kill, busVars, workVars
  <2> QED
    BY <2>1, GoData
<1>3. CASE KillMonitor
  <2>1. UNCHANGED <<pc, bus, msgs, log, accepted, dropped>>
    BY <1>3 DEF KillMonitor, busVars, workVars
  <2> QED
    BY <2>1, Keeps
<1> QED
  BY Zenon, <1>1, <1>2, <1>3 DEF Environment

\* Every step keeps Data.
LEMMA NextData == Data /\ Types /\ [Next]_vars => Data'
<1> SUFFICES ASSUME Data, Types, [Next]_vars PROVE Data'
  OBVIOUS
<1>1. CASE Next
  BY Zenon, <1>1, ServerData, WorkerData, ClientData, EnvironmentData DEF Next
<1>2. CASE UNCHANGED vars
  <2>1. UNCHANGED <<pc, bus, msgs, log, accepted, dropped>>
    BY <1>2 DEF vars, busVars, workVars
  <2> QED
    BY <2>1, Keeps
<1> QED
  BY <1>1, <1>2

(* The messages are where Data says in every state. *)
THEOREM DataAlways == Spec => []Data
<1>1. Control => Types
  BY DEF Control
<1> QED
  BY <1>1, ControlAlways, InitData, NextData, PTL DEF Spec

-----------------------------------------------------------------------------
\* Two increasing sequences of which the second lies above the first.
LEMMA ConcatVals ==
  ASSUME NEW s \in Seq(Nat), NEW t \in Seq(Nat), Increasing(s), Increasing(t),
         \A x \in Vals(s) : \A y \in Vals(t) : x < y
  PROVE  s \o t \in Seq(Nat) /\ Increasing(s \o t) /\ Vals(s \o t) = Vals(s) \cup Vals(t)
<1> DEFINE u == s \o t
<1>1. /\ u \in Seq(Nat) /\ Len(u) = Len(s) + Len(t) /\ Len(s) \in Nat /\ Len(t) \in Nat
      /\ \A i \in 1 .. Len(s) : u[i] = s[i]
  OBVIOUS
<1>2. \A i \in 1 .. Len(t) : u[Len(s) + i] = t[i]
  OBVIOUS
<1> HIDE DEF u
<1>3. ASSUME NEW i \in 1 .. Len(u) PROVE i \in 1 .. Len(s) \/ \E k \in 1 .. Len(t) : i = Len(s) + k
  <2>1. i \in 1 .. Len(s) \/ (i - Len(s) \in 1 .. Len(t) /\ i = Len(s) + (i - Len(s)))
    BY <1>1
  <2> QED
    BY Zenon, <2>1
<1>4. ASSUME NEW i \in 1 .. Len(u), NEW j \in 1 .. Len(u), i < j PROVE u[i] < u[j]
  <2>1. CASE i \in 1 .. Len(s) /\ j \in 1 .. Len(s)
    <3>1. s[i] < s[j]
      BY <1>4, <2>1 DEF Increasing
    <3> QED
      BY <1>1, <2>1, <3>1
  <2>2. ASSUME i \in 1 .. Len(s), NEW k \in 1 .. Len(t), j = Len(s) + k PROVE u[i] < u[j]
    <3>1. s[i] \in Vals(s) /\ t[k] \in Vals(t)
      BY <2>2 DEF Vals
    <3> QED
      BY Zenon, <1>1, <1>2, <2>2, <3>1
  <2>3. ASSUME NEW h \in 1 .. Len(t), i = Len(s) + h, NEW k \in 1 .. Len(t), j = Len(s) + k PROVE u[i] < u[j]
    <3>0. \A a, b, c \in Nat : a + b < a + c => b < c
      OBVIOUS
    <3>a. Len(s) \in Nat /\ h \in Nat /\ k \in Nat /\ Len(s) + h < Len(s) + k
      BY <1>4, <2>3
    <3>1. h < k
      BY <3>0, <3>a
    <3>2. t[h] < t[k]
      BY <3>1 DEF Increasing
    <3> QED
      BY Zenon, <1>2, <2>3, <3>2
  <2>4. ~(j \in 1 .. Len(s) /\ \E h \in 1 .. Len(t) : i = Len(s) + h)
    BY <1>1, <1>4
  <2> QED
    BY Zenon, <1>3, <2>1, <2>2, <2>3, <2>4
<1>5. ASSUME NEW i \in 1 .. Len(s) PROVE s[i] \in Vals(u)
  <2>1. i \in 1 .. Len(u) /\ u[i] = s[i]
    BY <1>1
  <2> QED
    BY <2>1 DEF Vals
<1>6. ASSUME NEW i \in 1 .. Len(t) PROVE t[i] \in Vals(u)
  <2>1. Len(s) + i \in 1 .. Len(u)
    BY <1>1
  <2> QED
    BY Zenon, <1>2, <2>1 DEF Vals
<1>7. ASSUME NEW i \in 1 .. Len(u) PROVE u[i] \in Vals(s) \cup Vals(t)
  BY ZenonT(60), <1>1, <1>2, <1>3 DEF Vals
<1>8. Vals(u) = Vals(s) \cup Vals(t)
  BY Zenon, <1>5, <1>6, <1>7 DEF Vals
<1> QED
  BY Zenon, <1>1, <1>4, <1>8 DEF Increasing, u

(* For any clients, workers and batch sizes: a log file holds its messages   *)
(* in the order in which the bus accepted them, before the messages of the   *)
(* batch and those still on the bus.                                         *)
THEOREM FileOrderAlways == Spec => []FileOrder
<1>1. Data => FileOrder
  <2> SUFFICES ASSUME Data, NEW w \in Workers PROVE Increasing(log[w] \o msgs[w] \o bus)
    BY DEF FileOrder
  <2>1. /\ log[w] \in Seq(Nat) /\ msgs[w] \in Seq(Nat) /\ bus \in Seq(Nat)
        /\ Increasing(log[w]) /\ Increasing(msgs[w]) /\ Increasing(bus)
        /\ \A x \in Vals(log[w]) : \A y \in Vals(msgs[w]) : x < y
    BY Zenon DEF Data, DataTypes, Sorted
  <2>2. \A x \in Vals(log[w]) \cup Vals(msgs[w]) : \A y \in Vals(bus) : x < y
    BY Zenon DEF Data, Sorted, Held
  <2> DEFINE s == log[w] \o msgs[w]
  <2>3. s \in Seq(Nat) /\ Increasing(s) /\ Vals(s) = Vals(log[w]) \cup Vals(msgs[w])
    BY <2>1, ConcatVals
  <2> HIDE DEF s
  <2>4. Increasing(s \o bus)
    BY Zenon, <2>1, <2>2, <2>3, ConcatVals
  <2> QED
    BY <2>4 DEF s
<1> QED
  BY <1>1, DataAlways, PTL

(* A number is at one place of an increasing sequence, if at any. *)
LEMMA OnceInSequence ==
  ASSUME NEW s \in Seq(Nat), Increasing(s), NEW n
  PROVE  LET at == {i \in 1 .. Len(s) : s[i] = n}
         IN  (n \in Vals(s) => Cardinality(at) = 1) /\ (n \notin Vals(s) => Cardinality(at) = 0)
<1> DEFINE at == {i \in 1 .. Len(s) : s[i] = n}
<1>1. ASSUME n \in Vals(s) PROVE Cardinality(at) = 1
  <2>1. PICK i \in 1 .. Len(s) : s[i] = n
    BY <1>1 DEF Vals
  <2>2. ASSUME NEW j \in 1 .. Len(s), s[j] = n PROVE j = i
    <3>1. Len(s) \in Nat /\ n \in Nat /\ ~(n < n)
      BY <2>1
    <3>2. ~(i < j) /\ ~(j < i)
      BY <2>1, <2>2, <3>1 DEF Increasing
    <3> QED
      BY <3>1, <3>2
  <2>3. at = {i}
    BY <2>1, <2>2
  <2> HIDE DEF at
  <2> QED
    BY Zenon, <2>3, FS_Singleton
<1>2. ASSUME n \notin Vals(s) PROVE Cardinality(at) = 0
  <2>1. at = {}
    BY Zenon, <1>2 DEF Vals
  <2> HIDE DEF at
  <2> QED
    BY <2>1, FS_EmptySet
<1> QED
  BY <1>1, <1>2

(* The places where a family of sequences holds n, at indices up to K.        *)
Spots(f, K, n) == {wi \in Workers \X (1 .. K) : wi[2] <= Len(f[wi[1]]) /\ f[wi[1]][wi[2]] = n}

(* The same for sequences of which at most one has the number. *)
LEMMA OnceInSequences ==
  ASSUME NEW f \in [Workers -> Seq(Nat)], NEW K \in Nat, NEW n,
         \A w \in Workers : Increasing(f[w]) /\ Len(f[w]) <= K
  PROVE  /\ (\A w \in Workers : n \notin Vals(f[w])) => Cardinality(Spots(f, K, n)) = 0
         /\ \A w \in Workers : n \in Vals(f[w]) /\ (\A v \in Workers \ {w} : n \notin Vals(f[v]))
                                 => Cardinality(Spots(f, K, n)) = 1
<1> DEFINE at == {wi \in Workers \X (1 .. K) : wi[2] <= Len(f[wi[1]]) /\ f[wi[1]][wi[2]] = n}
<1>0. Spots(f, K, n) = at
  BY DEF Spots
<1>1. \A w \in Workers : Len(f[w]) \in Nat /\ f[w] \in Seq(Nat)
  OBVIOUS
<1>2. ASSUME NEW wi \in at PROVE wi[1] \in Workers /\ wi = <<wi[1], wi[2]>> /\ wi[2] \in 1 .. Len(f[wi[1]]) /\ f[wi[1]][wi[2]] = n
  BY <1>1
<1>3. ASSUME \A w \in Workers : n \notin Vals(f[w]) PROVE Cardinality(at) = 0
  <2>1. at = {}
    BY <1>2, <1>3 DEF Vals
  <2> HIDE DEF at
  <2> QED
    BY Zenon, <2>1, FS_EmptySet
<1>4. ASSUME NEW w \in Workers, n \in Vals(f[w]), \A v \in Workers \ {w} : n \notin Vals(f[v]) PROVE Cardinality(at) = 1
  <2>1. PICK i \in 1 .. Len(f[w]) : f[w][i] = n
    BY <1>4 DEF Vals
  <2>2. <<w, i>> \in at
    <3>1. i \in 1 .. K
      BY <1>1
    <3> QED
      BY <1>1, <2>1, <3>1
  <2>3. ASSUME NEW wi \in at PROVE wi = <<w, i>>
    <3>0. wi[1] \in Workers /\ n \in Vals(f[wi[1]])
      BY <1>2 DEF Vals
    <3>1. wi[1] = w
      BY Zenon, <1>4, <3>0
    <3>2. wi[2] \in 1 .. Len(f[w]) /\ f[w][wi[2]] = n /\ wi = <<wi[1], wi[2]>>
      BY <1>2, <3>1
    <3>3. n \in Nat /\ ~(n < n)
      BY <1>1, <2>1
    <3>4. ~(i < wi[2]) /\ ~(wi[2] < i)
      BY Zenon, <2>1, <3>2, <3>3 DEF Increasing
    <3>5. wi[2] = i
      BY <1>1, <3>2, <3>4
    <3> QED
      BY Zenon, <3>1, <3>2, <3>5
  <2>4. at = {<<w, i>>}
    BY Zenon, <2>2, <2>3
  <2> HIDE DEF at
  <2> QED
    BY Zenon, <2>4, FS_Singleton
<1> HIDE DEF at
<1> QED
  BY <1>0, <1>3, <1>4

(* For any clients, workers and batch sizes: each accepted message is in     *)
(* exactly one place until the bus is torn, and a worker that returns from   *)
(* main has written its whole batch.                                         *)
THEOREM ExactlyOnceAlways == Spec => []ExactlyOnce
<1>1. Data => ExactlyOnce
  <2> SUFFICES ASSUME Data PROVE /\ \A n \in 1 .. accepted : Places(n) = 1
                                 /\ \A w \in Workers : pc[w] = "exited" => msgs[w] = <<>>
    BY DEF ExactlyOnce
  <2>0. DataTypes /\ Sorted /\ Bounded /\ Covered /\ Apart /\ Batches
    BY DEF Data
  <2>1. \A w \in Workers : pc[w] = "exited" => msgs[w] = <<>>
    BY <2>0 DEF Batches, Idle, Labels, Attached, Inside, Ended
  <2>2. ASSUME NEW n \in 1 .. accepted PROVE Places(n) = 1
    <3> DEFINE onBus == Cardinality({i \in 1 .. Len(bus) : bus[i] = n})
               inBatch == Cardinality(Spots(msgs, MaxBatch, n))
               inFile == Cardinality(Spots(log, accepted, n))
    <3>1. Places(n) = onBus + inBatch + inFile + (IF n \in dropped THEN 1 ELSE 0)
      BY DEF Places, Spots
    <3>2. (n \in Vals(bus) => onBus = 1) /\ (n \notin Vals(bus) => onBus = 0)
      BY Zenon, <2>0, OnceInSequence DEF DataTypes, Sorted
    <3>3. /\ (\A w \in Workers : n \notin Vals(msgs[w])) => inBatch = 0
          /\ \A w \in Workers : n \in Vals(msgs[w]) /\ (\A v \in Workers \ {w} : n \notin Vals(msgs[v])) => inBatch = 1
      <4>1. MaxBatch \in Nat /\ msgs \in [Workers -> Seq(Nat)]
        BY <2>0, SizesAssumption DEF DataTypes
      <4>2. \A w \in Workers : Increasing(msgs[w]) /\ Len(msgs[w]) <= MaxBatch
        BY Zenon, <2>0 DEF Sorted, Bounded
      <4> QED
        BY <4>1, <4>2, OnceInSequences
    <3>4. /\ (\A w \in Workers : n \notin Vals(log[w])) => inFile = 0
          /\ \A w \in Workers : n \in Vals(log[w]) /\ (\A v \in Workers \ {w} : n \notin Vals(log[v])) => inFile = 1
      <4>1. ASSUME NEW w \in Workers PROVE Increasing(log[w]) /\ Len(log[w]) <= accepted
        <5>1. Len(log[w]) \in Nat /\ Len(msgs[w]) \in Nat /\ Len(bus) \in Nat /\ accepted \in Nat
          BY <2>0 DEF DataTypes
        <5>2. Len(log[w]) + Len(msgs[w]) + Len(bus) <= accepted /\ Increasing(log[w])
          BY Zenon, <2>0 DEF Bounded, Sorted
        <5>3. \A a, b, c, d \in Nat : a + b + c <= d => a <= d
          OBVIOUS
        <5>4. Len(log[w]) <= accepted
          BY ZenonT(30), <5>1, <5>2, <5>3
        <5> QED
          BY <5>2, <5>4
      <4>2. accepted \in Nat /\ log \in [Workers -> Seq(Nat)]
        BY <2>0 DEF DataTypes
      <4> QED
        BY <4>1, <4>2, OnceInSequences
    <3> HIDE DEF onBus, inBatch, inFile
    <3>5. ~(n < n)
      BY <2>0 DEF DataTypes
    <3>6. \A w \in Workers : (n \in Vals(log[w]) => n \notin Vals(msgs[w])) /\ (n \in Held(w) => n \notin Vals(bus))
      BY <2>0, <3>5 DEF Sorted
    <3>7. CASE n \in dropped
      <4>1. n \notin Vals(bus) /\ \A w \in Workers : n \notin Vals(msgs[w]) /\ n \notin Vals(log[w])
        BY Zenon, <2>0, <3>7 DEF Apart, Held
      <4>2. onBus = 0 /\ inBatch = 0 /\ inFile = 0
        BY Zenon, <3>2, <3>3, <3>4, <4>1
      <4> QED
        BY <3>1, <3>7, <4>2
    <3>8. CASE n \in Vals(bus)
      <4>1. n \notin dropped /\ \A w \in Workers : n \notin Vals(msgs[w]) /\ n \notin Vals(log[w])
        BY Zenon, <2>0, <3>6, <3>8 DEF Apart, Held
      <4>2. onBus = 1 /\ inBatch = 0 /\ inFile = 0
        BY Zenon, <3>2, <3>3, <3>4, <3>8, <4>1
      <4> QED
        BY <3>1, <4>1, <4>2
    <3>9. ASSUME NEW w \in Workers, n \in Held(w) PROVE Places(n) = 1
      <4>1. n \notin dropped /\ n \notin Vals(bus) /\ \A v \in Workers \ {w} : n \notin Vals(msgs[v]) /\ n \notin Vals(log[v])
        BY Zenon, <2>0, <3>6, <3>9 DEF Apart, Held
      <4>2. CASE n \in Vals(log[w])
        <5>1. \A v \in Workers : n \notin Vals(msgs[v])
          BY Zenon, <3>6, <4>1, <4>2
        <5>2. onBus = 0 /\ inBatch = 0 /\ inFile = 1
          BY Zenon, <3>2, <3>3, <3>4, <4>1, <4>2, <5>1
        <5> QED
          BY <3>1, <4>1, <5>2
      <4>3. CASE n \in Vals(msgs[w])
        <5>1. \A v \in Workers : n \notin Vals(log[v])
          BY Zenon, <3>6, <4>1, <4>3
        <5>2. onBus = 0 /\ inBatch = 1 /\ inFile = 0
          BY <3>2, <3>3, <3>4, <4>1, <4>3, <5>1
        <5> QED
          BY <3>1, <4>1, <5>2
      <4> QED
        BY Zenon, <3>9, <4>2, <4>3 DEF Held
    <3> QED
      BY Zenon, <2>0, <3>7, <3>8, <3>9 DEF Covered
  <2> QED
    BY <2>1, <2>2
<1> QED
  BY <1>1, DataAlways, PTL
=============================================================================

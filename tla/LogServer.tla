----------------------------- MODULE LogServer ------------------------------
(***************************************************************************)
(* The log server (logsvrd/src/logsvrd.cc) and its clients                 *)
(* (ProcessBus/src/client.cc): client processes push messages onto a bus   *)
(* in a memory-mapped file, worker processes pop them and append them to a *)
(* log file each, a monitor replaces the workers that are killed.  All     *)
(* accesses to the bus are meant to happen under a named mutex, opened by  *)
(* name when a process attaches and removed by every LogServer destructor. *)
(*                                                                         *)
(* The bus is the FIFO queue that RingBuffer is shown to implement.        *)
(* Messages are numbered in the order in which the bus accepted them.      *)
(* Processes may be killed at any point; a mutex is not released by that.  *)
(*                                                                         *)
(* The operators whose names begin with Bug are plausible errors in the    *)
(* one that follows them; each makes a property below fail.                *)
(***************************************************************************)
EXTENDS Integers, Sequences, FiniteSets

CONSTANTS
  Clients, Workers,     \* processes; Workers are the pids the server's may get
  WorkerNums,           \* the values of root.logsvrd.workers in the config
  LoopNum,              \* kLoopNum: Output calls of a client
  MaxBatch,             \* kMaxMessageEachTime
  NotifyEvery,          \* 10 in Output
  Capacity,             \* messages that surely fill the bus
  NDEBUG,               \* are the assertions compiled out?
  MaxStarts, MaxKills, MaxStops,  \* bounds: servers started, kills, signals
  None

ASSUME ProcsAssumption ==
  Workers \subseteq Nat /\ Clients \cap Workers = {} /\ None \notin Clients \cup Workers
ASSUME SizesAssumption ==
  /\ LoopNum \in Nat /\ MaxStarts \in Nat /\ MaxKills \in Nat /\ MaxStops \in Nat
  /\ MaxBatch \in Nat \ {0} /\ NotifyEvery \in Nat \ {0} /\ Capacity \in Nat \ {0}
  /\ WorkerNums \subseteq Nat /\ NDEBUG \in BOOLEAN

VARIABLES
  bus, file,            \* the unread messages; does the mapped file exist?
  named, holder,        \* the mutex that the name stands for; who holds each one
  mutex_,               \* the mutex that each process has opened
  pc, running_,         \* where each process is; its flag, cleared by Stop
  msgs, log,            \* a worker's batch and its log file
  calls,                \* Output calls of a client so far
  monitor, worker_num_, smutex, \* the server's first process
  parent,               \* the server instance a worker belongs to
  starts, kills, stops, \* how much of the bounds is used
  accepted, dropped,    \* history: messages accepted, and forgotten by Listen
  epoch, since,         \* history: steps of servers starting, and how many of
                        \* them a process had behind it when it attached
  torn                  \* history: two processes were inside the bus at once

busVars == <<bus, file, accepted, dropped, epoch>>
lockVars == <<named, holder, mutex_, since>>
workVars == <<msgs, log>>
serverVars == <<monitor, worker_num_, smutex, parent, starts>>
boundVars == <<kills, stops>>
vars == <<busVars, lockVars, workVars, serverVars, boundVars, pc, running_, calls, torn>>

Procs == Clients \cup Workers
Mutexes == 1 .. MaxStarts      \* each server start creates at most one

(* The places between lock and unlock, where a process uses the bus. *)
Inside == {"check", "read", "write", "notify"}
InBus(p) == pc[p] \in Inside

Ended == {"unborn", "exited", "killed", "replaced"}
Alive(p) == pc[p] \notin Ended

(* The next pid: they are given out in order, and not used twice. *)
Fresh(w) == pc[w] = "unborn" /\ \A v \in Workers : pc[v] = "unborn" => w <= v

Go(p, label) == pc' = [pc EXCEPT ![p] = label]

(* scoped_lock's constructor, blocking, and its destructor.  Whoever enters  *)
(* while another process is inside under a different mutex races with it.    *)
Acquire(p, label) ==
  /\ holder[mutex_[p]] = None
  /\ holder' = [holder EXCEPT ![mutex_[p]] = p]
  /\ torn' = (torn \/ \E q \in Procs \ {p} : InBus(q))
  /\ Go(p, label)
  /\ UNCHANGED <<named, mutex_, since>>

Release(p, label) ==
  /\ holder' = [holder EXCEPT ![mutex_[p]] = None]
  /\ Go(p, label)
  /\ UNCHANGED <<named, mutex_, since, torn>>

-----------------------------------------------------------------------------
(* The server's first process: Init, Run and MonitorRoutine.                *)

(* open_or_create of the mutex and the condition, first thing in Init.      *)
InitSyncTools ==
  /\ monitor \in {"off", "gone"} /\ starts < MaxStarts
  /\ starts' = starts + 1
  /\ LET m == IF named # 0 THEN named ELSE starts + 1
     IN  named' = m /\ smutex' = m
  /\ monitor' = "opened"
  /\ epoch' = epoch + 1
  /\ UNCHANGED <<bus, file, accepted, dropped, holder, mutex_, since, workVars,
                 worker_num_, parent, boundVars, pc, running_, calls, torn>>

(* Init fails before Listen: main returns, and the destructor of LogServer   *)
(* removes the names.                                                        *)
InitFails ==
  /\ monitor = "opened"
  /\ monitor' = "gone"
  /\ named' = 0
  /\ UNCHANGED <<busVars, holder, mutex_, since, workVars, worker_num_, smutex,
                 parent, starts, boundVars, pc, running_, calls, torn>>

(* Listen empties the bus, without the mutex; then the rest of the config is *)
(* read, which may fail like the first part.                                 *)
Listen ==
  /\ monitor = "opened"
  /\ dropped' = dropped \cup {bus[i] : i \in 1 .. Len(bus)}
  /\ bus' = <<>> /\ file' = TRUE
  /\ epoch' = epoch + 1
  /\ torn' = (torn \/ \E p \in Procs : InBus(p))
  /\ \/ /\ worker_num_' \in WorkerNums
        /\ monitor' = "fork"
        /\ UNCHANGED named
     \/ /\ monitor' = "gone" /\ named' = 0
        /\ UNCHANGED worker_num_
  /\ UNCHANGED <<accepted, holder, mutex_, since, workVars, smutex, parent,
                 starts, boundVars, pc, running_, calls>>

(* A process that enters WorkerRoutine: it has the mutex that the server     *)
(* opened, and its log file is named after its pid.                          *)
Spawn(w) ==
  /\ Fresh(w)
  /\ mutex_' = [mutex_ EXCEPT ![w] = smutex]
  /\ since' = [since EXCEPT ![w] = epoch]
  /\ parent' = [parent EXCEPT ![w] = starts]

Children == {w \in Workers : parent[w] = starts /\ pc[w] # "replaced"}

(* Run: with no workers configured the server is the worker. *)
Fork(w) ==
  /\ monitor = "fork"
  /\ Spawn(w)
  /\ Go(w, "loop")
  /\ monitor' = IF worker_num_ = 0 THEN "gone"
                ELSE IF Cardinality(Children) + 1 = worker_num_ THEN "wait"
                ELSE "fork"
  /\ UNCHANGED <<busVars, named, holder, workVars, worker_num_, smutex, starts,
                 boundVars, running_, calls, torn>>

(* wait() returns a worker that a signal ended: fork another one.  (For one  *)
(* that exited, and when there is no child, the loop does nothing.)          *)
BugMonitorRoutine(w, v) ==
  /\ monitor = "wait" /\ parent[w] = starts /\ pc[w] = "exited"
  /\ w # v /\ Spawn(v)
  /\ pc' = [pc EXCEPT ![w] = "replaced", ![v] = "loop"]
  /\ UNCHANGED <<busVars, named, holder, workVars, monitor, worker_num_, smutex,
                 starts, boundVars, running_, calls, torn>>

MonitorRoutine(w, v) ==
  /\ monitor = "wait" /\ parent[w] = starts /\ pc[w] = "killed"
  /\ w # v /\ Spawn(v)
  /\ pc' = [pc EXCEPT ![w] = "replaced", ![v] = "loop"]
  /\ UNCHANGED <<busVars, named, holder, workVars, monitor, worker_num_, smutex,
                 starts, boundVars, running_, calls, torn>>

-----------------------------------------------------------------------------
(* WorkerRoutine.                                                            *)

(* while (running_); past it the process returns from main, and its copy of  *)
(* LogServer removes the names.                                              *)
Loop(w) ==
  /\ pc[w] = "loop"
  /\ \/ running_[w] /\ Go(w, "lock") /\ UNCHANGED named
     \/ ~running_[w] /\ Go(w, "exited") /\ named' = 0
  /\ UNCHANGED <<busVars, holder, mutex_, since, workVars, serverVars, boundVars,
                 running_, calls, torn>>

Lock(w) ==
  /\ pc[w] \in {"lock", "relock"}
  /\ Acquire(w, "check")
  /\ UNCHANGED <<busVars, workVars, serverVars, boundVars, running_, calls>>

(* while (size() == 0 and running_) timed_wait, which gives up the mutex. *)
BugCheck(w) ==
  /\ pc[w] = "check"
  /\ \/ bus = <<>> /\ Release(w, "waiting")
     \/ bus # <<>> /\ Go(w, "read") /\ UNCHANGED <<lockVars, torn>>
  /\ UNCHANGED <<busVars, workVars, serverVars, boundVars, running_, calls>>

Check(w) ==
  /\ pc[w] = "check"
  /\ \/ bus = <<>> /\ running_[w] /\ Release(w, "waiting")
     \/ ~(bus = <<>> /\ running_[w]) /\ Go(w, "read") /\ UNCHANGED <<lockVars, torn>>
  /\ UNCHANGED <<busVars, workVars, serverVars, boundVars, running_, calls>>

(* timed_wait returns after about a second, or for no reason, and takes the  *)
(* mutex back first.                                                         *)
BugTimeoutNever(w) == pc[w] = "waiting" /\ FALSE /\ UNCHANGED vars   \* a plain wait

Timeout(w) ==
  /\ pc[w] = "waiting"
  /\ Go(w, "relock")
  /\ UNCHANGED <<busVars, lockVars, workVars, serverVars, boundVars, running_,
                 calls, torn>>

(* One turn of the loop that reads a batch.  Read passes Pop a length that   *)
(* nobody set; when it happens to be 0, ReadNext's assertion ends the        *)
(* process, with the mutex held.                                             *)
AssertsPlen(w) ==
  /\ ~NDEBUG
  /\ Go(w, "killed")
  /\ UNCHANGED <<busVars, lockVars, workVars, torn>>

BugRead(w) ==
  /\ pc[w] = "read"
  /\ \/ /\ Len(msgs[w]) < MaxBatch /\ bus # <<>>
        /\ msgs' = [msgs EXCEPT ![w] = Append(@, Head(bus))]
        /\ UNCHANGED <<bus, file, accepted, dropped, epoch, lockVars, torn, pc, log>>
     \/ /\ Len(msgs[w]) = MaxBatch \/ bus = <<>>
        /\ Release(w, "append")
        /\ UNCHANGED <<busVars, workVars>>
  /\ UNCHANGED <<serverVars, boundVars, running_, calls>>

Read(w) ==
  /\ pc[w] = "read"
  /\ \/ /\ Len(msgs[w]) < MaxBatch /\ bus # <<>>
        /\ \/ /\ msgs' = [msgs EXCEPT ![w] = Append(@, Head(bus))]
              /\ bus' = Tail(bus)
              /\ UNCHANGED <<file, accepted, dropped, epoch, lockVars, torn, pc, log>>
           \/ AssertsPlen(w)
     \/ /\ Len(msgs[w]) = MaxBatch \/ bus = <<>>
        /\ Release(w, "append")
        /\ UNCHANGED <<busVars, workVars>>
  /\ UNCHANGED <<serverVars, boundVars, running_, calls>>

(* Without the mutex, the batch goes to the file, one Append per message. *)
BugWriteLog(w) ==
  /\ pc[w] = "append"
  /\ \/ /\ msgs[w] # <<>>
        /\ log' = [log EXCEPT ![w] = Append(@, msgs[w][Len(msgs[w])])]
        /\ msgs' = [msgs EXCEPT ![w] = SubSeq(@, 1, Len(@) - 1)]
        /\ UNCHANGED pc
     \/ msgs[w] = <<>> /\ Go(w, "loop") /\ UNCHANGED workVars
  /\ UNCHANGED <<busVars, lockVars, serverVars, boundVars, running_, calls, torn>>

WriteLog(w) ==
  /\ pc[w] = "append"
  /\ \/ /\ msgs[w] # <<>>
        /\ log' = [log EXCEPT ![w] = Append(@, Head(msgs[w]))]
        /\ msgs' = [msgs EXCEPT ![w] = Tail(@)]
        /\ UNCHANGED pc
     \/ msgs[w] = <<>> /\ Go(w, "loop") /\ UNCHANGED workVars
  /\ UNCHANGED <<busVars, lockVars, serverVars, boundVars, running_, calls, torn>>

-----------------------------------------------------------------------------
(* A client: main, InitProcessBus, InitSyncTools, ThreadRoutine and Output.  *)

(* Connect.  When it fails, main goes on and dies on the bus it has not got. *)
Connect(c) ==
  /\ pc[c] = "connect"
  /\ Go(c, IF file THEN "open" ELSE "killed")
  /\ UNCHANGED <<busVars, lockVars, workVars, serverVars, boundVars, running_,
                 calls, torn>>

(* open_only throws when the name is not there, and nobody catches it. *)
BugOpenSyncTools(c) ==
  /\ pc[c] = "open" /\ starts < MaxStarts
  /\ LET m == IF named # 0 THEN named ELSE starts + 1
     IN  named' = m /\ mutex_' = [mutex_ EXCEPT ![c] = m]
  /\ since' = [since EXCEPT ![c] = epoch]
  /\ Go(c, "loop")
  /\ UNCHANGED <<busVars, holder, workVars, serverVars, boundVars, running_, calls, torn>>

OpenSyncTools(c) ==
  /\ pc[c] = "open"
  /\ \/ /\ named # 0
        /\ mutex_' = [mutex_ EXCEPT ![c] = named]
        /\ since' = [since EXCEPT ![c] = epoch]
        /\ Go(c, "loop")
     \/ /\ named = 0
        /\ Go(c, "killed")
        /\ UNCHANGED <<mutex_, since>>
  /\ UNCHANGED <<busVars, named, holder, workVars, serverVars, boundVars, running_,
                 calls, torn>>

(* for (i != kLoopNum and running) Output(...) *)
ThreadRoutine(c) ==
  /\ pc[c] = "loop"
  /\ \/ /\ calls[c] < LoopNum /\ running_[c]
        /\ calls' = [calls EXCEPT ![c] = @ + 1]
        /\ Go(c, "lock")
     \/ /\ calls[c] = LoopNum \/ ~running_[c]
        /\ Go(c, "exited")
        /\ UNCHANGED calls
  /\ UNCHANGED <<busVars, lockVars, workVars, serverVars, boundVars, running_, torn>>

OutputLock(c) ==
  /\ pc[c] = "lock"
  /\ Acquire(c, "write")
  /\ UNCHANGED <<busVars, workVars, serverVars, boundVars, running_, calls>>

(* The bus takes every message when it is empty (EmptyAcceptsSmall of        *)
(* RingBuffer); a refused one is counted in failed and given up.             *)
OutputWrite(c) ==
  /\ pc[c] = "write"
  /\ \/ /\ Len(bus) < Capacity
        /\ bus' = Append(bus, accepted + 1)
        /\ accepted' = accepted + 1
        /\ Go(c, "notify")
        /\ UNCHANGED <<file, dropped, epoch, lockVars, torn>>
     \/ /\ bus # <<>>
        /\ Release(c, "loop")
        /\ UNCHANGED busVars
  /\ UNCHANGED <<workVars, serverVars, boundVars, running_, calls>>

Waiters(c) == {w \in Workers : pc[w] = "waiting" /\ mutex_[w] = mutex_[c]}

(* Every NotifyEvery-th message wakes a waiting worker, if there is one; the *)
(* unlock at the end of the block is part of the step.                       *)
OutputNotify(c) ==
  /\ pc[c] = "notify"
  /\ holder' = [holder EXCEPT ![mutex_[c]] = None]
  /\ IF Len(bus) % NotifyEvery = 0 /\ Waiters(c) # {}
     THEN \E w \in Waiters(c) : pc' = [pc EXCEPT ![c] = "loop", ![w] = "relock"]
     ELSE Go(c, "loop")
  /\ UNCHANGED <<busVars, named, mutex_, since, torn, workVars, serverVars,
                 boundVars, running_, calls>>

-----------------------------------------------------------------------------
(* What the environment does.                                                *)

(* SIGTERM or SIGINT to a process that handles it; a worker in timed_wait    *)
(* only sees the flag when the wait is over.                                 *)
Stop(p) ==
  /\ stops < MaxStops /\ Alive(p) /\ pc[p] \notin {"connect", "open"} /\ running_[p]
  /\ stops' = stops + 1
  /\ running_' = [running_ EXCEPT ![p] = FALSE]
  /\ UNCHANGED <<busVars, lockVars, workVars, serverVars, kills, pc, calls, torn>>

(* A process ends without running destructors: what it held stays locked,    *)
(* what it had not written yet is gone.                                      *)
Kill(p) ==
  /\ kills < MaxKills /\ Alive(p)
  /\ kills' = kills + 1
  /\ Go(p, "killed")
  /\ UNCHANGED <<busVars, lockVars, workVars, serverVars, stops, running_, calls, torn>>

(* The monitor handles no signal, so that is how it always ends. *)
KillMonitor ==
  /\ kills < MaxKills /\ monitor \in {"opened", "fork", "wait"}
  /\ kills' = kills + 1
  /\ monitor' = "gone"
  /\ UNCHANGED <<busVars, lockVars, workVars, worker_num_, smutex, parent, starts,
                 stops, pc, running_, calls, torn>>

Init ==
  /\ bus = <<>> /\ file = FALSE
  /\ named = 0 /\ holder = [m \in Mutexes |-> None]
  /\ mutex_ = [p \in Procs |-> 0] /\ since = [p \in Procs |-> 0]
  /\ pc = [p \in Procs |-> IF p \in Clients THEN "connect" ELSE "unborn"]
  /\ running_ = [p \in Procs |-> TRUE]
  /\ msgs = [w \in Workers |-> <<>>] /\ log = [w \in Workers |-> <<>>]
  /\ calls = [c \in Clients |-> 0]
  /\ monitor = "off" /\ worker_num_ = 0 /\ smutex = 0
  /\ parent = [w \in Workers |-> 0]
  /\ starts = 0 /\ kills = 0 /\ stops = 0
  /\ accepted = 0 /\ dropped = {} /\ epoch = 0
  /\ torn = FALSE

Server ==
  \/ InitSyncTools \/ InitFails \/ Listen
  \/ \E w \in Workers : Fork(w)
  \/ \E w, v \in Workers : MonitorRoutine(w, v)

Worker(w) == Loop(w) \/ Lock(w) \/ Check(w) \/ Timeout(w) \/ Read(w) \/ WriteLog(w)

Client(c) ==
  \/ Connect(c) \/ OpenSyncTools(c) \/ ThreadRoutine(c)
  \/ OutputLock(c) \/ OutputWrite(c) \/ OutputNotify(c)

Environment == (\E p \in Procs : Stop(p) \/ Kill(p)) \/ KillMonitor

(* Two processes changing the offsets at once leave anything behind: nothing *)
(* is modelled, and nothing is claimed, beyond that point.                   *)
Next ==
  /\ ~torn
  /\ \/ Server
     \/ \E w \in Workers : Worker(w)
     \/ \E c \in Clients : Client(c)
     \/ Environment

Spec == Init /\ [][Next]_vars

(* Processes that can run do run; the mutex is not fair, but a worker that   *)
(* waits for messages gives it away for about a second at a time, so that no *)
(* other process tries in vain for ever.                                     *)
Fairness ==
  /\ WF_vars(~torn /\ \E w, v \in Workers : MonitorRoutine(w, v))
  /\ WF_vars(~torn /\ \E w \in Workers : Fork(w))
  /\ \A w \in Workers : /\ WF_vars(~torn /\ Worker(w))
                        /\ SF_vars(~torn /\ Lock(w))
  /\ \A c \in Clients : WF_vars(~torn /\ Client(c))

FairSpec == Spec /\ Fairness

-----------------------------------------------------------------------------
TypeOK ==
  /\ bus \in Seq(Nat) /\ file \in BOOLEAN
  /\ named \in 0 .. MaxStarts
  /\ holder \in [Mutexes -> Procs \cup {None}]
  /\ mutex_ \in [Procs -> 0 .. MaxStarts]
  /\ pc \in [Procs -> Inside \cup Ended \cup
                      {"connect", "open", "loop", "lock", "relock", "waiting", "append"}]
  /\ running_ \in [Procs -> BOOLEAN]
  /\ msgs \in [Workers -> Seq(Nat)] /\ log \in [Workers -> Seq(Nat)]
  /\ calls \in [Clients -> 0 .. LoopNum]
  /\ monitor \in {"off", "opened", "fork", "wait", "gone"}
  /\ worker_num_ \in WorkerNums \cup {0} /\ smutex \in 0 .. MaxStarts
  /\ parent \in [Workers -> 0 .. MaxStarts]
  /\ starts \in 0 .. MaxStarts /\ kills \in 0 .. MaxKills /\ stops \in 0 .. MaxStops
  /\ accepted \in Nat /\ dropped \subseteq Nat
  /\ epoch \in Nat /\ since \in [Procs -> Nat]
  /\ torn \in BOOLEAN

(* Two processes use the bus at once, or one while Listen resets it, only if *)
(* one of them attached before the latest server had opened the mutex and    *)
(* called Listen: through every wait, kill, exit and removal of its name the *)
(* mutex does its work for the processes that attached to that server.       *)
Exclusive == torn => \E p \in Procs : InBus(p) /\ since[p] < epoch

(* Each accepted message is in exactly one place: forgotten by a Listen, on  *)
(* the bus, in one worker's batch, or once in one log file.  A worker that   *)
(* returns from main has written its whole batch.                            *)
Places(n) ==
  Cardinality({i \in 1 .. Len(bus) : bus[i] = n})
  + Cardinality({wi \in Workers \X (1 .. MaxBatch) :
                   wi[2] <= Len(msgs[wi[1]]) /\ msgs[wi[1]][wi[2]] = n})
  + Cardinality({wi \in Workers \X (1 .. accepted) :
                   wi[2] <= Len(log[wi[1]]) /\ log[wi[1]][wi[2]] = n})
  + (IF n \in dropped THEN 1 ELSE 0)

ExactlyOnce ==
  ~torn => /\ \A n \in 1 .. accepted : Places(n) = 1
           /\ \A w \in Workers : pc[w] = "exited" => msgs[w] = <<>>

(* Within a log file the messages are in the order in which the bus accepted *)
(* them, and whatever the worker holds or has yet to read comes later.       *)
Increasing(s) == \A i, j \in 1 .. Len(s) : i < j => s[i] < s[j]

FileOrder == ~torn => \A w \in Workers : Increasing(log[w] \o msgs[w] \o bus)

(* The assertion on plen in ReadNext never ends a worker.  (With no process  *)
(* killed, a worker is ended by nothing else.)                               *)
AssertPlen == kills = 0 => \A w \in Workers : pc[w] # "killed"

-----------------------------------------------------------------------------
(* A mutex that a killed process holds; nobody will ever release it. *)
Abandoned(m) == m # 0 /\ holder[m] # None /\ ~Alive(holder[m])

(* Some worker can still serve the bus, or is about to be replaced. *)
Serving ==
  /\ ~torn
  /\ \/ \E w \in Workers : Alive(w) /\ running_[w] /\ ~Abandoned(mutex_[w])
     \/ /\ monitor = "wait" /\ ~Abandoned(smutex)
        /\ \E w \in Workers : parent[w] = starts /\ pc[w] = "killed"

OnBus(n) == \E i \in 1 .. Len(bus) : bus[i] = n
Logged(n) == \E w \in Workers : \E i \in 1 .. Len(log[w]) : log[w][i] = n
LostInBatch(n) ==
  \E w \in Workers : pc[w] \in {"killed", "replaced"} /\ \E i \in 1 .. Len(msgs[w]) : msgs[w][i] = n

(* A message on the bus reaches a log file, however few messages follow it   *)
(* and whatever notification is missed, unless it dies with its worker or no *)
(* worker is left that could read it.                                        *)
Delivered ==
  \A n \in 1 .. Cardinality(Clients) * LoopNum :
    OnBus(n) ~> (Logged(n) \/ LostInBatch(n) \/ n \in dropped \/ ~Serving)

(* A worker that gets the signal exits, unless it is killed first or waits   *)
(* for a mutex that died with its holder.                                    *)
StopEnds ==
  \A w \in Workers :
    (Alive(w) /\ ~running_[w]) ~> (~Alive(w) \/ Abandoned(mutex_[w]) \/ torn)

(* The monitor replaces every worker that is killed. *)
Replaced ==
  \A w \in Workers :
    (pc[w] = "killed" /\ parent[w] = starts /\ monitor = "wait")
      ~> (pc[w] = "replaced" \/ monitor # "wait" \/ torn)
=============================================================================

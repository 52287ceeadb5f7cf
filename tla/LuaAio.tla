------------------------------- MODULE LuaAio -------------------------------
(***************************************************************************)
(* Asynchronous file I/O for Lua (lua_aio/src/laio.c): a script starts     *)
(* reads and writes on handles; each one that the kernel completes queues  *)
(* a real-time signal whose handler marks the request done; wait(t) and    *)
(* waitone(t) suspend the script until all, or one, of the requests in a   *)
(* table are done.                                                         *)
(*                                                                         *)
(* The handler runs between any two steps of the main program while the    *)
(* signal is not blocked; sigsuspend lets it run once and blocks the       *)
(* signal again.  Requests are not reused.  A script waits for requests it *)
(* has started, retrieves what a wait told it is done, keeps a request     *)
(* until it is done, and drops a handle whenever it needs it no longer.    *)
(*                                                                         *)
(* The operators whose names begin with Bug are plausible errors in the    *)
(* one that follows them; each makes a property fail.                      *)
(***************************************************************************)
EXTENDS Integers

CONSTANTS
  Handles, Requests,
  max_info_size,     \* slots for requests in a handle
  IOErrors,          \* may a request fail in the kernel?
  NULL

ASSUME SizesAssumption == max_info_size \in Nat /\ IOErrors \in BOOLEAN
ASSUME NULLAssumption == NULL \notin Requests \cup Handles

VARIABLES
  mode, gcHandle,         \* of each handle: its mode, is it collected?
  infos,                  \* of each handle: its slots
  handle, isRead, idx,    \* of each request: what laio_read or laio_write set
  buf, gc,                \* its buffer, is it destroyed?
  io,                     \* in the kernel: idle, in flight, or completed
  aio_ret, done,          \* what the handler stores
  queued, blocked,        \* completion signals that wait, is the signal blocked?
  pc, table, left,        \* the wait that the main program is in, if any; the
                          \* requests in its table; those yet to be looked at
  ready                   \* history: requests that a wait has reported

handleVars == <<mode, gcHandle, infos>>
infoVars == <<handle, isRead, idx, buf, gc>>
kernelVars == <<io, aio_ret, done, queued>>
waitVars == <<blocked, pc, table, left, ready>>
aioVars == <<handleVars, infoVars, kernelVars, waitVars>>

Modes == {"AIO_READ", "AIO_WRITE"}
Open(h) == mode[h] # "none" /\ ~gcHandle[h]
Running == pc = "run"

(* The first slot without a request, and -1 when there is none. *)
first_slot(h) ==
  LET free == {i \in 0 .. max_info_size - 1 : infos[h][i] = NULL}
  IN  IF free = {} THEN -1 ELSE CHOOSE i \in free : \A j \in free : i <= j

-----------------------------------------------------------------------------
(* Calls of the script that do not wait.                                     *)
laio_newhandle(h, m) ==
  /\ Running /\ mode[h] = "none"
  /\ mode' = [mode EXCEPT ![h] = m]
  /\ infos' = [infos EXCEPT ![h] = [i \in 0 .. max_info_size - 1 |-> NULL]]
  /\ UNCHANGED <<gcHandle, infoVars, kernelVars, waitVars>>

(* laio_read and laio_write.  On an error of Lua, and when aio_read fails    *)
(* and the buffer is freed again, nothing is left of the call.               *)
BugStart(h, r, m) ==
  /\ Running /\ Open(h) /\ handle[r] = NULL
  /\ mode[h] = m
  /\ first_slot(h) # -1
  /\ infos' = [infos EXCEPT ![h][first_slot(h)] = r]
  /\ handle' = [handle EXCEPT ![r] = h]
  /\ isRead' = [isRead EXCEPT ![r] = (m = "AIO_READ")]
  /\ idx' = [idx EXCEPT ![r] = first_slot(h)]
  /\ buf' = [buf EXCEPT ![r] = "malloc"]
  /\ io' = [io EXCEPT ![r] = "inflight"]
  /\ UNCHANGED <<mode, gcHandle, gc, aio_ret, done, queued, waitVars>>

Start(h, r, m) ==
  /\ Running /\ Open(h) /\ handle[r] = NULL
  /\ mode[h] = m
  /\ first_slot(h) # -1
  /\ handle' = [handle EXCEPT ![r] = h]
  /\ isRead' = [isRead EXCEPT ![r] = (m = "AIO_READ")]
  /\ idx' = [idx EXCEPT ![r] = first_slot(h)]
  /\ buf' = [buf EXCEPT ![r] = "malloc"]
  /\ io' = [io EXCEPT ![r] = "inflight"]
  /\ UNCHANGED <<handleVars, gc, aio_ret, done, queued, waitVars>>

laio_read(h, r) == Start(h, r, "AIO_READ")

laio_write(h, r) == Start(h, r, "AIO_WRITE")

(* retrieve changes no state; of its assertions, `info->done == 1` is the    *)
(* property ReportedDone.                                                    *)

cleanup_info(r) ==
  /\ buf' = [buf EXCEPT ![r] = "free"]
  /\ infos' = [infos EXCEPT ![handle[r]][idx[r]] = NULL]
  /\ gc' = [gc EXCEPT ![r] = TRUE]

(* destroy, or __gc of a request that the script lets go. *)
laio_deleteinfo(r) ==
  /\ Running /\ r \in ready /\ ~gc[r]
  /\ cleanup_info(r)
  /\ UNCHANGED <<mode, gcHandle, handle, isRead, idx, kernelVars, waitVars>>

(* __gc of a handle.  The requests in its slots are cleaned up. *)
laio_deletehandle(h) ==
  /\ Running /\ Open(h)
  /\ gcHandle' = [gcHandle EXCEPT ![h] = TRUE]
  /\ LET rs == {infos[h][i] : i \in 0 .. max_info_size - 1} \ {NULL}
     IN  /\ buf' = [r \in Requests |-> IF r \in rs THEN "free" ELSE buf[r]]
         /\ gc' = [r \in Requests |-> gc[r] \/ r \in rs]
         /\ infos' = [infos EXCEPT ![h] = [i \in 0 .. max_info_size - 1 |-> NULL]]
  /\ UNCHANGED <<mode, handle, isRead, idx, kernelVars, waitVars>>

-----------------------------------------------------------------------------
(* The kernel and the signal handler.                                        *)

(* A request completes and its signal is queued. *)
Complete(r) ==
  /\ io[r] = "inflight"
  /\ \/ io' = [io EXCEPT ![r] = "completed"]
     \/ IOErrors /\ io' = [io EXCEPT ![r] = "failed"]
  /\ queued' = queued \cup {r}
  /\ UNCHANGED <<handleVars, infoVars, aio_ret, done, waitVars>>

aio_completion_handler(r) ==
  /\ r \in queued
  /\ queued' = queued \ {r}
  /\ aio_ret' = [aio_ret EXCEPT ![r] = IF io[r] = "failed" THEN 1 ELSE 0]
  /\ done' = [done EXCEPT ![r] = TRUE]
  /\ UNCHANGED <<handleVars, infoVars, io>>

Signal(r) ==
  /\ ~blocked
  /\ aio_completion_handler(r)
  /\ UNCHANGED waitVars

-----------------------------------------------------------------------------
(* The waits look at one request of the table a step, in any order.          *)
Started == {r \in Requests : handle[r] # NULL /\ ~gc[r]}

(* The call returns and reports the requests rs. *)
BugReturn(rs) ==
  /\ UNCHANGED blocked
  /\ pc' = "run" /\ table' = {} /\ left' = {}
  /\ ready' = ready \cup rs

Return(rs) ==
  /\ blocked' = FALSE
  /\ pc' = "run" /\ table' = {} /\ left' = {}
  /\ ready' = ready \cup rs

Suspended(r, next) ==
  /\ aio_completion_handler(r)
  /\ pc' = next /\ left' = table
  /\ UNCHANGED <<blocked, table, ready>>

(* laio_wait: block the signal, then look. *)
BugWait(t) ==
  /\ Running
  /\ pc' = "all_scan" /\ table' = t /\ left' = t
  /\ UNCHANGED <<blocked, handleVars, infoVars, kernelVars, ready>>

Wait(t) ==
  /\ Running
  /\ blocked' = TRUE
  /\ pc' = "all_scan" /\ table' = t /\ left' = t
  /\ UNCHANGED <<handleVars, infoVars, kernelVars, ready>>

BugAllScan ==
  /\ pc = "all_scan"
  /\ \/ \E r \in left : \/ done[r] /\ Return(table)
                        \/ /\ ~done[r] /\ pc' = "all_suspend"
                           /\ UNCHANGED <<blocked, table, left, ready>>
     \/ left = {} /\ Return(table)
  /\ UNCHANGED <<handleVars, infoVars, kernelVars>>

AllScan ==
  /\ pc = "all_scan"
  /\ \/ \E r \in left : \/ /\ done[r] /\ left' = left \ {r}
                           /\ UNCHANGED <<blocked, pc, table, ready>>
                        \/ /\ ~done[r] /\ pc' = "all_suspend"
                           /\ UNCHANGED <<blocked, table, left, ready>>
     \/ left = {} /\ Return(table)
  /\ UNCHANGED <<handleVars, infoVars, kernelVars>>

AllSuspend(r) == pc = "all_suspend" /\ Suspended(r, "all_scan")

(* laio_waitone: look, then block the signal, then look after each signal. *)
WaitOne(t) ==
  /\ Running
  /\ pc' = "one_scan" /\ table' = t /\ left' = t
  /\ UNCHANGED <<handleVars, infoVars, kernelVars, blocked, ready>>

OneScan ==
  /\ pc \in {"one_scan", "one_rescan"}
  /\ \/ \E r \in left : \/ done[r] /\ Return({r})
                        \/ /\ ~done[r] /\ left' = left \ {r}
                           /\ UNCHANGED <<blocked, pc, table, ready>>
     \/ /\ left = {} /\ pc = "one_scan" /\ table = {}
        /\ Return({})
     \/ /\ left = {} /\ table # {}
        /\ pc' = "one_suspend"
        /\ blocked' = TRUE
        /\ UNCHANGED <<table, left, ready>>
  /\ UNCHANGED <<handleVars, infoVars, kernelVars>>

OneSuspend(r) == pc = "one_suspend" /\ Suspended(r, "one_rescan")

-----------------------------------------------------------------------------
Init ==
  /\ mode = [h \in Handles |-> "none"] /\ gcHandle = [h \in Handles |-> FALSE]
  /\ infos = [h \in Handles |-> [i \in 0 .. max_info_size - 1 |-> NULL]]
  /\ handle = [r \in Requests |-> NULL] /\ isRead = [r \in Requests |-> FALSE]
  /\ idx = [r \in Requests |-> 0]
  /\ buf = [r \in Requests |-> "none"] /\ gc = [r \in Requests |-> FALSE]
  /\ io = [r \in Requests |-> "idle"]
  /\ aio_ret = [r \in Requests |-> 0] /\ done = [r \in Requests |-> FALSE]
  /\ queued = {} /\ blocked = FALSE
  /\ pc = "run" /\ table = {} /\ left = {} /\ ready = {}

Waiting ==
  \/ AllScan \/ OneScan
  \/ \E r \in Requests : AllSuspend(r) \/ OneSuspend(r)

Script ==
  \/ \E h \in Handles : \/ laio_deletehandle(h)
                        \/ \E m \in Modes : laio_newhandle(h, m)
                        \/ \E r \in Requests : laio_read(h, r) \/ laio_write(h, r)
  \/ \E r \in Requests : laio_deleteinfo(r)
  \/ \E t \in SUBSET Started : Wait(t) \/ WaitOne(t)

Next == Script \/ Waiting \/ \E r \in Requests : Complete(r) \/ Signal(r)

Spec == Init /\ [][Next]_aioVars

(* The kernel completes what is in flight; a program in a wait goes on when  *)
(* it can.  A queued signal is delivered before the sigprocmask that         *)
(* unblocks it returns, in the order of the queue: fairness is strong, for a *)
(* script may go from one wait to the next for ever.                         *)
FairSpec ==
  /\ Spec
  /\ WF_aioVars(Waiting)
  /\ \A r \in Requests : WF_aioVars(Complete(r)) /\ SF_aioVars(Signal(r))

-----------------------------------------------------------------------------
TypeOK ==
  /\ mode \in [Handles -> Modes \cup {"none"}] /\ gcHandle \in [Handles -> BOOLEAN]
  /\ infos \in [Handles -> [0 .. max_info_size - 1 -> Requests \cup {NULL}]]
  /\ handle \in [Requests -> Handles \cup {NULL}] /\ isRead \in [Requests -> BOOLEAN]
  /\ idx \in [Requests -> 0 .. max_info_size - 1]
  /\ buf \in [Requests -> {"none", "malloc", "free"}] /\ gc \in [Requests -> BOOLEAN]
  /\ io \in [Requests -> {"idle", "inflight", "completed", "failed"}]
  /\ aio_ret \in [Requests -> {0, 1}] /\ done \in [Requests -> BOOLEAN]
  /\ queued \subseteq Requests /\ blocked \in BOOLEAN
  /\ pc \in {"run", "all_scan", "all_suspend", "one_scan", "one_rescan", "one_suspend"}
  /\ left \subseteq table /\ table \subseteq Requests /\ ready \subseteq Requests

(* A wait reports only requests that the handler has marked: the assertion   *)
(* `info->done == 1` of retrieve holds for a script that waited.             *)
ReportedDone == \A r \in ready : done[r]

(* When laio_wait sleeps in sigsuspend, a signal that wakes it is still to   *)
(* come: it blocks the signal before it looks at the requests.               *)
WakeupComing ==
  pc = "all_suspend" =>
    \E r \in table : ~done[r] /\ (io[r] = "inflight" \/ r \in queued)

(* The buffer of a request is not freed while the kernel transfers into or   *)
(* out of it, also when the handle of the request is collected meanwhile.    *)
BufferKept == \A r \in Requests : io[r] = "inflight" => buf[r] = "malloc"

(* laio_wait returns. *)
WaitReturns == pc \in {"all_scan", "all_suspend"} ~> Running

(* The completion of each request is noticed: no return from a wait leaves   *)
(* the signal blocked, and none that is queued is dropped.                   *)
CompletionNoticed ==
  \A r \in Requests : io[r] \in {"completed", "failed"} ~> done[r]

(* laio_waitone returns, as the loop of test/run.lua needs it to.            *)
WaitOneReturns == pc \in {"one_scan", "one_rescan", "one_suspend"} ~> Running
=============================================================================

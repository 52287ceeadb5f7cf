----------------------------- MODULE Processors -----------------------------
(***************************************************************************)
(* Processors: a calculation service whose operations come from a shared   *)
(* library. SIGUSR1 reloads the library in the signal handler, at any      *)
(* point of the service. A library is known by the number of the dlopen    *)
(* that mapped it; one call of its code is a pair of steps, so that the    *)
(* handler may run inside it. stale = TRUE: code or an object of a library *)
(* that is no longer mapped was used, where the model stops.               *)
(***************************************************************************)
EXTENDS Integers, Sequences

CONSTANTS
  Ops,        \* what the client asks for
  Builds,     \* the sets of operations a library may be built with (ENABLE_MINUS)
  MaxLoads,   \* bound on the dlopens
  MaxReqs     \* bound on the requests

VARIABLES
  obj,   \* mapped: libraries; handle, creator, destroyer: g_handle, g_creator, g_destroyer;
         \* loads: dlopens so far; build: of each; pc, op, p, using: of ProcessReq; client
  ref    \* lib: the last library loaded whole; failed, within: a reload failed, came inside
         \* a request; served: <<op, library or 0>> for every reply; asked: requests sent

vars == <<obj, ref>>

\* main: nothing is served unless the first load succeeds; the client has sent nothing.
Init ==
  /\ \E b \in Builds :
       obj = [mapped |-> {1}, handle |-> 1, creator |-> 1, destroyer |-> 1, loads |-> 1, build |-> <<b>>,
              pc |-> "poll", op |-> "", p |-> 0, using |-> {}, client |-> "idle", stale |-> FALSE]
  /\ ref = [lib |-> 1, failed |-> FALSE, within |-> FALSE, served |-> <<>>, asked |-> 0]

\* The client sends a request and waits for the reply.
Ask(op) ==
  /\ obj.client = "idle" /\ ref.asked < MaxReqs
  /\ obj' = [obj EXCEPT !.client = "wait", !.op = op]
  /\ ref' = [ref EXCEPT !.asked = @ + 1]

\* Mutant: the old library stays mapped, and g_creator stays with it.
LoadClearsNothing(o, how, b) ==
  LET n == o.loads + 1
  IN IF how = "" THEN [o EXCEPT !.mapped = @ \cup {n}, !.loads = n, !.build = Append(@, b), !.destroyer = n, !.handle = n]
     ELSE o

\* LoadLibSO; g_handle keeps the closed library when a step of it fails, and g_creator is
\* replaced before DestroyProcessor is looked up.
LoadLibSO(o, how, b) ==
  LET n == o.loads + 1
      closed == o.mapped \ {o.handle}
      opened == [o EXCEPT !.mapped = closed \cup {n}, !.loads = n, !.build = Append(@, b)]
  IN CASE how = "no library" -> [o EXCEPT !.mapped = closed]
       [] how = "no creator" -> opened
       [] how = "no destroyer" -> [opened EXCEPT !.creator = n]
       [] OTHER -> [opened EXCEPT !.creator = n, !.destroyer = n, !.handle = n]
\* SIGUSR1. It returns into the library if it came inside a call.
SigHandle(how, b) ==
  /\ ~obj.stale /\ obj.loads < MaxLoads
  /\ LET o == LoadLibSO(obj, how, b)
     IN /\ obj' = [o EXCEPT !.stale = ~(o.using \subseteq o.mapped)]
        /\ ref' = [ref EXCEPT !.lib = IF how = "" THEN o.loads ELSE @,
                              !.failed = @ \/ how # "",
                              !.within = @ \/ obj.pc \notin {"poll", "send"}]

Call(from, to, libs) ==
  /\ obj.pc = from /\ ~obj.stale
  /\ obj' = [obj EXCEPT !.pc = to, !.using = libs, !.stale = ~(libs \subseteq obj.mapped)]
  /\ UNCHANGED ref

\* poll, recv, then g_creator(processor_name).
CallCreator == obj.client = "wait" /\ Call("poll", "create", {obj.creator})

\* CreateProcessor returns NULL for an operation it was not built with.
CreateProcessor ==
  /\ obj.pc = "create" /\ ~obj.stale
  /\ \E lib \in obj.using :
       LET p == IF obj.op \in obj.build[lib] THEN lib ELSE 0
       IN obj' = [obj EXCEPT !.p = p, !.using = {}, !.pc = IF p = 0 THEN "send" ELSE "created"]
  /\ UNCHANGED ref

\* p->DoCalculate, through the object's table.
CallDoCalculate == Call("created", "calculate", {obj.p})
DoCalculate == Call("calculate", "calculated", {})

\* g_destroyer(p), which calls the destructor of p.
CallDestroyer == Call("calculated", "destroy", {obj.destroyer, obj.p})
DestroyProcessor == Call("destroy", "send", {})

\* sock.send(reply); the client gets it.
Send ==
  /\ obj.pc = "send" /\ ~obj.stale
  /\ obj' = [obj EXCEPT !.pc = "poll", !.client = "idle", !.p = 0]
  /\ ref' = [ref EXCEPT !.served = Append(@, <<obj.op, obj.p>>)]

StartService ==
  CallCreator \/ CreateProcessor \/ CallDoCalculate \/ DoCalculate \/ CallDestroyer \/ DestroyProcessor \/ Send

Next ==
  \/ StartService
  \/ \E op \in Ops : Ask(op)
  \/ \E b \in Builds, how \in {"", "no library", "no creator", "no destroyer"} : SigHandle(how, b)

Spec == Init /\ [][Next]_vars /\ WF_vars(StartService)

-----------------------------------------------------------------------------
\* Nothing of an unmapped library is used unless a reload failed or came inside a request;
\* while no reload failed exactly the last library is mapped; a request is calculated by
\* a library built with its operation, and refused only when the library lacks it.
Agrees ==
  /\ obj.stale => ref.failed \/ ref.within
  /\ ~ref.failed => obj.mapped = {ref.lib} /\ obj.creator = ref.lib /\ obj.destroyer = ref.lib
  /\ obj.handle = ref.lib
  /\ Len(ref.served) = ref.asked - (IF obj.client = "wait" THEN 1 ELSE 0)
  /\ \A i \in DOMAIN ref.served :
       LET op == ref.served[i][1]
           lib == ref.served[i][2]
       IN IF lib = 0 THEN \E l \in 1 .. obj.loads : op \notin obj.build[l] ELSE op \in obj.build[lib]

\* The client waits; it was answered, or the service used a library that was gone.
Waiting == obj.client = "wait"
Answered == obj.client = "idle" \/ obj.stale
=============================================================================

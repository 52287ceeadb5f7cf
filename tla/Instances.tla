------------------------------ MODULE Instances ------------------------------
(***************************************************************************)
(* The two ways the code makes an object on first use, with several        *)
(* threads that ask for it: Singleton<T>::Instance through pthread_once,   *)
(* and Logger<Impl>::Instance, which tests and sets a pointer without a    *)
(* lock. An object is the number of the "new" that made it.                *)
(***************************************************************************)
EXTENDS Integers, FiniteSets

CONSTANTS Threads, Ways   \* "once", "lazy"

VARIABLES
  obj,   \* way; once: of pthread_once; instance: pInstance or instance_; made: objects so
         \* far; pc and result of each thread's call
  ref    \* raced: two threads found no instance

vars == <<obj, ref>>

Init ==
  /\ \E way \in Ways :
       obj = [way |-> way, once |-> "init", instance |-> 0, made |-> 0,
              pc |-> [t \in Threads |-> "idle"], result |-> [t \in Threads |-> 0]]
  /\ ref = [raced |-> FALSE]

\* Mutant: pthread_once that does not make the others wait.
PthreadOnceLate(t) ==
  /\ obj.way = "once" /\ obj.pc[t] = "idle"
  /\ \/ obj.once # "done" /\ obj' = [obj EXCEPT !.once = "running", !.pc[t] = "make"]
     \/ obj.once = "done" /\ obj' = [obj EXCEPT !.pc[t] = "return"]
  /\ UNCHANGED ref

\* pthread_once, external: the first caller runs MakeInstance, the others wait for it.
PthreadOnce(t) ==
  /\ obj.way = "once" /\ obj.pc[t] = "idle"
  /\ \/ obj.once = "init" /\ obj' = [obj EXCEPT !.once = "running", !.pc[t] = "make"]
     \/ obj.once = "done" /\ obj' = [obj EXCEPT !.pc[t] = "return"]
  /\ UNCHANGED ref
\* if (instance_ == NULL)
Test(t) ==
  /\ obj.way = "lazy" /\ obj.pc[t] = "idle"
  /\ obj' = [obj EXCEPT !.pc[t] = IF obj.instance = 0 THEN "make" ELSE "return"]
  /\ ref' = [raced |-> ref.raced \/ (obj.instance = 0 /\ \E u \in Threads : obj.pc[u] \in {"make", "assign"})]

\* MakeInstanceHelper::MakeInstance, or new Logger.
New(t) ==
  /\ obj.pc[t] = "make"
  /\ obj' = [obj EXCEPT !.made = @ + 1, !.result[t] = obj.made + 1, !.pc[t] = "assign"]
  /\ UNCHANGED ref

\* The assignment; MakeInstance returns to pthread_once.
Assign(t) ==
  /\ obj.pc[t] = "assign"
  /\ obj' = [obj EXCEPT !.instance = obj.result[t], !.once = IF obj.way = "once" THEN "done" ELSE @, !.pc[t] = "return"]
  /\ UNCHANGED ref

Return(t) ==
  /\ obj.pc[t] = "return"
  /\ obj' = [obj EXCEPT !.result[t] = obj.instance, !.pc[t] = "done"]
  /\ UNCHANGED ref

\* The thread's next call of Instance.
Again(t) ==
  /\ obj.pc[t] = "done"
  /\ obj' = [obj EXCEPT !.pc[t] = "idle"]
  /\ UNCHANGED ref

Instance(t) == PthreadOnce(t) \/ Test(t) \/ New(t) \/ Assign(t) \/ Return(t)

Next == \E t \in Threads : Instance(t) \/ Again(t)

Spec == Init /\ [][Next]_vars /\ \A t \in Threads : WF_vars(Instance(t))

-----------------------------------------------------------------------------
\* Every call gives the one object, and none is made twice; with Logger<Impl> this fails only
\* when a thread finds instance_ empty while another is making its object.
OneInstance ==
  ~ref.raced =>
    /\ obj.made <= 1
    /\ \A t \in Threads : obj.pc[t] = "done" => obj.made = 1 /\ obj.result[t] = 1

\* A call of Instance has not returned, or has.
Calling(t) == obj.pc[t] # "done"
Returned(t) == obj.pc[t] = "done"
=============================================================================

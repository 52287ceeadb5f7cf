------------------------------ MODULE Coroutine ------------------------------
(***************************************************************************)
(* coroutine: coroutines on ucontext. A context is the one whose stack it  *)
(* runs on: Main or a coroutine. Resume saves its caller in                *)
(* yield_recovery_point_ every time and in coroutine_done_point_ the first *)
(* time only, so a routine that returns continues in the frame of the      *)
(* first Resume. "live" tells whether that frame still exists; halt says   *)
(* how a run ended: an assert, or a return into a frame that is gone.      *)
(***************************************************************************)
EXTENDS Integers, Sequences, Functions

CONSTANTS Coroutines, Main

VARIABLES
  obj,   \* current: the running context; status_, in_routine_ and the saved points of each
         \* coroutine
  ref    \* callers: the contexts that wait for the current one, outermost first; yielded: who
         \* ever yielded

vars == <<obj, ref>>

Init ==
  /\ obj = [current |-> Main, status |-> [c \in Coroutines |-> "suspended"],
            in |-> [c \in Coroutines |-> FALSE], recovery |-> [c \in Coroutines |-> Main],
            done |-> [c \in Coroutines |-> Main], live |-> [c \in Coroutines |-> FALSE], halt |-> "no"]
  /\ ref = [callers |-> <<>>, yielded |-> {}]

\* The callers that are left when the last of them runs again.
BelowTop(callers) == SubSeq(callers, 1, Len(callers) - 1)

\* The first time it makes the context that CoroutineFunction runs in. The value that goes
\* along is left out.
Resume(c) ==
  /\ obj.halt = "no"
  /\ IF obj.status[c] # "suspended"
     THEN obj' = [obj EXCEPT !.halt = "assert"] /\ UNCHANGED ref
     ELSE /\ obj' = [obj EXCEPT !.status[c] = "running", !.recovery[c] = obj.current,
                                !.done[c] = IF obj.in[c] THEN @ ELSE obj.current,
                                !.live[c] = ~obj.in[c], !.in[c] = TRUE,
                                !.current = c]
          /\ ref' = [ref EXCEPT !.callers = Append(@, obj.current)]

\* Mutant: Yield goes back to the first Resume's caller.
YieldToDone ==
  /\ obj.halt = "no" /\ obj.current # Main
  /\ LET c == obj.current
     IN /\ obj' = [obj EXCEPT !.status[c] = "suspended", !.current = obj.done[c],
                              !.live[c] = FALSE]
        /\ ref' = [callers |-> BelowTop(ref.callers), yielded |-> ref.yielded \cup {c}]

\* Yield, and the return from the Resume that it goes back to.
Yield ==
  /\ obj.halt = "no" /\ obj.current # Main
  /\ LET c == obj.current
     IN /\ obj' = [obj EXCEPT !.status[c] = "suspended", !.current = obj.recovery[c],
                              !.live[c] = FALSE]
        /\ ref' = [callers |-> BelowTop(ref.callers), yielded |-> ref.yielded \cup {c}]
\* The routine returns: CoroutineFunction, then the last branch of Resume. A dead frame may
\* happen to be the one of the last Resume, when both had the same caller.
Finish ==
  /\ obj.halt = "no" /\ obj.current # Main
  /\ LET c == obj.current
         ended == [obj EXCEPT !.status[c] = "dead", !.current = obj.done[c], !.live[c] = FALSE]
     IN \/ /\ obj.live[c] \/ obj.done[c] = obj.recovery[c]
           /\ obj' = ended
           /\ ref' = [ref EXCEPT !.callers = BelowTop(@)]
        \/ /\ ~obj.live[c]
           /\ obj' = [obj EXCEPT !.halt = "frame"]
           /\ UNCHANGED ref

Next ==
  Yield \/ Finish \/ \E c \in Coroutines : Resume(c)

Spec == Init /\ [][Next]_vars

-----------------------------------------------------------------------------
\* Control is a stack, in whatever order contexts resume each other: a coroutine is running
\* iff it is on it, and each goes back to the one below it. A routine returns into a frame
\* that is gone only after a Yield.
Agrees ==
  LET chain == Append(ref.callers, obj.current)
  IN /\ \A c \in Coroutines :
          /\ (obj.status[c] = "running") <=> (c \in Range(chain))
          /\ obj.live[c] => obj.done[c] = obj.recovery[c]
     /\ IsInjective(chain) /\ chain[1] = Main
     /\ \A i \in 2 .. Len(chain) : obj.recovery[chain[i]] = chain[i - 1]
     /\ obj.halt = "frame" => obj.current \in ref.yielded
=============================================================================

------------------------------ MODULE FifoQueue ------------------------------
(***************************************************************************)
(* What the bus promises its users: a FIFO queue whose Push may refuse a   *)
(* message and whose Pop returns the oldest one, or NULL when there is     *)
(* none.  Opening the bus with Listen forgets everything in it.            *)
(***************************************************************************)
EXTENDS Sequences

CONSTANTS Messages, NULL

VARIABLES queue, ret

vars == <<queue, ret>>

Init == queue = <<>> /\ ret = <<"Listen", TRUE>>

Push(m) ==
  \/ queue' = Append(queue, m) /\ ret' = <<"Push", TRUE>>
  \/ queue' = queue /\ ret' = <<"Push", FALSE>>

Pop ==
  \/ queue = <<>> /\ queue' = <<>> /\ ret' = <<"Pop", NULL>>
  \/ queue # <<>> /\ queue' = Tail(queue) /\ ret' = <<"Pop", Head(queue)>>

Listen == queue' = <<>> /\ ret' = <<"Listen", TRUE>>

Next == (\E m \in Messages : Push(m)) \/ Pop \/ Listen

Spec == Init /\ [][Next]_vars
=============================================================================

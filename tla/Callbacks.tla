----------------------------- MODULE Callbacks ------------------------------
(***************************************************************************)
(* Programs whose code is entered while it is in the middle of something:  *)
(* udpserver's event loop from the callbacks it calls, the service of      *)
(* Processors from its signal handler, coroutines from each other, and     *)
(* Instance from several threads.                                          *)
(***************************************************************************)
EXTENDS Integers, SideBySide

CONSTANTS
  Servers, MaxSent, MaxStarts, Events, IdleRounds,   \* EventLoop
  Ops, Builds, MaxLoads, MaxReqs,                    \* Processors
  Coroutines, Main,                                  \* Coroutine
  Threads, Ways                                      \* Instances

ASSUME EventLoopAssumption == Events \in Nat
ASSUME CoroutineAssumption == Main \notin Coroutines

E == INSTANCE EventLoop
P == INSTANCE Processors
C == INSTANCE Coroutine
I == INSTANCE Instances

CallbacksInit ==
  \/ kind = "EventLoop" /\ E!Init
  \/ kind = "Processors" /\ P!Init
  \/ kind = "Coroutine" /\ C!Init
  \/ kind = "Instances" /\ I!Init

CallbacksNext ==
  /\ \/ kind = "EventLoop" /\ E!Next
     \/ kind = "Processors" /\ P!Next
     \/ kind = "Coroutine" /\ C!Next
     \/ kind = "Instances" /\ I!Next
  /\ UNCHANGED kind

CallbacksSpec == CallbacksInit /\ [][CallbacksNext]_vars

\* Code that is called back while its caller is in the middle of something: udpserver's
\* callbacks destroy listeners, SIGUSR1 reloads the library of Processors, coroutines resume
\* each other. Nothing that is gone is used but in the cases stated (Agrees of the three).
CallbacksSafe ==
  /\ kind = "EventLoop" => E!Agrees
  /\ kind = "Processors" => P!Agrees
  /\ kind = "Coroutine" => C!Agrees

\* Singleton and Logger::Instance: one object, unless two threads race (Instances!OneInstance).
OneInstance == kind = "Instances" => I!OneInstance
=============================================================================

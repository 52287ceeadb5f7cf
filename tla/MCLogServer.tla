---------------------------- MODULE MCLogServer -----------------------------
EXTENDS LogServer, TLC

(* Instances side by side: one server, as the cfg gives it, and a server     *)
(* that is started twice, with the assertions, where a process is stopped or *)
(* one is killed.                                                            *)
VARIABLE config

Stopped == INSTANCE LogServer WITH
             WorkerNums <- {0, 1}, LoopNum <- 1, NDEBUG <- FALSE, MaxStarts <- 2, MaxKills <- 0
Killed == INSTANCE LogServer WITH
            WorkerNums <- {0, 1}, LoopNum <- 1, NDEBUG <- FALSE, MaxStarts <- 2, MaxStops <- 0

MCInit ==
  \/ config = "service" /\ Init
  \/ config = "stopped" /\ Stopped!Init
  \/ config = "killed" /\ Killed!Init

MCNext ==
  /\ \/ config = "service" /\ Next
     \/ config = "stopped" /\ Stopped!Next
     \/ config = "killed" /\ Killed!Next
  /\ UNCHANGED config

MCSpec == MCInit /\ [][MCNext]_<<vars, config>>

(* Clients are interchangeable; worker pids are given out in order. *)
Symmetry == Permutations(Clients)
=============================================================================

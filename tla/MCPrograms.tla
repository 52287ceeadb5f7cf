----------------------------- MODULE MCPrograms -----------------------------
(***************************************************************************)
(* The programs of the repository that share no state with each other,     *)
(* checked side by side, with what their scheduling lets one expect.       *)
(***************************************************************************)
EXTENDS Callbacks, TextFiles, Gifts

\* No -r, one line, and an empty range, whose end is before its start.
MCRanges == {<<>>, <<2, 2>>, <<2, 1>>}

Init == CallbacksInit \/ TextFilesInit \/ GiftsInit

Next == CallbacksNext \/ TextFilesNext \/ GiftsNext

\* The loop and the service run as long as they can; a thread that called Instance, or a client
\* of the format server, goes on.
Spec ==
  /\ Init /\ [][Next]_vars
  /\ WF_vars(kind = "EventLoop" /\ E!Run /\ UNCHANGED kind)
  /\ WF_vars(kind = "Processors" /\ P!StartService /\ UNCHANGED kind)
  /\ \A t \in Threads : WF_vars(kind = "Instances" /\ I!Instance(t) /\ UNCHANGED kind)
  /\ \A c \in Clients : WF_vars(kind = "RemoteFormat" /\ F!Formats(c) /\ UNCHANGED kind)

\* A datagram is taken by its server, a request to Processors is answered and a call of
\* Instance returns, unless the server or the library went away; a client of the format server
\* ends, unless the server ends in the middle of its reply.
RequestsServed ==
  /\ \A s \in Servers : (kind = "EventLoop" /\ E!Waiting(s)) ~> (kind = "EventLoop" /\ E!Taken(s))
  /\ (kind = "Processors" /\ P!Waiting) ~> (kind = "Processors" /\ P!Answered)
  /\ \A t \in Threads : (kind = "Instances" /\ I!Calling(t)) ~> (kind = "Instances" /\ I!Returned(t))
  /\ \A c \in Clients : (kind = "RemoteFormat" /\ F!Calling(c)) ~> (kind = "RemoteFormat" /\ F!Ended(c))
=============================================================================

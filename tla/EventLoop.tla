------------------------------ MODULE EventLoop ------------------------------
(***************************************************************************)
(* udpserver/src/net: UDP servers on one event loop. A server owns a       *)
(* listener, the listener a channel, and the poller maps descriptors to    *)
(* channels, so one name stands for all of them. The application's message *)
(* callback and period functor may start and destroy servers and quit the  *)
(* loop; a signal handler may quit it at any time.                         *)
(*                                                                         *)
(* Run walks the channels that Poll found ready. "dead" are those of them  *)
(* destroyed since; following one, or returning into a listener that its   *)
(* own callback destroyed, ends the run with stale = TRUE.                 *)
(***************************************************************************)
EXTENDS Integers, Sequences, Functions

CONSTANTS
  Servers,
  MaxSent,      \* bound on the datagrams each server is sent
  MaxStarts,    \* bound on the starts after Run
  Events,       \* the initial events_.size()
  IdleRounds    \* rounds without an event after which the timeout grows

VARIABLES
  obj,   \* on: channels_; q: datagrams in each socket; cap: events_.size(); the locals
         \* and the program counter of Run
  ref    \* sent, got, answered, refused, dropped: counts of datagrams by server

vars == <<obj, ref>>

Zero == [s \in Servers |-> 0]

Init ==
  /\ \E on \in SUBSET Servers :
       obj = [on |-> on, q |-> Zero, cap |-> Events, pc |-> "poll", active |-> <<>>, dead |-> {},
              idle |-> 0, slow |-> FALSE, quit |-> FALSE, stale |-> FALSE, starts |-> 0]
  /\ ref = [sent |-> Zero, got |-> Zero, answered |-> Zero, refused |-> Zero, dropped |-> Zero]

\* A client's datagram reaches the socket.
Datagram(s) ==
  /\ s \in obj.on /\ ref.sent[s] < MaxSent
  /\ obj' = [obj EXCEPT !.q[s] = @ + 1]
  /\ ref' = [ref EXCEPT !.sent[s] = @ + 1]

\* The channels of the ready descriptors in the order epoll_wait gives them: all of them, or
\* as many as events_ holds.
FillActiveChannels(ready, size) ==
  {o \in UNION {[1 .. n -> ready] : n \in 0 .. size} : IsInjective(o) /\ (Len(o) < size => Range(o) = ready)}

IdleAfter(n) == IF n > 0 THEN 0 ELSE IF obj.idle < IdleRounds THEN obj.idle + 1 ELSE obj.idle

\* Mutant: FillActiveChannels stops before the last event.
PollAllButOne ==
  /\ obj.pc = "poll" /\ ~obj.stale
  /\ \E order \in FillActiveChannels({s \in obj.on : obj.q[s] > 0}, obj.cap) :
       LET n == Len(order)
       IN obj' = [obj EXCEPT !.active = SubSeq(order, 1, n - 1), !.pc = "handle",
                             !.cap = IF n = @ THEN 2 * @ ELSE @, !.idle = IdleAfter(n)]
  /\ UNCHANGED ref

\* Poll with FillActiveChannels; events_ doubles when it was filled.
Poll ==
  /\ obj.pc = "poll" /\ ~obj.stale
  /\ \E order \in FillActiveChannels({s \in obj.on : obj.q[s] > 0}, obj.cap) :
       LET n == Len(order)
       IN obj' = [obj EXCEPT !.active = order, !.pc = "handle",
                             !.cap = IF n = @ THEN 2 * @ ELSE @, !.idle = IdleAfter(n)]
  /\ UNCHANGED ref

\* What application code does: nothing, or destroy (~UdpListener: RemoveChannel, close) or
\* start (BindOrAbort, EnableReading, DisableWriting) a server, or Quit.
Calls == {<<"none">>, <<"quit">>} \cup {<<"destroy", s>> : s \in Servers} \cup {<<"start", s>> : s \in Servers}
Allowed(c) ==
  CASE c[1] = "destroy" -> c[2] \in obj.on
    [] c[1] = "start" -> c[2] \notin obj.on /\ obj.starts < MaxStarts
    [] OTHER -> TRUE
UpdateChannel(o, s) == [o EXCEPT !.on = @ \cup {s}, !.starts = @ + 1]
RemoveChannel(o, s) == [o EXCEPT !.on = @ \ {s}, !.q[s] = 0, !.dead = @ \cup {s}]
Apply(o, c) ==
  CASE c[1] = "none" -> o
    [] c[1] = "quit" -> [o EXCEPT !.quit = TRUE]
    [] c[1] = "start" -> UpdateChannel(o, c[2])
    [] c[1] = "destroy" -> RemoveChannel(o, c[2])

Dropped(r, o, c) == IF c[1] = "destroy" THEN [r EXCEPT !.dropped[c[2]] = @ + o.q[c[2]]] ELSE r

\* HandleEvents and OnMessage of the next active channel: one datagram is taken; the callback
\* refuses or answers it.
HandleEvents(c, answer) ==
  /\ obj.pc = "handle" /\ ~obj.stale /\ obj.active # <<>>
  /\ LET s == Head(obj.active)
         took == [obj EXCEPT !.q[s] = @ - 1, !.active = Tail(@)]
         r == Dropped([ref EXCEPT !.got[s] = @ + 1], took, c)
     IN IF s \in obj.dead
        THEN c = <<"none">> /\ answer /\ obj' = [obj EXCEPT !.stale = TRUE] /\ UNCHANGED ref
        ELSE /\ Allowed(c)
             /\ obj' = [Apply(took, c) EXCEPT !.stale = c = <<"destroy", s>>]
             /\ ref' = IF answer THEN [r EXCEPT !.answered[s] = @ + 1] ELSE [r EXCEPT !.refused[s] = @ + 1]

\* The rest of a round: the list is cleared, the period functor called, the timeout chosen.
Period(c) ==
  /\ obj.pc = "handle" /\ ~obj.stale /\ obj.active = <<>>
  /\ Allowed(c)
  /\ obj' = LET o == Apply(obj, c)
            IN [o EXCEPT !.dead = {}, !.slow = obj.idle >= IdleRounds, !.pc = IF o.quit THEN "exit" ELSE "poll"]
  /\ ref' = Dropped(ref, obj, c)

\* quit_ is a sig_atomic_t: a handler may set it anywhere.
Quit ==
  /\ ~obj.quit /\ obj.pc # "exit"
  /\ obj' = [obj EXCEPT !.quit = TRUE]
  /\ UNCHANGED ref

Run == Poll \/ \E c \in Calls : Period(c) \/ \E answer \in BOOLEAN : HandleEvents(c, answer)

Next == Run \/ Quit \/ \E s \in Servers : Datagram(s)

Spec == Init /\ [][Next]_vars /\ WF_vars(Run)

-----------------------------------------------------------------------------
\* A channel left in the active list is registered and has a datagram, so that no recvfrom
\* fails, unless a callback destroyed its server in this round; every datagram sent is in a
\* socket, went with its server, or was answered or refused once.
Agrees ==
  /\ ~obj.stale => \A s \in Range(obj.active) \ obj.dead : s \in obj.on /\ obj.q[s] > 0
  /\ IsInjective(obj.active)
  /\ \A s \in Servers :
       /\ ref.sent[s] = obj.q[s] + ref.got[s] + ref.dropped[s]
       /\ ref.got[s] = ref.answered[s] + ref.refused[s]
  /\ obj.stale => obj.dead # {}

\* A server's datagrams wait; they were taken or went with the server, or the loop ended.
Waiting(s) == obj.q[s] > 0
Taken(s) == obj.q[s] = 0 \/ obj.stale \/ obj.quit
=============================================================================

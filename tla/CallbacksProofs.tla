--------------------------- MODULE CallbacksProofs ---------------------------
(***************************************************************************)
(* Callbacks, for every value of its constants: for each program an        *)
(* invariant that its steps keep, then the two properties for all of them. *)
(***************************************************************************)
EXTENDS Callbacks, Sequences, TLAPS

\* The time a leaf may take, which on a slow machine is more than the five seconds of the default.
USE SMTT(60)

-----------------------------------------------------------------------------
(***************************************************************************)
(* EventLoop. Poll lists channels that are registered and have a datagram. *)
(* They stay so until their turn: only the callback of their own turn, or  *)
(* one that destroys them, takes datagrams, and a channel is in the list   *)
(* once. So Agrees is inductive with the types.                            *)
(***************************************************************************)

Counts == [Servers -> Nat]

LoopState == [on : SUBSET Servers, q : Counts, cap : Nat, pc : {"poll", "handle", "exit"},
              active : Seq(Servers), dead : SUBSET Servers, idle : Nat, slow : BOOLEAN,
              quit : BOOLEAN, stale : BOOLEAN, starts : Nat]
LoopCounts == [sent : Counts, got : Counts, answered : Counts, refused : Counts, dropped : Counts]

ETyped == obj \in LoopState /\ ref \in LoopCounts

\* A channel left in the list that no callback destroyed.
ListedReady(o) == \A i \in 1 .. Len(o.active) : o.active[i] \notin o.dead => o.active[i] \in o.on /\ o.q[o.active[i]] > 0
ListedOnce(o) == \A i, j \in 1 .. Len(o.active) : o.active[i] = o.active[j] => i = j
Balanced(o, r) == \A s \in Servers : r.sent[s] = o.q[s] + r.got[s] + r.dropped[s]
Replied(r) == \A s \in Servers : r.got[s] = r.answered[s] + r.refused[s]

EInv ==
  /\ ETyped
  /\ ~obj.stale => ListedReady(obj)
  /\ ListedOnce(obj)
  /\ Balanced(obj, ref) /\ Replied(ref)
  /\ obj.stale => obj.dead # {}

\* What the property states follows from the invariant of the event loop.
LEMMA EInvAgrees == EInv => E!Agrees
<1> SUFFICES ASSUME EInv PROVE E!Agrees
  OBVIOUS
<1>1. obj.active \in Seq(Servers) /\ DOMAIN obj.active = 1 .. Len(obj.active)
  BY DEF EInv, ETyped, LoopState, LoopCounts
<1>2. E!IsInjective(obj.active)
  BY <1>1 DEF EInv, ListedOnce, E!IsInjective
<1>3. ~obj.stale => \A s \in E!Range(obj.active) \ obj.dead : s \in obj.on /\ obj.q[s] > 0
  BY <1>1 DEF EInv, ListedReady, E!Range
<1> QED
  BY <1>2, <1>3 DEF EInv, Balanced, Replied, E!Agrees

\* The constructor of EventLoop.
LEMMA EInit == E!Init => EInv
<1> SUFFICES ASSUME E!Init PROVE EInv
  OBVIOUS
<1> USE EventLoopAssumption
<1>1. E!Zero \in Counts /\ \A s \in Servers : E!Zero[s] = 0
  BY DEF E!Zero, Counts
<1>2. PICK on \in SUBSET Servers :
        obj = [on |-> on, q |-> E!Zero, cap |-> Events, pc |-> "poll", active |-> <<>>, dead |-> {},
               idle |-> 0, slow |-> FALSE, quit |-> FALSE, stale |-> FALSE, starts |-> 0]
  BY Zenon DEF E!Init
<1>3. ETyped
  BY <1>1, <1>2 DEF E!Init, ETyped, LoopState, LoopCounts
<1>4. Balanced(obj, ref) /\ Replied(ref)
  BY <1>1, <1>2 DEF E!Init, Balanced, Replied
<1> QED
  BY <1>2, <1>3, <1>4 DEF EInv, ListedReady, ListedOnce

\* The fields of a typed state, as functions and sequences.
LEMMA EFields ==
  ASSUME ETyped
  PROVE  /\ obj.on \subseteq Servers /\ obj.dead \subseteq Servers /\ obj.active \in Seq(Servers)
         /\ obj.cap \in Nat /\ obj.idle \in Nat /\ obj.starts \in Nat
         /\ obj.q \in [Servers -> Nat] /\ ref.sent \in [Servers -> Nat] /\ ref.got \in [Servers -> Nat]
         /\ ref.answered \in [Servers -> Nat] /\ ref.refused \in [Servers -> Nat] /\ ref.dropped \in [Servers -> Nat]
BY DEF ETyped, LoopState, LoopCounts, Counts

\* A datagram arrives: the channel becomes ready, the active list stays.
LEMMA EDatagram ==
  ASSUME EInv, NEW s \in Servers, E!Datagram(s)
  PROVE EInv'
<1>1. /\ obj'.q = [obj.q EXCEPT ![s] = @ + 1]
      /\ ref'.sent = [ref.sent EXCEPT ![s] = @ + 1]
      /\ obj' = [obj EXCEPT !.q = obj'.q] /\ ref' = [ref EXCEPT !.sent = ref'.sent]
  BY DEF E!Datagram, EInv, ETyped, LoopState, LoopCounts
<1>0. /\ obj.q \in [Servers -> Nat] /\ ref.sent \in [Servers -> Nat] /\ ref.got \in [Servers -> Nat]
      /\ ref.answered \in [Servers -> Nat] /\ ref.refused \in [Servers -> Nat] /\ ref.dropped \in [Servers -> Nat]
      /\ Balanced(obj, ref) /\ Replied(ref)
  BY Zenon, EFields DEF EInv
<1>2. obj'.q \in Counts /\ ref'.sent \in Counts
  BY <1>0, <1>1 DEF Counts
<1>3. ETyped'
  BY ZenonT(60), <1>1, <1>2 DEF EInv, ETyped, LoopState, LoopCounts
<1>4. /\ ref'.got = ref.got /\ ref'.dropped = ref.dropped /\ ref'.answered = ref.answered /\ ref'.refused = ref.refused
      /\ obj'.active = obj.active /\ obj'.on = obj.on /\ obj'.dead = obj.dead /\ obj'.stale = obj.stale
  BY <1>1 DEF EInv, ETyped, LoopState, LoopCounts
<1>5. Balanced(obj', ref') /\ Replied(ref')
  BY <1>0, <1>1, <1>4 DEF Balanced, Replied
<1>6. ListedReady(obj) => ListedReady(obj')
  <2>1. \A t \in Servers : obj.q[t] > 0 => obj'.q[t] > 0
    BY <1>0, <1>1
  <2>2. \A i \in 1 .. Len(obj.active) : obj.active[i] \in Servers
    BY EFields DEF EInv
  <2> QED
    BY <1>4, <2>1, <2>2 DEF ListedReady
<1> QED
  BY <1>3, <1>4, <1>5, <1>6 DEF EInv, ListedOnce

\* Poll lists each ready channel at most once.
LEMMA EPoll ==
  ASSUME EInv, E!Poll
  PROVE EInv'
<1> DEFINE ready == {s \in obj.on : obj.q[s] > 0}
<1> USE EventLoopAssumption
<1>0. obj.on \subseteq Servers /\ obj.cap \in Nat /\ obj.idle \in Nat /\ Balanced(obj, ref) /\ Replied(ref)
  BY EFields DEF EInv
<1>1. PICK order \in E!FillActiveChannels(ready, obj.cap) :
        obj' = [obj EXCEPT !.active = order, !.pc = "handle", !.cap = IF Len(order) = @ THEN 2 * @ ELSE @,
                           !.idle = E!IdleAfter(Len(order))]
  BY Zenon DEF E!Poll
<1>2. PICK n \in 0 .. obj.cap : order \in [1 .. n -> ready]
  BY <1>1 DEF E!FillActiveChannels
<1>3. n \in Nat /\ Len(order) = n /\ E!IdleAfter(n) \in Nat
  BY <1>0, <1>2 DEF E!IdleAfter
<1>4. ready \subseteq Servers
  BY <1>0
<1>5. \A i, j \in 1 .. n : order[i] = order[j] => i = j
  BY <1>1, <1>2 DEF E!FillActiveChannels, E!IsInjective
<1>6. order \in Seq(Servers) /\ \A i \in 1 .. n : order[i] \in obj.on /\ obj.q[order[i]] > 0
  BY <1>2, <1>3, <1>4
<1>7. obj'.cap \in Nat /\ obj'.idle \in Nat /\ ~obj.stale /\ ref' = ref
  <2>1. obj'.cap = IF n = obj.cap THEN 2 * obj.cap ELSE obj.cap
    BY <1>1, <1>3 DEF EInv, ETyped, LoopState
  <2>2. obj'.idle = E!IdleAfter(n)
    BY <1>1, <1>3 DEF EInv, ETyped, LoopState
  <2> QED
    BY <1>0, <1>3, <2>1, <2>2 DEF E!Poll
<1>8. /\ obj' = [obj EXCEPT !.active = order, !.pc = "handle", !.cap = obj'.cap, !.idle = obj'.idle]
      /\ obj'.active = order /\ obj'.on = obj.on /\ obj'.q = obj.q /\ obj'.stale = obj.stale
  BY <1>1 DEF EInv, ETyped, LoopState
<1>9. ETyped'
  BY Zenon, <1>6, <1>7, <1>8 DEF EInv, ETyped, LoopState
<1>10. ListedReady(obj') /\ ListedOnce(obj')
  BY <1>3, <1>5, <1>6, <1>8 DEF ListedReady, ListedOnce
<1>11. Balanced(obj', ref') /\ Replied(ref')
  BY <1>0, <1>7, <1>8 DEF Balanced, Replied
<1> QED
  BY <1>7, <1>8, <1>9, <1>10, <1>11 DEF EInv

\* What application code does to the loop's state and to the counts.
LEMMA EApply ==
  ASSUME NEW o \in LoopState, NEW r \in LoopCounts, NEW c \in E!Calls,
         ListedReady(o), ListedOnce(o), Balanced(o, r)
  PROVE  /\ E!Apply(o, c) \in LoopState /\ E!Dropped(r, o, c) \in LoopCounts
         /\ ListedReady(E!Apply(o, c)) /\ ListedOnce(E!Apply(o, c))
         /\ Balanced(E!Apply(o, c), E!Dropped(r, o, c))
         /\ E!Dropped(r, o, c).got = r.got /\ E!Dropped(r, o, c).answered = r.answered
         /\ E!Dropped(r, o, c).refused = r.refused
         /\ E!Apply(o, c).stale = o.stale
         /\ \A s \in Servers : c = <<"destroy", s>> => s \in E!Apply(o, c).dead
<1> DEFINE p == E!Apply(o, c)
           d == E!Dropped(r, o, c)
<1>0. /\ o.q \in [Servers -> Nat] /\ o.active \in Seq(Servers) /\ o.on \in SUBSET Servers /\ o.dead \in SUBSET Servers
      /\ o.starts \in Nat /\ r.dropped \in [Servers -> Nat]
  BY DEF LoopState, LoopCounts, Counts
<1>1. CASE c[1] \in {"none", "quit"}
  <2>0. c[1] = "none" \/ c[1] = "quit"
    BY <1>1
  <2>1. \A s \in Servers : c # <<"destroy", s>>
    BY <2>0
  <2>2. d = r /\ (p = o \/ p = [o EXCEPT !.quit = TRUE])
    BY <2>0 DEF E!Dropped, E!Apply
  <2>3. /\ p \in LoopState /\ p.active = o.active /\ p.dead = o.dead /\ p.on = o.on /\ p.q = o.q /\ p.stale = o.stale
    BY ZenonT(60), <2>2 DEF LoopState
  <2> QED
    BY <2>1, <2>2, <2>3 DEF ListedReady, ListedOnce, Balanced
<1>2. ASSUME NEW s \in Servers, c = <<"start", s>>
      PROVE  /\ p \in LoopState /\ d = r /\ p.active = o.active /\ p.dead = o.dead /\ p.q = o.q
             /\ p.on = o.on \cup {s} /\ p.stale = o.stale
  <2>1. p = [o EXCEPT !.on = o.on \cup {s}, !.starts = o.starts + 1] /\ d = r
    BY <1>2 DEF E!Apply, E!UpdateChannel, E!Dropped
  <2>2. o.on \cup {s} \in SUBSET Servers /\ o.starts + 1 \in Nat
    BY <1>0
  <2> QED
    BY ZenonT(60), <2>1, <2>2 DEF LoopState
<1>3. ASSUME NEW s \in Servers, c = <<"destroy", s>>
      PROVE  /\ p \in LoopState /\ d \in LoopCounts /\ p.active = o.active /\ p.dead = o.dead \cup {s}
             /\ p.on = o.on \ {s} /\ p.q = [o.q EXCEPT ![s] = 0] /\ p.stale = o.stale
             /\ d.dropped = [r.dropped EXCEPT ![s] = r.dropped[s] + o.q[s]]
             /\ d.sent = r.sent /\ d.got = r.got /\ d.answered = r.answered /\ d.refused = r.refused
  <2>1. p = [o EXCEPT !.on = o.on \ {s}, !.q = [o.q EXCEPT ![s] = 0], !.dead = o.dead \cup {s}]
    BY <1>3 DEF E!Apply, E!RemoveChannel
  <2>2. d = [r EXCEPT !.dropped = [r.dropped EXCEPT ![s] = r.dropped[s] + o.q[s]]]
    BY <1>3 DEF E!Dropped
  <2>3. /\ o.on \ {s} \in SUBSET Servers /\ o.dead \cup {s} \in SUBSET Servers
        /\ [o.q EXCEPT ![s] = 0] \in Counts /\ [r.dropped EXCEPT ![s] = r.dropped[s] + o.q[s]] \in Counts
    BY <1>0 DEF Counts
  <2>4. p \in LoopState /\ d \in LoopCounts
    BY ZenonT(60), <2>1, <2>2, <2>3 DEF LoopState, LoopCounts
  <2> QED
    BY <2>1, <2>2, <2>4 DEF LoopState, LoopCounts
<1>4. (\E s \in Servers : c = <<"start", s>>) \/ (\E s \in Servers : c = <<"destroy", s>>) \/ c[1] \in {"none", "quit"}
  BY DEF E!Calls
<1> HIDE DEF p, d
<1>5. CASE \E s \in Servers : c = <<"start", s>>
  <2>1. PICK s \in Servers : c = <<"start", s>>
    BY <1>5
  <2>2. \A t \in Servers : c # <<"destroy", t>>
    BY <2>1
  <2>3. ListedReady(p) /\ ListedOnce(p) /\ Balanced(p, d)
    BY <1>2, <2>1 DEF ListedReady, ListedOnce, Balanced
  <2> QED
    BY <1>2, <2>1, <2>2, <2>3 DEF p, d
<1>6. CASE \E s \in Servers : c = <<"destroy", s>>
  <2>1. PICK s \in Servers : c = <<"destroy", s>>
    BY <1>6
  <2>2. \A t \in Servers : c = <<"destroy", t>> => t = s
    BY <2>1
  <2>3. ListedReady(p)
    <3>1. \A i \in 1 .. Len(o.active) : o.active[i] \in Servers
      BY <1>0
    <3>2. p.active = o.active /\ p.dead = o.dead \cup {s} /\ p.on = o.on \ {s} /\ p.q = [o.q EXCEPT ![s] = 0]
      BY Zenon, <1>3, <2>1
    <3>3. \A t \in Servers \ {s} : p.q[t] = o.q[t]
      BY <1>0, <3>2
    <3> QED
      BY <3>1, <3>2, <3>3 DEF ListedReady
  <2>4. ListedOnce(p)
    BY Zenon, <1>3, <2>1 DEF ListedOnce
  <2>5. Balanced(p, d)
    <3>1. /\ p.q = [o.q EXCEPT ![s] = 0] /\ d.dropped = [r.dropped EXCEPT ![s] = r.dropped[s] + o.q[s]]
          /\ d.sent = r.sent /\ d.got = r.got
      BY <1>3, <2>1
    <3>2. r.got \in [Servers -> Nat]
      BY DEF LoopCounts, Counts
    <3> QED
      BY <1>0, <3>1, <3>2 DEF Balanced
  <2> QED
    BY Zenon, <1>3, <2>1, <2>2, <2>3, <2>4, <2>5 DEF p, d
<1> QED
  BY <1>1, <1>4, <1>5, <1>6 DEF p, d

\* A callback, with whatever it starts, destroys or ends; a channel it destroys may be left in
\* the active list.
LEMMA EHandleEvents ==
  ASSUME EInv, NEW c \in E!Calls, NEW answer \in BOOLEAN, E!HandleEvents(c, answer)
  PROVE EInv'
<1> DEFINE s == Head(obj.active)
           took == [obj EXCEPT !.q[s] = @ - 1, !.active = Tail(@)]
           counted == [ref EXCEPT !.got[s] = @ + 1]
           r == E!Dropped(counted, took, c)
<1>0. /\ obj \in LoopState /\ ref \in LoopCounts /\ ~obj.stale /\ obj.active # <<>> /\ obj.active \in Seq(Servers)
      /\ ListedReady(obj) /\ ListedOnce(obj) /\ Balanced(obj, ref) /\ Replied(ref)
  BY Zenon, EFields DEF EInv, E!HandleEvents, ETyped
<1>1. s \in Servers /\ s = obj.active[1] /\ Len(obj.active) \in Nat \ {0}
  BY <1>0
<1>2. CASE s \in obj.dead
  <2>1. obj' = [obj EXCEPT !.stale = TRUE] /\ ref' = ref
    BY <1>2 DEF E!HandleEvents
  <2>2. obj' \in LoopState /\ obj'.active = obj.active /\ obj'.q = obj.q /\ obj'.dead = obj.dead /\ obj'.stale
    BY Zenon, <1>0, <2>1 DEF LoopState
  <2> QED
    BY <1>0, <1>2, <2>1, <2>2 DEF EInv, ETyped, ListedOnce, Balanced
<1>3. CASE s \notin obj.dead
  <2>0. /\ obj' = [E!Apply(took, c) EXCEPT !.stale = c = <<"destroy", s>>]
        /\ ref' = IF answer THEN [r EXCEPT !.answered[s] = @ + 1] ELSE [r EXCEPT !.refused[s] = @ + 1]
    BY Zenon, <1>3 DEF E!HandleEvents
  <2>1. obj.q \in [Servers -> Nat] /\ obj.q[s] > 0 /\ ref.got \in [Servers -> Nat]
    <3>1. obj.q \in [Servers -> Nat] /\ ref.got \in [Servers -> Nat]
      BY <1>0 DEF LoopState, LoopCounts, Counts
    <3>2. 1 \in 1 .. Len(obj.active) /\ obj.active[1] \notin obj.dead
      BY <1>1, <1>3
    <3>3. obj.q[obj.active[1]] > 0
      BY <1>0, <3>2 DEF ListedReady
    <3> QED
      BY <1>1, <3>1, <3>3
  <2>2. /\ took = [obj EXCEPT !.q = [obj.q EXCEPT ![s] = obj.q[s] - 1], !.active = Tail(obj.active)]
        /\ counted = [ref EXCEPT !.got = [ref.got EXCEPT ![s] = ref.got[s] + 1]]
    BY <1>0 DEF LoopState, LoopCounts
  <2>3. [obj.q EXCEPT ![s] = obj.q[s] - 1] \in Counts /\ [ref.got EXCEPT ![s] = ref.got[s] + 1] \in Counts
    BY <1>1, <2>1 DEF Counts
  <2>4. /\ Tail(obj.active) \in Seq(Servers) /\ Len(Tail(obj.active)) = Len(obj.active) - 1
        /\ \A i \in 1 .. Len(obj.active) - 1 : Tail(obj.active)[i] = obj.active[i + 1]
    BY <1>0, <1>1
  <2>5. took \in LoopState /\ counted \in LoopCounts
    BY Zenon, <1>0, <2>2, <2>3, <2>4 DEF LoopState, LoopCounts
  <2>6. /\ took.q = [obj.q EXCEPT ![s] = obj.q[s] - 1] /\ took.active = Tail(obj.active) /\ took.on = obj.on
        /\ took.dead = obj.dead /\ took.stale = obj.stale
        /\ counted.got = [ref.got EXCEPT ![s] = ref.got[s] + 1] /\ counted.sent = ref.sent
        /\ counted.answered = ref.answered /\ counted.refused = ref.refused /\ counted.dropped = ref.dropped
    BY <1>0, <2>2 DEF LoopState, LoopCounts
  <2> HIDE DEF took, counted, s
  <2>7. ListedOnce(took)
    BY <1>0, <1>1, <2>4, <2>6 DEF ListedOnce
  <2>8. ListedReady(took)
    <3>1. \A i \in 1 .. Len(obj.active) - 1 : obj.active[i + 1] # s /\ obj.active[i + 1] \in Servers
      BY <1>0, <1>1 DEF ListedOnce
    <3>2. \A t \in Servers \ {s} : took.q[t] = obj.q[t]
      BY <2>1, <2>6
    <3>3. \A i \in 1 .. Len(obj.active) - 1 :
            obj.active[i + 1] \notin obj.dead => obj.active[i + 1] \in obj.on /\ obj.q[obj.active[i + 1]] > 0
      BY <1>0, <1>1 DEF ListedReady
    <3> QED
      BY <2>4, <2>6, <3>1, <3>2, <3>3 DEF ListedReady
  <2>9. Balanced(took, counted)
    <3>1. ref.dropped \in [Servers -> Nat]
      BY <1>0 DEF LoopCounts, Counts
    <3>2. Balanced(obj, ref)
      BY <1>0
    <3> QED
      <4> SUFFICES ASSUME NEW t \in Servers PROVE counted.sent[t] = took.q[t] + counted.got[t] + counted.dropped[t]
        BY DEF Balanced
      <4>1. ref.sent[t] = obj.q[t] + ref.got[t] + ref.dropped[t] /\ obj.q[t] \in Nat /\ ref.got[t] \in Nat /\ ref.dropped[t] \in Nat
        BY <2>1, <3>1, <3>2 DEF Balanced
      <4>2. took.q[t] = (IF t = s THEN obj.q[t] - 1 ELSE obj.q[t]) /\ counted.got[t] = (IF t = s THEN ref.got[t] + 1 ELSE ref.got[t])
        BY <2>1, <2>6
      <4> QED
        BY <2>6, <4>1, <4>2
  <2> DEFINE p == E!Apply(took, c)
  <2>10. /\ p \in LoopState /\ r \in LoopCounts /\ ListedReady(p) /\ ListedOnce(p) /\ Balanced(p, r)
         /\ r.got = counted.got /\ r.answered = ref.answered /\ r.refused = ref.refused
         /\ c = <<"destroy", s>> => s \in p.dead
    BY <1>1, <2>5, <2>6, <2>7, <2>8, <2>9, EApply
  <2> HIDE DEF p, r
  <2>11. /\ obj' \in LoopState /\ obj'.active = p.active /\ obj'.q = p.q /\ obj'.dead = p.dead /\ obj'.on = p.on
         /\ obj'.stale = (c = <<"destroy", s>>)
    BY Zenon, <2>0, <2>10 DEF LoopState, p
  <2>12. ListedReady(obj') /\ ListedOnce(obj') /\ (obj'.stale => obj'.dead # {})
    BY Zenon, <2>10, <2>11 DEF ListedReady, ListedOnce
  <2>13. ref' \in LoopCounts /\ Balanced(obj', ref') /\ Replied(ref')
    <3>0. /\ ref.answered \in [Servers -> Nat] /\ ref.refused \in [Servers -> Nat]
      BY <1>0 DEF LoopCounts, Counts
    <3>9. Replied(ref) /\ r.got = [ref.got EXCEPT ![s] = ref.got[s] + 1]
      BY <1>0, <2>6, <2>10
    <3>1. CASE answer
      <4>1. ref' = [r EXCEPT !.answered = [ref.answered EXCEPT ![s] = ref.answered[s] + 1]]
        BY <2>0, <2>10, <3>1
      <4>2. [ref.answered EXCEPT ![s] = ref.answered[s] + 1] \in Counts
        BY <1>1, <3>0 DEF Counts
      <4>3. /\ ref' \in LoopCounts /\ ref'.sent = r.sent /\ ref'.got = r.got /\ ref'.dropped = r.dropped
            /\ ref'.refused = ref.refused /\ ref'.answered = [ref.answered EXCEPT ![s] = ref.answered[s] + 1]
        BY <2>10, <4>1, <4>2 DEF LoopCounts
      <4>4. Balanced(obj', ref')
        BY <2>10, <2>11, <4>3 DEF Balanced
      <4>5. Replied(ref')
        <5> SUFFICES ASSUME NEW t \in Servers PROVE ref'.got[t] = ref'.answered[t] + ref'.refused[t]
          BY DEF Replied
        <5>1. ref.got[t] = ref.answered[t] + ref.refused[t] /\ ref.answered[t] \in Nat /\ ref.refused[t] \in Nat
          BY <3>0, <3>9 DEF Replied
        <5>2. /\ r.got[t] = (IF t = s THEN ref.got[t] + 1 ELSE ref.got[t])
              /\ ref'.answered[t] + ref'.refused[t] = ref.answered[t] + ref.refused[t] + (IF t = s THEN 1 ELSE 0)
          BY <2>1, <3>0, <3>9, <4>3, <5>1
        <5> QED
          BY <4>3, <5>1, <5>2
      <4> QED
        BY <4>3, <4>4, <4>5
    <3>2. CASE ~answer
      <4>1. ref' = [r EXCEPT !.refused = [ref.refused EXCEPT ![s] = ref.refused[s] + 1]]
        BY <2>0, <2>10, <3>2
      <4>2. [ref.refused EXCEPT ![s] = ref.refused[s] + 1] \in Counts
        BY <1>1, <3>0 DEF Counts
      <4>3. /\ ref' \in LoopCounts /\ ref'.sent = r.sent /\ ref'.got = r.got /\ ref'.dropped = r.dropped
            /\ ref'.answered = ref.answered /\ ref'.refused = [ref.refused EXCEPT ![s] = ref.refused[s] + 1]
        BY <2>10, <4>1, <4>2 DEF LoopCounts
      <4>4. Balanced(obj', ref')
        BY <2>10, <2>11, <4>3 DEF Balanced
      <4>5. Replied(ref')
        <5> SUFFICES ASSUME NEW t \in Servers PROVE ref'.got[t] = ref'.answered[t] + ref'.refused[t]
          BY DEF Replied
        <5>1. ref.got[t] = ref.answered[t] + ref.refused[t] /\ ref.answered[t] \in Nat /\ ref.refused[t] \in Nat
          BY <3>0, <3>9 DEF Replied
        <5>2. /\ r.got[t] = (IF t = s THEN ref.got[t] + 1 ELSE ref.got[t])
              /\ ref'.answered[t] + ref'.refused[t] = ref.answered[t] + ref.refused[t] + (IF t = s THEN 1 ELSE 0)
          BY <2>1, <3>0, <3>9, <4>3, <5>1
        <5> QED
          BY <4>3, <5>1, <5>2
      <4> QED
        BY <4>3, <4>4, <4>5
    <3> QED
      BY <3>1, <3>2
  <2> QED
    BY <2>11, <2>12, <2>13 DEF EInv, ETyped
<1> QED
  BY <1>2, <1>3

\* The function that Run calls once a round.
LEMMA EPeriod ==
  ASSUME EInv, NEW c \in E!Calls, E!Period(c)
  PROVE EInv'
<1> DEFINE p == E!Apply(obj, c)
<1>0. /\ obj \in LoopState /\ ref \in LoopCounts /\ ~obj.stale /\ obj.active = <<>>
      /\ ListedReady(obj) /\ ListedOnce(obj) /\ Balanced(obj, ref) /\ Replied(ref)
  BY DEF EInv, E!Period, ETyped
<1>1. /\ p \in LoopState /\ ListedReady(p) /\ ListedOnce(p) /\ Balanced(p, ref') /\ ref' \in LoopCounts
      /\ ref'.got = ref.got /\ ref'.answered = ref.answered /\ ref'.refused = ref.refused /\ ~p.stale
  BY <1>0, EApply DEF E!Period
<1>2. p.active = <<>>
  <2>1. c[1] \in {"none", "quit", "start", "destroy"}
    BY DEF E!Calls
  <2> QED
    BY <1>0, <2>1 DEF E!Apply, E!UpdateChannel, E!RemoveChannel, LoopState
<1>3. obj' = [p EXCEPT !.dead = {}, !.slow = obj.idle >= IdleRounds, !.pc = IF p.quit THEN "exit" ELSE "poll"]
  BY DEF E!Period
<1> HIDE DEF p
<1>4. /\ obj' \in LoopState /\ obj'.active = p.active /\ obj'.q = p.q /\ obj'.stale = p.stale
  <2> DEFINE slow == obj.idle >= IdleRounds
             pc == IF p.quit THEN "exit" ELSE "poll"
  <2>1. slow \in BOOLEAN
    OBVIOUS
  <2>3. pc \in {"poll", "handle", "exit"}
    OBVIOUS
  <2>2. obj' = [p EXCEPT !.dead = {}, !.slow = slow, !.pc = pc]
    BY <1>3
  <2> HIDE DEF slow, pc
  <2> QED
    BY Zenon, <1>1, <2>1, <2>2, <2>3 DEF LoopState
<1>5. Balanced(obj', ref') /\ Replied(ref')
  BY <1>0, <1>1, <1>4 DEF Balanced, Replied
<1>6. ListedReady(obj') /\ ListedOnce(obj')
  BY <1>2, <1>4 DEF ListedReady, ListedOnce
<1> QED
  BY <1>1, <1>4, <1>5, <1>6 DEF EInv, ETyped

\* Quit, which a signal handler may call anywhere.
LEMMA EQuit ==
  ASSUME EInv, E!Quit
  PROVE EInv'
<1>1. /\ obj' \in LoopState /\ ref' = ref /\ obj'.active = obj.active /\ obj'.q = obj.q /\ obj'.on = obj.on
      /\ obj'.dead = obj.dead /\ obj'.stale = obj.stale
  BY Zenon DEF E!Quit, EInv, ETyped, LoopState
<1> QED
  BY <1>1 DEF EInv, ETyped, ListedReady, ListedOnce, Balanced, Replied

\* Every step of the event loop keeps its invariant.
LEMMA ENext == EInv /\ [E!Next]_E!vars => EInv'
<1>1. EInv /\ E!Next => EInv'
  BY EDatagram, EPoll, EHandleEvents, EPeriod, EQuit DEF E!Next, E!Run
<1>2. EInv /\ UNCHANGED E!vars => EInv'
  BY DEF E!vars, EInv, ETyped
<1> QED
  BY <1>1, <1>2
-----------------------------------------------------------------------------
(***************************************************************************)
(* Processors. While no reload failed, g_handle, g_creator and g_destroyer *)
(* name the one library that is mapped; while none came inside a request,  *)
(* a request uses the code and the object of that library only. A library  *)
(* keeps the operations it was built with, mapped or not, so what a reply  *)
(* said of it stays true.                                                  *)
(***************************************************************************)

Inside == {"created", "calculate", "calculated", "destroy"}   \* with an object
Points == {"poll", "create", "send"} \cup Inside

LibState == [mapped : SUBSET Nat, handle : Nat, creator : Nat, destroyer : Nat, loads : Nat, build : Seq(Builds),
             pc : Points, op : Ops \cup {""}, p : Nat, using : SUBSET Nat, client : {"idle", "wait"}, stale : BOOLEAN]
Answer == (Ops \cup {""}) \X Nat
LibRef == [lib : Nat, failed : BOOLEAN, within : BOOLEAN, served : Seq(Answer), asked : Nat]

\* A reply to op says of library lib, 0 for none, what is true of it.
Honest(o, op, lib) ==
  IF lib = 0 THEN \E l \in 1 .. o.loads : op \notin o.build[l] ELSE lib \in 1 .. o.loads /\ op \in o.build[lib]

Loaded(o, r) ==
  /\ Len(o.build) = o.loads /\ o.handle = r.lib
  /\ r.lib \in 1 .. o.loads /\ o.creator \in 1 .. o.loads /\ o.destroyer \in 1 .. o.loads
  /\ ~r.failed => o.mapped = {r.lib} /\ o.creator = r.lib /\ o.destroyer = r.lib

\* Where ProcessReq is.
Request(o) ==
  /\ o.pc # "poll" => o.client = "wait"
  /\ o.pc \in {"poll", "created", "calculated", "send"} => o.using = {}
  /\ o.pc = "create" => \E l \in 1 .. o.loads : o.using = {l}
  /\ o.pc \in Inside => o.p # 0
  /\ o.pc \in Inside \cup {"send"} => Honest(o, o.op, o.p)

Undisturbed(o, r) ==
  /\ o.stale => r.failed \/ r.within
  /\ ~r.failed /\ ~r.within => (o.pc = "create" => o.using = {r.lib}) /\ (o.pc \in Inside => o.p = r.lib)

Replies(o, r) ==
  /\ Len(r.served) = r.asked - (IF o.client = "wait" THEN 1 ELSE 0)
  /\ \A i \in 1 .. Len(r.served) : Honest(o, r.served[i][1], r.served[i][2])

PInv ==
  /\ obj \in LibState /\ ref \in LibRef
  /\ Loaded(obj, ref) /\ Request(obj) /\ Undisturbed(obj, ref) /\ Replies(obj, ref)

\* What the property states follows from the invariant of the service.
LEMMA PInvAgrees == PInv => P!Agrees
<1> SUFFICES ASSUME PInv PROVE P!Agrees
  OBVIOUS
<1>1. DOMAIN ref.served = 1 .. Len(ref.served)
  BY DEF PInv, LibRef
<1>2. \A i \in DOMAIN ref.served :
        IF ref.served[i][2] = 0 THEN \E l \in 1 .. obj.loads : ref.served[i][1] \notin obj.build[l]
        ELSE ref.served[i][1] \in obj.build[ref.served[i][2]]
  BY <1>1 DEF PInv, Replies, Honest
<1> QED
  BY <1>2 DEF PInv, Loaded, Undisturbed, Replies, P!Agrees

\* main before the first request.
LEMMA PInit == P!Init => PInv
<1> SUFFICES ASSUME P!Init PROVE PInv
  OBVIOUS
<1>1. PICK b \in Builds :
        obj = [mapped |-> {1}, handle |-> 1, creator |-> 1, destroyer |-> 1, loads |-> 1, build |-> <<b>>,
               pc |-> "poll", op |-> "", p |-> 0, using |-> {}, client |-> "idle", stale |-> FALSE]
  BY Zenon DEF P!Init
<1>2. ref = [lib |-> 1, failed |-> FALSE, within |-> FALSE, served |-> <<>>, asked |-> 0]
  BY Zenon DEF P!Init
<1>3. <<b>> \in Seq(Builds) /\ Len(<<b>>) = 1
  OBVIOUS
<1>4. obj \in LibState
  <2>1. "" \in Ops \cup {""} /\ "poll" \in Points /\ {1} \in SUBSET Nat /\ {} \in SUBSET Nat
    BY DEF Points
  <2> QED
    BY Zenon, <1>1, <1>3, <2>1 DEF LibState
<1>5. ref \in LibRef
  BY <1>2 DEF LibRef
<1>6. /\ obj.mapped = {1} /\ obj.handle = 1 /\ obj.creator = 1 /\ obj.destroyer = 1 /\ obj.loads = 1 /\ Len(obj.build) = 1
      /\ obj.pc = "poll" /\ obj.using = {} /\ obj.client = "idle" /\ obj.stale = FALSE
  BY Zenon, <1>1, <1>3
<1>7. ref.lib = 1 /\ Len(ref.served) = 0 /\ ref.asked = 0
  BY <1>2
<1>8. Loaded(obj, ref)
  BY <1>6, <1>7 DEF Loaded
<1>9. Request(obj) /\ Undisturbed(obj, ref) /\ Replies(obj, ref)
  BY <1>6, <1>7 DEF Request, Undisturbed, Replies, Inside
<1> QED
  BY <1>4, <1>5, <1>8, <1>9 DEF PInv

\* A client sends a request.
LEMMA PAsk ==
  ASSUME PInv, NEW op \in Ops, P!Ask(op)
  PROVE PInv'
<1>1. /\ obj' = [obj EXCEPT !.client = "wait", !.op = op] /\ ref' = [ref EXCEPT !.asked = ref.asked + 1]
      /\ obj.client = "idle"
  BY DEF P!Ask
<1>2. obj \in LibState /\ ref \in LibRef /\ Loaded(obj, ref) /\ Request(obj) /\ Undisturbed(obj, ref) /\ Replies(obj, ref)
  BY DEF PInv
<1>3. obj.pc = "poll"
  BY <1>1, <1>2 DEF Request
<1>4. obj' \in LibState
  BY Zenon, <1>1, <1>2 DEF LibState
<1>5. ref' \in LibRef /\ ref.asked \in Nat
  BY <1>1, <1>2 DEF LibRef
<1>6. /\ obj'.mapped = obj.mapped /\ obj'.handle = obj.handle /\ obj'.creator = obj.creator /\ obj'.destroyer = obj.destroyer
      /\ obj'.loads = obj.loads /\ obj'.build = obj.build /\ obj'.pc = obj.pc /\ obj'.p = obj.p /\ obj'.using = obj.using
      /\ obj'.stale = obj.stale /\ obj'.client = "wait"
  BY Zenon, <1>1, <1>2 DEF LibState
<1>7. ref'.lib = ref.lib /\ ref'.failed = ref.failed /\ ref'.within = ref.within /\ ref'.served = ref.served /\ ref'.asked = ref.asked + 1
  BY <1>1, <1>2 DEF LibRef
<1>8. Loaded(obj', ref') /\ Undisturbed(obj', ref')
  BY <1>2, <1>6, <1>7 DEF Loaded, Undisturbed
<1>9. Request(obj')
  BY <1>2, <1>3, <1>6 DEF Request, Inside
<1>10. Replies(obj', ref')
  BY <1>1, <1>2, <1>5, <1>6, <1>7 DEF Replies, Honest
<1> QED
  BY <1>4, <1>5, <1>8, <1>9, <1>10 DEF PInv

\* The state LoadLibSO leaves, its fields one by one.
Kept(o) ==
  /\ o.pc = obj.pc /\ o.op = obj.op /\ o.p = obj.p /\ o.using = obj.using /\ o.client = obj.client
  /\ o.loads >= obj.loads /\ Len(o.build) = o.loads /\ \A l \in 1 .. obj.loads : o.build[l] = obj.build[l]

LoadedWhole(o) ==
  /\ o.mapped = (obj.mapped \ {obj.handle}) \cup {o.loads}
  /\ o.loads > 0 /\ o.handle = o.loads /\ o.creator = o.loads /\ o.destroyer = o.loads

LoadFailed(o) ==
  /\ o.handle = obj.handle /\ o.destroyer = obj.destroyer
  /\ o.creator = obj.creator \/ (o.creator = o.loads /\ o.loads > 0)

Outcomes == {"", "no library", "no creator", "no destroyer"}

\* LoadLibSO leaves either a whole library with its two functions or the closed one's pointers.
LEMMA PLoadLibSO ==
  ASSUME NEW b \in Builds, NEW how, NEW o
  PROVE obj \in LibState /\ Len(obj.build) = obj.loads /\ how \in Outcomes /\ o = P!LoadLibSO(obj, how, b)
        => o \in LibState /\ Kept(o) /\ (IF how = "" THEN LoadedWhole(o) ELSE LoadFailed(o))
<1>0. SUFFICES ASSUME obj \in LibState, Len(obj.build) = obj.loads, how \in Outcomes, o = P!LoadLibSO(obj, how, b)
               PROVE o \in LibState /\ Kept(o) /\ (IF how = "" THEN LoadedWhole(o) ELSE LoadFailed(o))
  BY Zenon
<1> DEFINE n == obj.loads + 1
           closed == obj.mapped \ {obj.handle}
           longer == Append(obj.build, b)
           more == closed \cup {n}
<1>1. obj.loads \in Nat /\ obj.mapped \in SUBSET Nat /\ obj.build \in Seq(Builds)
  BY Zenon, <1>0 DEF LibState
<1>2. n \in Nat /\ n > 0 /\ n > obj.loads
  BY <1>1
<1>3. longer \in Seq(Builds) /\ Len(longer) = n /\ \A l \in 1 .. obj.loads : longer[l] = obj.build[l]
  <2>1. longer \in Seq(Builds) /\ Len(longer) = Len(obj.build) + 1
    BY <1>1
  <2>2. \A l \in 1 .. Len(obj.build) : longer[l] = obj.build[l]
    BY <1>1
  <2> QED
    BY <1>0, <2>1, <2>2
<1> HIDE DEF n, longer
<1>4. closed \in SUBSET Nat /\ more \in SUBSET Nat
  BY <1>1, <1>2
<1> HIDE DEF closed, more
<1>5. obj \in LibState /\ Len(obj.build) = obj.loads
  BY <1>0
<1>6. CASE how = "no library"
  <2>1. o = [obj EXCEPT !.mapped = closed]
    BY Zenon, <1>0, <1>6 DEF P!LoadLibSO, closed
  <2>2. o \in LibState
    BY Zenon, <1>5, <1>4, <2>1 DEF LibState
  <2>3. Kept(o)
    <3>1. o.pc = obj.pc /\ o.op = obj.op /\ o.p = obj.p /\ o.using = obj.using /\ o.client = obj.client
      BY Zenon, <1>5, <2>1 DEF LibState
    <3>2. o.loads = obj.loads /\ o.build = obj.build
      BY Zenon, <1>5, <2>1 DEF LibState
    <3> QED
      BY <1>1, <1>5, <3>1, <3>2 DEF Kept
  <2>4. LoadFailed(o)
    BY Zenon, <1>5, <2>1 DEF LibState, LoadFailed
  <2> QED
    BY <1>6, <2>2, <2>3, <2>4, Zenon
<1>7. CASE how = "no creator"
  <2>1. o = [obj EXCEPT !.mapped = more, !.loads = n, !.build = longer]
    BY Zenon, <1>0, <1>7 DEF P!LoadLibSO, closed, n, longer, more
  <2>2. o \in LibState
    <3>1. obj \in LibState /\ n \in Nat /\ longer \in Seq(Builds) /\ more \in SUBSET Nat
      BY <1>2, <1>3, <1>4, <1>5
    <3> QED
      BY Zenon, <2>1, <3>1 DEF LibState
  <2>3. Kept(o)
    <3>1. o.pc = obj.pc /\ o.op = obj.op /\ o.p = obj.p /\ o.using = obj.using /\ o.client = obj.client
      BY Zenon, <1>5, <2>1 DEF LibState
    <3>2. o.loads = n /\ o.build = longer
      BY Zenon, <1>5, <2>1 DEF LibState
    <3> QED
      BY <1>1, <1>2, <1>3, <3>1, <3>2 DEF Kept
  <2>4. LoadFailed(o)
    BY Zenon, <1>5, <2>1 DEF LibState, LoadFailed
  <2> QED
    BY <1>7, <2>2, <2>3, <2>4, Zenon
<1>8. CASE how = "no destroyer"
  <2>1. o = [obj EXCEPT !.mapped = more, !.loads = n, !.build = longer, !.creator = n]
    BY Zenon, <1>0, <1>8 DEF P!LoadLibSO, closed, n, longer, more, LibState
  <2>2. o \in LibState
    <3>1. obj \in LibState /\ n \in Nat /\ longer \in Seq(Builds) /\ more \in SUBSET Nat
      BY <1>2, <1>3, <1>4, <1>5
    <3> QED
      BY Zenon, <2>1, <3>1 DEF LibState
  <2>3. Kept(o)
    <3>1. o.pc = obj.pc /\ o.op = obj.op /\ o.p = obj.p /\ o.using = obj.using /\ o.client = obj.client
      BY Zenon, <1>5, <2>1 DEF LibState
    <3>2. o.loads = n /\ o.build = longer
      BY Zenon, <1>5, <2>1 DEF LibState
    <3> QED
      BY <1>1, <1>2, <1>3, <3>1, <3>2 DEF Kept
  <2>4. LoadFailed(o)
    BY Zenon, <1>5, <1>2, <2>1 DEF LibState, LoadFailed
  <2> QED
    BY <1>8, <2>2, <2>3, <2>4, Zenon
<1>9. CASE how = ""
  <2>1. o = [obj EXCEPT !.mapped = more, !.loads = n, !.build = longer, !.creator = n, !.destroyer = n, !.handle = n]
    BY Zenon, <1>0, <1>9 DEF P!LoadLibSO, closed, n, longer, more, LibState
  <2>2. o \in LibState
    <3>1. obj \in LibState /\ n \in Nat /\ longer \in Seq(Builds) /\ more \in SUBSET Nat
      BY <1>2, <1>3, <1>4, <1>5
    <3> QED
      BY Zenon, <2>1, <3>1 DEF LibState
  <2>3. Kept(o)
    <3>1. o.pc = obj.pc /\ o.op = obj.op /\ o.p = obj.p /\ o.using = obj.using /\ o.client = obj.client
      BY Zenon, <1>5, <2>1 DEF LibState
    <3>2. o.loads = n /\ o.build = longer
      BY Zenon, <1>5, <2>1 DEF LibState
    <3> QED
      BY <1>1, <1>2, <1>3, <3>1, <3>2 DEF Kept
  <2>4. o.mapped = more /\ o.loads = n /\ o.creator = n /\ o.destroyer = n /\ o.handle = n
    BY Zenon, <1>5, <2>1 DEF LibState
  <2>5. LoadedWhole(o)
    BY <1>2, <2>4 DEF LoadedWhole, more, closed
  <2> QED
    BY <1>9, <2>2, <2>3, <2>5, Zenon
<1> QED
  BY Zenon, <1>0, <1>6, <1>7, <1>8, <1>9 DEF Outcomes

\* What is true of a library stays true when more are loaded.
LEMMA PHonest ==
  ASSUME NEW o, NEW n \in Nat, NEW m \in Nat, obj.loads = n, o.loads = m, m >= n,
         \A l \in 1 .. n : o.build[l] = obj.build[l], NEW op, NEW lib, Honest(obj, op, lib)
  PROVE Honest(o, op, lib)
<1>1. CASE lib = 0
  <2>1. PICK l \in 1 .. n : op \notin obj.build[l]
    BY <1>1 DEF Honest
  <2>2. l \in 1 .. m /\ op \notin o.build[l]
    BY <2>1
  <2> QED
    BY <1>1, <2>2 DEF Honest
<1>2. CASE lib # 0
  <2>1. lib \in 1 .. n /\ op \in obj.build[lib]
    BY <1>2 DEF Honest
  <2> QED
    BY <1>2, <2>1 DEF Honest
<1> QED
  BY <1>1, <1>2

\* The handler leaves an undisturbed service undisturbed unless it fails or comes inside a
\* request; what was replied stays true.
LEMMA PSigHandle ==
  ASSUME PInv, NEW b \in Builds, NEW how
  PROVE how \in Outcomes /\ P!SigHandle(how, b) => PInv'
<1>0. SUFFICES ASSUME how \in Outcomes, P!SigHandle(how, b) PROVE PInv'
  OBVIOUS
<1>1. PICK o : /\ o = P!LoadLibSO(obj, how, b)
               /\ obj' = [o EXCEPT !.stale = ~(o.using \subseteq o.mapped)]
               /\ ref' = [ref EXCEPT !.lib = IF how = "" THEN o.loads ELSE @, !.failed = @ \/ how # "",
                                     !.within = @ \/ obj.pc \notin {"poll", "send"}]
  BY Zenon, <1>0 DEF P!SigHandle
<1>2. obj \in LibState /\ ref \in LibRef /\ Loaded(obj, ref) /\ Request(obj) /\ Undisturbed(obj, ref) /\ Replies(obj, ref)
  BY DEF PInv
<1>3. o \in LibState /\ Kept(o) /\ (IF how = "" THEN LoadedWhole(o) ELSE LoadFailed(o))
  BY Zenon, <1>0, <1>1, <1>2, PLoadLibSO DEF Loaded
<1>4. obj' \in LibState
  BY ZenonT(60), <1>1, <1>3 DEF LibState
<1>5. /\ obj'.mapped = o.mapped /\ obj'.handle = o.handle /\ obj'.creator = o.creator /\ obj'.destroyer = o.destroyer
      /\ obj'.loads = o.loads /\ obj'.build = o.build /\ obj'.stale = ~(o.using \subseteq o.mapped)
  BY Zenon, <1>1, <1>3 DEF LibState
<1>6. obj'.pc = obj.pc /\ obj'.op = obj.op /\ obj'.p = obj.p /\ obj'.using = obj.using /\ obj'.client = obj.client
  <2>1. obj'.pc = o.pc /\ obj'.op = o.op /\ obj'.p = o.p /\ obj'.using = o.using /\ obj'.client = o.client
    BY Zenon, <1>1, <1>3 DEF LibState
  <2> QED
    BY Zenon, <1>3, <2>1 DEF Kept
<1>7. /\ ref'.lib = IF how = "" THEN o.loads ELSE ref.lib
      /\ ref'.failed = (ref.failed \/ how # "") /\ ref'.within = (ref.within \/ obj.pc \notin {"poll", "send"})
      /\ ref'.served = ref.served /\ ref'.asked = ref.asked
  BY <1>1, <1>2 DEF LibRef
<1>8. ref' \in LibRef
  <2>1. o.loads \in Nat /\ ref.lib \in Nat
    BY Zenon, <1>2, <1>3 DEF LibState, LibRef
  <2>2. ref' = [ref EXCEPT !.lib = ref'.lib, !.failed = ref'.failed, !.within = ref'.within]
    BY <1>1, <1>2 DEF LibRef
  <2>3. ref'.lib \in Nat
    BY Zenon, <2>1, <1>7
  <2>4. ref'.failed \in BOOLEAN /\ ref'.within \in BOOLEAN
    BY <1>7, Zenon
  <2> QED
    BY Zenon, <1>2, <2>2, <2>3, <2>4 DEF LibRef
<1>9. /\ obj.loads \in Nat /\ o.loads \in Nat /\ obj'.loads >= obj.loads /\ Len(obj'.build) = obj'.loads
      /\ \A l \in 1 .. obj.loads : obj'.build[l] = obj.build[l]
  BY ZenonT(60), <1>2, <1>3, <1>5 DEF Kept, LibState
<1>10. Loaded(obj', ref')
  <2>1. CASE how = ""
    <3>1. LoadedWhole(o) /\ ref'.lib = o.loads /\ (ref'.failed = ref.failed)
      BY Zenon, <1>2, <1>3, <1>7, <2>1 DEF LibRef
    <3>2. ~ref'.failed => o.mapped = {o.loads}
      BY <3>1, <1>2 DEF Loaded, LoadedWhole
    <3> QED
      BY <3>1, <3>2, <1>9, <1>5 DEF Loaded, LoadedWhole
  <2>2. CASE how # ""
    <3>1. LoadFailed(o) /\ ref'.lib = ref.lib /\ ref'.failed
      BY Zenon, <1>3, <1>7, <2>2
    <3>2. /\ obj.handle = ref.lib /\ ref.lib \in 1 .. obj.loads /\ obj.creator \in 1 .. obj.loads
          /\ obj.destroyer \in 1 .. obj.loads
      BY <1>2 DEF Loaded
    <3>3. /\ obj'.handle = ref.lib /\ obj'.destroyer = obj.destroyer
          /\ obj'.creator = obj.creator \/ (obj'.creator = obj'.loads /\ obj'.loads > 0)
      BY <1>5, <3>1, <3>2 DEF LoadFailed
    <3>4. \A x \in 1 .. obj.loads : x \in 1 .. obj'.loads
      BY <1>9, <1>5
    <3>5. obj'.creator \in 1 .. obj'.loads
      BY <1>9, <1>5, <3>2, <3>3, <3>4
    <3> QED
      BY <1>9, <3>1, <3>2, <3>3, <3>4, <3>5 DEF Loaded
  <2> QED
    BY Zenon, <2>1, <2>2
<1>11. \A op, lib : Honest(obj, op, lib) => Honest(obj', op, lib)
  <2>1. SUFFICES ASSUME NEW op, NEW lib, Honest(obj, op, lib) PROVE Honest(obj', op, lib)
    OBVIOUS
  <2>2. obj'.loads \in Nat
    BY <1>5, <1>9
  <2> DEFINE q == obj'
             n == obj.loads
             m == obj'.loads
  <2>3. n \in Nat /\ m \in Nat /\ obj.loads = n /\ q.loads = m /\ m >= n /\ \A l \in 1 .. n : q.build[l] = obj.build[l]
    BY <1>9, <2>2
  <2> HIDE DEF q, n, m
  <2>4. Honest(q, op, lib)
    BY <2>1, <2>3, PHonest
  <2> QED
    BY <2>4 DEF q
<1>12. Request(obj')
  <2>1. obj.pc = "create" => \E l \in 1 .. obj'.loads : obj.using = {l}
    BY <1>2, <1>5, <1>9 DEF Request
  <2> QED
    BY <1>2, <1>6, <1>11, <2>1 DEF Request
<1>13. Undisturbed(obj', ref')
  <2>1. SUFFICES ASSUME ~ref'.failed, ~ref'.within
                 PROVE /\ ~obj'.stale /\ (obj'.pc = "create" => obj'.using = {ref'.lib})
                       /\ (obj'.pc \in Inside => obj'.p = ref'.lib)
    BY DEF Undisturbed
  <2>2. obj.pc \in {"poll", "send"}
    BY Zenon, <1>7, <2>1
  <2>3. obj.using = {}
    BY <1>2, <2>2 DEF Request
  <2>4. o.using = {}
    BY Zenon, <2>3, <1>3 DEF Kept
  <2> QED
    BY Zenon, <1>5, <1>6, <2>2, <2>4 DEF Inside
<1>14. Replies(obj', ref')
  BY Zenon, <1>2, <1>6, <1>7, <1>11 DEF Replies
<1> QED
  BY <1>4, <1>8, <1>10, <1>12, <1>13, <1>14 DEF PInv

\* Replies stay honest while clients and builds stay as they are.
LEMMA PReplies ==
  ASSUME NEW o, NEW r, NEW q, Replies(o, r), q.client = o.client, \A op, lib : Honest(q, op, lib) = Honest(o, op, lib)
  PROVE Replies(q, r)
BY DEF Replies

\* One step of ProcessReq that enters or leaves a call.
LEMMA PCall ==
  ASSUME PInv, NEW from, NEW to \in Points, NEW libs \in SUBSET Nat, P!Call(from, to, libs),
         to # "poll", obj.client = "wait",
         to \in {"created", "calculated", "send"} => libs = {},
         to = "create" => \E l \in 1 .. obj.loads : libs = {l},
         to \in Inside => obj.p # 0,
         to \in Inside \cup {"send"} => Honest(obj, obj.op, obj.p),
         ~ref.failed /\ ~ref.within =>
           /\ libs \subseteq {ref.lib} /\ (to = "create" => libs = {ref.lib}) /\ (to \in Inside => obj.p = ref.lib)
  PROVE PInv'
<1>1. obj' = [obj EXCEPT !.pc = to, !.using = libs, !.stale = ~(libs \subseteq obj.mapped)] /\ ref' = ref
  BY DEF P!Call
<1>2. obj \in LibState /\ ref \in LibRef /\ Loaded(obj, ref) /\ Request(obj) /\ Undisturbed(obj, ref) /\ Replies(obj, ref)
  BY DEF PInv
<1>3. obj' \in LibState
  BY ZenonT(60), <1>1, <1>2 DEF LibState
<1>4. /\ obj'.mapped = obj.mapped /\ obj'.handle = obj.handle /\ obj'.creator = obj.creator /\ obj'.destroyer = obj.destroyer
      /\ obj'.loads = obj.loads /\ obj'.build = obj.build
  BY Zenon, <1>1, <1>2 DEF LibState
<1>5. /\ obj'.op = obj.op /\ obj'.p = obj.p /\ obj'.client = obj.client /\ obj'.pc = to /\ obj'.using = libs
      /\ obj'.stale = ~(libs \subseteq obj.mapped)
  BY Zenon, <1>1, <1>2 DEF LibState
<1>6. Loaded(obj', ref')
  BY <1>1, <1>2, <1>4 DEF Loaded
<1>7. \A op, lib : Honest(obj', op, lib) = Honest(obj, op, lib)
  BY <1>4 DEF Honest
<1>8. Request(obj')
  BY <1>4, <1>5, <1>7 DEF Request
<1>9. Undisturbed(obj', ref')
  <2>1. SUFFICES ASSUME ~ref.failed, ~ref.within
                 PROVE ~obj'.stale /\ (to = "create" => libs = {ref.lib}) /\ (to \in Inside => obj.p = ref.lib)
    BY <1>1, <1>5 DEF Undisturbed
  <2>2. libs \subseteq obj.mapped
    BY <1>2, <2>1 DEF Loaded
  <2> QED
    BY Zenon, <1>5, <2>1, <2>2
<1>10. Replies(obj', ref')
  <2>1. obj'.client = obj.client /\ ref' = ref
    BY <1>1, <1>5
  <2> QED
    BY <1>2, <1>7, <2>1, PReplies, Zenon
<1> QED
  BY <1>1, <1>2, <1>3, <1>6, <1>8, <1>9, <1>10 DEF PInv

\* The steps of ProcessReq that call into the library.
LEMMA PCalls ==
  ASSUME PInv, P!CallCreator \/ P!CallDoCalculate \/ P!DoCalculate \/ P!CallDestroyer \/ P!DestroyProcessor
  PROVE PInv'
<1>1. obj \in LibState /\ Loaded(obj, ref) /\ Request(obj) /\ Undisturbed(obj, ref)
  BY DEF PInv
<1>2. obj.creator \in 1 .. obj.loads /\ obj.creator \in Nat /\ obj.destroyer \in Nat /\ obj.p \in Nat
  BY Zenon, <1>1 DEF Loaded, LibState
<1>3. ~ref.failed => obj.creator = ref.lib /\ obj.destroyer = ref.lib
  BY <1>1 DEF Loaded
<1>4. obj.pc \in Inside => /\ obj.client = "wait" /\ obj.p # 0 /\ Honest(obj, obj.op, obj.p)
                           /\ ~ref.failed /\ ~ref.within => obj.p = ref.lib
  BY <1>1 DEF Request, Undisturbed, Inside
<1>5. CASE P!CallCreator
  <2>1. obj.client = "wait" /\ P!Call("poll", "create", {obj.creator})
    BY <1>5 DEF P!CallCreator
  <2>2. "create" \in Points /\ "create" \notin Inside /\ {obj.creator} \in SUBSET Nat
    BY <1>2 DEF Points, Inside
  <2> QED
    BY <1>2, <1>3, <2>1, <2>2, PCall
<1>6. CASE P!CallDoCalculate
  <2>1. P!Call("created", "calculate", {obj.p}) /\ obj.pc \in Inside
    BY <1>6 DEF P!CallDoCalculate, P!Call, Inside
  <2>2. "calculate" \in Points /\ {obj.p} \in SUBSET Nat
    BY <1>2 DEF Points, Inside
  <2> QED
    BY <1>4, <2>1, <2>2, PCall
<1>7. CASE P!DoCalculate
  <2>1. P!Call("calculate", "calculated", {}) /\ obj.pc \in Inside
    BY <1>7 DEF P!DoCalculate, P!Call, Inside
  <2>2. "calculated" \in Points
    BY DEF Points, Inside
  <2> QED
    BY <1>4, <2>1, <2>2, PCall
<1>8. CASE P!CallDestroyer
  <2>1. P!Call("calculated", "destroy", {obj.destroyer, obj.p}) /\ obj.pc \in Inside
    BY <1>8 DEF P!CallDestroyer, P!Call, Inside
  <2>2. "destroy" \in Points /\ {obj.destroyer, obj.p} \in SUBSET Nat
    BY <1>2 DEF Points, Inside
  <2> QED
    BY <1>3, <1>4, <2>1, <2>2, PCall
<1>9. CASE P!DestroyProcessor
  <2>1. P!Call("destroy", "send", {}) /\ obj.pc \in Inside
    BY <1>9 DEF P!DestroyProcessor, P!Call, Inside
  <2>2. "send" \in Points /\ "send" \notin Inside
    BY DEF Points, Inside
  <2> QED
    BY <1>4, <2>1, <2>2, PCall
<1> QED
  BY <1>5, <1>6, <1>7, <1>8, <1>9

\* CreateProcessor finds the operation among those of the build it runs in, or returns null.
LEMMA PCreateProcessor ==
  ASSUME PInv, P!CreateProcessor
  PROVE PInv'
<1>1. obj \in LibState /\ ref \in LibRef /\ Loaded(obj, ref) /\ Request(obj) /\ Undisturbed(obj, ref) /\ Replies(obj, ref)
  BY DEF PInv
<1>2. obj.pc = "create" /\ ~obj.stale /\ ref' = ref
  BY DEF P!CreateProcessor
<1>3. PICK l \in 1 .. obj.loads : obj.using = {l}
  BY <1>1, <1>2 DEF Request
<1> DEFINE p == IF obj.op \in obj.build[l] THEN l ELSE 0
           to == IF p = 0 THEN "send" ELSE "created"
<1>4. obj' = [obj EXCEPT !.p = p, !.using = {}, !.pc = to]
  BY <1>3 DEF P!CreateProcessor
<1>6. l \in Nat /\ l # 0
  <2>1. obj.loads \in Nat
    BY Zenon, <1>1 DEF LibState
  <2> QED
    BY <2>1
<1>7. Honest(obj, obj.op, p) /\ p \in Nat /\ (p # 0 => p = l)
  BY <1>6 DEF Honest
<1>8. to \in Points /\ to \in {"created", "send"} /\ (to \in Inside => p # 0)
  BY DEF Points, Inside
<1> HIDE DEF p, to
<1>9. obj' \in LibState
  BY Zenon, <1>1, <1>4, <1>7, <1>8 DEF LibState
<1>10. /\ obj'.mapped = obj.mapped /\ obj'.handle = obj.handle /\ obj'.creator = obj.creator /\ obj'.destroyer = obj.destroyer
       /\ obj'.loads = obj.loads /\ obj'.build = obj.build
  BY Zenon, <1>1, <1>4 DEF LibState
<1>11. obj'.op = obj.op /\ obj'.client = obj.client /\ obj'.p = p /\ obj'.pc = to /\ obj'.using = {} /\ obj'.stale = obj.stale
  BY Zenon, <1>1, <1>4 DEF LibState
<1>12. Loaded(obj', ref')
  BY <1>1, <1>2, <1>10 DEF Loaded
<1>13. \A op, lib : Honest(obj', op, lib) = Honest(obj, op, lib)
  BY <1>10 DEF Honest
<1>14. Request(obj')
  <2>1. obj.client = "wait"
    BY <1>1, <1>2 DEF Request
  <2> QED
    BY <1>7, <1>8, <1>11, <1>13, <2>1 DEF Request, Inside
<1>15. Undisturbed(obj', ref')
  <2>1. ~ref.failed /\ ~ref.within => l = ref.lib
    BY <1>1, <1>2, <1>3 DEF Undisturbed
  <2> QED
    BY <1>2, <1>7, <1>8, <1>11, <2>1 DEF Undisturbed
<1>16. Replies(obj', ref')
  BY <1>1, <1>2, <1>11, <1>13 DEF Replies
<1> QED
  BY <1>1, <1>2, <1>9, <1>12, <1>14, <1>15, <1>16 DEF PInv

\* The answer goes back to the client.
LEMMA PSend ==
  ASSUME PInv, P!Send
  PROVE PInv'
<1>1. obj \in LibState /\ ref \in LibRef /\ Loaded(obj, ref) /\ Request(obj) /\ Undisturbed(obj, ref) /\ Replies(obj, ref)
  BY DEF PInv
<1> DEFINE a == <<obj.op, obj.p>>
           s == ref.served
<1>2. /\ obj.pc = "send" /\ ~obj.stale /\ obj' = [obj EXCEPT !.pc = "poll", !.client = "idle", !.p = 0]
      /\ ref' = [ref EXCEPT !.served = Append(s, a)]
  BY DEF P!Send
<1>3. a \in Answer /\ a[1] = obj.op /\ a[2] = obj.p
  BY Zenon, <1>1 DEF LibState, Answer
<1>4. s \in Seq(Answer) /\ ref.asked \in Nat
  BY <1>1 DEF LibRef
<1>5. /\ obj'.mapped = obj.mapped /\ obj'.handle = obj.handle /\ obj'.creator = obj.creator /\ obj'.destroyer = obj.destroyer
      /\ obj'.loads = obj.loads /\ obj'.build = obj.build
  BY Zenon, <1>1, <1>2 DEF LibState
<1>6. obj'.client = "idle" /\ obj'.pc = "poll" /\ obj'.using = obj.using /\ obj'.stale = obj.stale
  BY Zenon, <1>1, <1>2 DEF LibState
<1>7. obj' \in LibState
  BY Zenon, <1>1, <1>2 DEF LibState, Points
<1> HIDE DEF a
<1>8. ref' \in LibRef
  <2>1. Append(s, a) \in Seq(Answer)
    BY <1>3, <1>4
  <2> QED
    BY Zenon, <1>1, <1>2, <2>1 DEF LibRef
<1>9. ref'.lib = ref.lib /\ ref'.failed = ref.failed /\ ref'.within = ref.within /\ ref'.asked = ref.asked /\ ref'.served = Append(s, a)
  BY <1>1, <1>2 DEF LibRef
<1>10. Loaded(obj', ref')
  BY <1>1, <1>5, <1>9 DEF Loaded
<1>11. \A op, lib : Honest(obj', op, lib) = Honest(obj, op, lib)
  BY <1>5 DEF Honest
<1>12. Request(obj') /\ obj.client = "wait" /\ Honest(obj, obj.op, obj.p)
  BY <1>1, <1>2, <1>6 DEF Request, Inside
<1>13. Undisturbed(obj', ref')
  BY <1>1, <1>2, <1>6, <1>9 DEF Undisturbed, Inside
<1>14. Replies(obj', ref')
  <2> DEFINE t == Append(s, a)
  <2>1. Len(t) = Len(s) + 1 /\ Len(s) \in Nat /\ t[Len(s) + 1] = a /\ \A i \in 1 .. Len(s) : t[i] = s[i]
    BY <1>3, <1>4
  <2>2. Len(s) = ref.asked - 1 /\ \A i \in 1 .. Len(s) : Honest(obj, s[i][1], s[i][2])
    BY <1>1, <1>12 DEF Replies
  <2> HIDE DEF t, s
  <2>3. \A i \in 1 .. Len(t) : i \in 1 .. Len(s) \/ i = Len(s) + 1
    BY <2>1
  <2>4. \A i \in 1 .. Len(t) : Honest(obj, t[i][1], t[i][2])
    BY Zenon, <1>3, <1>12, <2>1, <2>2, <2>3
  <2>5. Len(t) = ref.asked
    BY <1>4, <2>1, <2>2
  <2>6. ref'.served = t /\ ref'.asked = ref.asked
    BY <1>9 DEF t
  <2> QED
    BY <1>4, <1>6, <1>11, <2>4, <2>5, <2>6 DEF Replies
<1> QED
  BY <1>7, <1>8, <1>10, <1>12, <1>13, <1>14 DEF PInv

\* Every step of the service keeps its invariant.
LEMMA PNext == PInv /\ [P!Next]_P!vars => PInv'
<1> SUFFICES ASSUME PInv, [P!Next]_P!vars PROVE PInv'
  OBVIOUS
<1>1. CASE UNCHANGED P!vars
  BY <1>1 DEF PInv, P!vars
<1>2. CASE P!StartService
  BY <1>2, PCalls, PCreateProcessor, PSend DEF P!StartService
<1>3. CASE \E op \in Ops : P!Ask(op)
  BY <1>3, PAsk
<1>4. CASE \E b \in Builds, how \in Outcomes : P!SigHandle(how, b)
  BY Zenon, <1>4, PSigHandle
<1> QED
  BY Zenon, <1>1, <1>2, <1>3, <1>4 DEF P!Next, Outcomes
-----------------------------------------------------------------------------
(***************************************************************************)
(* Coroutine. The contexts that wait and the one that runs are a stack     *)
(* with Main at the bottom: Resume pushes, Yield and a routine's end pop.  *)
(***************************************************************************)

Contexts == Coroutines \cup {Main}

Running(s, status) == \A c \in Coroutines : (status[c] = "running") <=> (\E i \in 1 .. Len(s) : s[i] = c)

Stack(s, status, recovery) ==
  /\ s \in Seq(Contexts) /\ Len(s) > 0 /\ s[1] = Main
  /\ \A i, j \in 1 .. Len(s) : s[i] = s[j] => i = j
  /\ \A i \in 2 .. Len(s) : recovery[s[i]] = s[i - 1]
  /\ Running(s, status)

ContextState == [current : Contexts, status : [Coroutines -> {"suspended", "running", "dead"}], in : [Coroutines -> BOOLEAN],
                 recovery : [Coroutines -> Contexts], done : [Coroutines -> Contexts], live : [Coroutines -> BOOLEAN],
                 halt : {"no", "assert", "frame"}]
ContextRef == [callers : Seq(Contexts), yielded : SUBSET Coroutines]

\* The frame of the first Resume is left by a Yield only.
Frames(o, yielded) ==
  /\ \A c \in Coroutines :
       /\ o.live[c] => o.done[c] = o.recovery[c]
       /\ o.in[c] /\ o.status[c] = "suspended" => c \in yielded
       /\ o.status[c] = "running" /\ ~o.live[c] => c \in yielded
  /\ o.halt = "frame" => o.current \in yielded

Chain == Append(ref.callers, obj.current)

CInv ==
  /\ obj \in ContextState /\ ref \in ContextRef
  /\ Stack(Chain, obj.status, obj.recovery) /\ Frames(obj, ref.yielded)

\* What the property states follows from the invariant of the coroutines.
LEMMA CInvAgrees == CInv => C!Agrees
<1> SUFFICES ASSUME CInv PROVE C!Agrees
  OBVIOUS
<1>1. Stack(Chain, obj.status, obj.recovery) /\ Frames(obj, ref.yielded)
  BY DEF CInv
<1>2. DOMAIN Chain = 1 .. Len(Chain)
  BY <1>1 DEF Stack
<1> HIDE DEF Chain
<1>3. C!IsInjective(Chain) /\ Chain[1] = Main /\ \A i \in 2 .. Len(Chain) : obj.recovery[Chain[i]] = Chain[i - 1]
  BY <1>1, <1>2 DEF Stack, C!IsInjective
<1>4. \A c \in Coroutines : (obj.status[c] = "running") <=> (c \in C!Range(Chain))
  BY <1>1, <1>2 DEF Stack, Running, C!Range
<1> QED
  BY <1>1, <1>3, <1>4 DEF Frames, C!Agrees, Chain

\* No coroutine has run.
LEMMA CInit == C!Init => CInv
<1> SUFFICES ASSUME C!Init PROVE CInv
  OBVIOUS
<1> USE CoroutineAssumption
<1>1. obj \in ContextState /\ ref \in ContextRef
  BY DEF C!Init, ContextState, ContextRef, Contexts
<1>2. obj.current = Main /\ obj.halt = "no" /\ ref.callers = <<>>
  BY DEF C!Init
<1>3. \A c \in Coroutines : obj.status[c] = "suspended" /\ ~obj.in[c] /\ ~obj.live[c]
  BY DEF C!Init
<1>4. Chain = <<Main>> /\ Main \in Contexts
  BY <1>2 DEF Chain, Contexts
<1>5. Chain \in Seq(Contexts) /\ Len(Chain) = 1 /\ Chain[1] = Main
  BY <1>4
<1>6. Running(Chain, obj.status)
  BY <1>3, <1>5 DEF Running
<1>7. Stack(Chain, obj.status, obj.recovery)
  BY <1>5, <1>6 DEF Stack
<1>8. Frames(obj, ref.yielded)
  BY <1>2, <1>3 DEF Frames
<1> QED
  BY Zenon, <1>1, <1>7, <1>8 DEF CInv

\* Resuming a coroutine that does not run puts it on top of the chain of callers.
LEMMA CPush ==
  ASSUME NEW s, NEW st, NEW rec, Stack(s, st, rec), NEW c \in Coroutines, st[c] # "running",
         NEW st2, \A d \in Coroutines : (st2[d] = "running") <=> (st[d] = "running" \/ d = c),
         NEW rec2, \A d \in Coroutines : rec2[d] = IF d = c THEN s[Len(s)] ELSE rec[d]
  PROVE Stack(Append(s, c), st2, rec2)
<1> DEFINE t == Append(s, c)
           n == Len(s)
<1> USE CoroutineAssumption
<1>1. s \in Seq(Contexts) /\ n \in Nat /\ n > 0 /\ c \in Contexts
  BY DEF Stack, Contexts
<1>2. t \in Seq(Contexts) /\ Len(t) = n + 1 /\ t[n + 1] = c /\ \A i \in 1 .. n : t[i] = s[i]
  BY <1>1
<1>3. /\ s[1] = Main /\ \A i, j \in 1 .. n : s[i] = s[j] => i = j
      /\ \A i \in 2 .. n : rec[s[i]] = s[i - 1]
  BY DEF Stack
<1>4. \A i \in 1 .. n : s[i] # c
  BY DEF Stack, Running
<1>5. \A i \in 1 .. n : s[i] \in Contexts
  BY <1>1
<1> HIDE DEF t, n
<1>6. \A i \in 1 .. n + 1 : i \in 1 .. n \/ i = n + 1
  BY <1>1
<1>7. t[1] = Main
  BY <1>1, <1>2, <1>3
<1>8. \A i, j \in 1 .. n + 1 : t[i] = t[j] => i = j
  BY <1>2, <1>3, <1>4, <1>6
<1>9. \A i \in 2 .. n + 1 : rec2[t[i]] = t[i - 1]
  <2>1. SUFFICES ASSUME NEW i \in 2 .. n + 1 PROVE rec2[t[i]] = t[i - 1]
    OBVIOUS
  <2>2. CASE i = n + 1
    <3>1. t[i] = c /\ t[i - 1] = s[n]
      BY <1>1, <1>2, <2>2
    <3> QED
      BY <3>1 DEF n
  <2>3. CASE i # n + 1
    <3>1. i \in 2 .. n /\ i \in 1 .. n /\ i - 1 \in 1 .. n /\ 1 \in 1 .. n
      BY <1>1, <2>3
    <3>2. s[i] # Main
      BY <1>3, <3>1
    <3>3. s[i] \in Coroutines /\ s[i] # c
      BY <1>4, <1>5, <3>1, <3>2 DEF Contexts
    <3> QED
      BY <1>2, <1>3, <3>1, <3>3
  <2> QED
    BY <2>2, <2>3
<1>10. Running(t, st2)
  <2>1. \A d \in Coroutines : (st[d] = "running") <=> (\E i \in 1 .. n : s[i] = d)
    BY DEF Stack, Running, n
  <2>2. \A d : (\E i \in 1 .. n + 1 : t[i] = d) <=> ((\E i \in 1 .. n : s[i] = d) \/ d = c)
    BY <1>1, <1>2, <1>6
  <2>3. \A d \in Coroutines : (st2[d] = "running") <=> (\E i \in 1 .. n + 1 : t[i] = d)
    BY <2>1, <2>2, Zenon
  <2> QED
    BY <1>2, <2>3 DEF Running
<1> QED
  BY <1>1, <1>2, <1>7, <1>8, <1>9, <1>10 DEF Stack, t

\* Leaving the topmost coroutine leaves a chain of callers.
LEMMA CPop ==
  ASSUME NEW s, NEW st, NEW rec, Stack(s, st, rec), Len(s) > 1,
         NEW st2, \A d \in Coroutines : (st2[d] = "running") <=> (st[d] = "running" /\ d # s[Len(s)])
  PROVE Stack(SubSeq(s, 1, Len(s) - 1), st2, rec)
<1> DEFINE t == SubSeq(s, 1, Len(s) - 1)
           n == Len(s) - 1
<1>1. s \in Seq(Contexts) /\ Len(s) = n + 1 /\ n \in Nat /\ n > 0
  BY DEF Stack
<1>2. t \in Seq(Contexts) /\ Len(t) = n /\ \A i \in 1 .. n : t[i] = s[i]
  BY <1>1
<1>3. /\ s[1] = Main /\ \A i, j \in 1 .. n + 1 : s[i] = s[j] => i = j
      /\ \A i \in 2 .. n + 1 : rec[s[i]] = s[i - 1]
  BY <1>1 DEF Stack
<1>4. \A d \in Coroutines : (st[d] = "running") <=> (\E i \in 1 .. n + 1 : s[i] = d)
  BY <1>1 DEF Stack, Running
<1>5. \A d \in Coroutines : (st2[d] = "running") <=> (st[d] = "running" /\ d # s[n + 1])
  BY <1>1
<1> HIDE DEF t, n
<1>6. \A i \in 1 .. n + 1 : i \in 1 .. n \/ i = n + 1
  BY <1>1
<1>7. \A i \in 1 .. n : i \in 1 .. n + 1 /\ i # n + 1
  BY <1>1
<1>8. t[1] = Main /\ \A i, j \in 1 .. n : t[i] = t[j] => i = j
  BY <1>1, <1>2, <1>3, <1>7
<1>9. \A i \in 2 .. n : rec[t[i]] = t[i - 1]
  BY <1>1, <1>2, <1>3
<1>10. Running(t, st2)
  <2>1. \A d : (\E i \in 1 .. n : t[i] = d) <=> ((\E i \in 1 .. n + 1 : s[i] = d) /\ d # s[n + 1])
    <3>1. n + 1 \in 1 .. n + 1
      BY <1>1
    <3> QED
      BY <1>2, <1>3, <1>6, <1>7, <3>1
  <2> QED
    BY Zenon, <1>2, <1>4, <1>5, <2>1 DEF Running
<1> QED
  BY <1>1, <1>2, <1>8, <1>9, <1>10 DEF Stack, t

\* Resume starts or continues a coroutine.
LEMMA CResume ==
  ASSUME CInv, NEW c \in Coroutines, C!Resume(c)
  PROVE CInv'
<1> USE CoroutineAssumption
<1>1. obj \in ContextState /\ ref \in ContextRef /\ Stack(Chain, obj.status, obj.recovery) /\ Frames(obj, ref.yielded)
  BY DEF CInv
<1>2. CASE obj.status[c] # "suspended"
  <2>1. obj' = [obj EXCEPT !.halt = "assert"] /\ ref' = ref
    BY <1>2 DEF C!Resume
  <2>2. /\ obj' \in ContextState /\ obj'.current = obj.current /\ obj'.status = obj.status /\ obj'.recovery = obj.recovery
        /\ obj'.done = obj.done /\ obj'.live = obj.live /\ obj'.in = obj.in /\ obj'.halt = "assert"
    BY <1>1, <2>1 DEF ContextState
  <2>3. Chain' = Chain
    BY <2>1, <2>2 DEF Chain
  <2>4. Frames(obj', ref'.yielded)
    BY <1>1, <2>1, <2>2 DEF Frames
  <2> QED
    BY <1>1, <2>1, <2>2, <2>3, <2>4 DEF CInv
<1>3. CASE obj.status[c] = "suspended"
  <2>1. /\ obj' = [obj EXCEPT !.status[c] = "running", !.recovery[c] = obj.current,
                              !.done[c] = IF obj.in[c] THEN @ ELSE obj.current,
                              !.live[c] = ~obj.in[c], !.in[c] = TRUE, !.current = c]
        /\ ref' = [ref EXCEPT !.callers = Append(@, obj.current)] /\ obj.halt = "no"
    BY <1>3 DEF C!Resume
  <2>2. obj' \in ContextState
    <3>1. obj.current \in Contexts /\ c \in Contexts /\ (~obj.in[c]) \in BOOLEAN
      BY <1>1 DEF ContextState, Contexts
    <3>2. /\ [obj.status EXCEPT ![c] = "running"] \in [Coroutines -> {"suspended", "running", "dead"}]
          /\ [obj.recovery EXCEPT ![c] = obj.current] \in [Coroutines -> Contexts]
      BY <1>1, <3>1 DEF ContextState
    <3>3. [obj.done EXCEPT ![c] = IF obj.in[c] THEN @ ELSE obj.current] \in [Coroutines -> Contexts]
      BY <1>1, <3>1 DEF ContextState
    <3>4. [obj.live EXCEPT ![c] = ~obj.in[c]] \in [Coroutines -> BOOLEAN] /\ [obj.in EXCEPT ![c] = TRUE] \in [Coroutines -> BOOLEAN]
      BY <1>1, <3>1 DEF ContextState
    <3> DEFINE st == [obj.status EXCEPT ![c] = "running"]
               rec == [obj.recovery EXCEPT ![c] = obj.current]
               dn == [obj.done EXCEPT ![c] = IF obj.in[c] THEN @ ELSE obj.current]
               lv == [obj.live EXCEPT ![c] = ~obj.in[c]]
               inr == [obj.in EXCEPT ![c] = TRUE]
    <3>5. obj' = [obj EXCEPT !.status = st, !.recovery = rec, !.done = dn, !.live = lv, !.in = inr, !.current = c]
      BY <1>1, <2>1 DEF ContextState
    <3> HIDE DEF st, rec, dn, lv, inr
    <3>6. /\ st \in [Coroutines -> {"suspended", "running", "dead"}] /\ rec \in [Coroutines -> Contexts] /\ dn \in [Coroutines -> Contexts]
          /\ lv \in [Coroutines -> BOOLEAN] /\ inr \in [Coroutines -> BOOLEAN]
      BY <3>2, <3>3, <3>4 DEF st, rec, dn, lv, inr
    <3> QED
      BY Zenon, <1>1, <3>1, <3>5, <3>6 DEF ContextState
  <2>3. obj.current \in Contexts /\ ref.callers \in Seq(Contexts)
    BY <1>1 DEF ContextState, ContextRef
  <2>4. ref'.callers = Chain /\ ref'.yielded = ref.yielded
    BY <1>1, <2>1 DEF ContextRef, Chain
  <2>5. ref' \in ContextRef
    <3>1. Chain \in Seq(Contexts)
      BY <1>1 DEF Stack
    <3> QED
      BY Zenon, <1>1, <2>1, <3>1 DEF ContextRef, Chain
  <2>6. obj'.current = c /\ obj'.halt = obj.halt
    BY <1>1, <2>1 DEF ContextState
  <2>7. Chain' = Append(Chain, c)
    BY <2>4, <2>6 DEF Chain
  <2>8. Chain[Len(Chain)] = obj.current
    BY <2>3 DEF Chain
  <2>9. \A d \in Coroutines : /\ obj'.status[d] = IF d = c THEN "running" ELSE obj.status[d]
                              /\ obj'.recovery[d] = IF d = c THEN obj.current ELSE obj.recovery[d]
    BY <1>1, <2>1 DEF ContextState
  <2>10. \A d \in Coroutines : /\ obj'.done[d] = IF d = c /\ ~obj.in[c] THEN obj.current ELSE obj.done[d]
                               /\ obj'.live[d] = IF d = c THEN ~obj.in[c] ELSE obj.live[d]
                               /\ obj'.in[d] = IF d = c THEN TRUE ELSE obj.in[d]
    BY ZenonT(30), <1>1, <2>1 DEF ContextState
  <2>11. Stack(Chain', obj'.status, obj'.recovery)
    <3> DEFINE s == Chain
               st == obj.status
               rec == obj.recovery
               st2 == obj'.status
               rec2 == obj'.recovery
    <3>1. Stack(s, st, rec) /\ st[c] # "running"
      BY <1>1, <1>3
    <3>2. \A d \in Coroutines : (st2[d] = "running") <=> (st[d] = "running" \/ d = c)
      BY <2>9
    <3>3. \A d \in Coroutines : rec2[d] = IF d = c THEN s[Len(s)] ELSE rec[d]
      BY Zenon, <2>8, <2>9
    <3> HIDE DEF s, st, rec, st2, rec2
    <3>4. Stack(Append(s, c), st2, rec2)
      BY <3>1, <3>2, <3>3, CPush
    <3> QED
      BY <2>7, <3>4 DEF s, st2, rec2
  <2>12. Frames(obj', ref'.yielded)
    <3>1. SUFFICES ASSUME NEW d \in Coroutines
                   PROVE /\ obj'.live[d] => obj'.done[d] = obj'.recovery[d]
                         /\ obj'.in[d] /\ obj'.status[d] = "suspended" => d \in ref.yielded
                         /\ obj'.status[d] = "running" /\ ~obj'.live[d] => d \in ref.yielded
      BY Zenon, <2>1, <2>4, <2>6 DEF Frames
    <3>2. /\ obj.live[d] => obj.done[d] = obj.recovery[d]
          /\ obj.in[d] /\ obj.status[d] = "suspended" => d \in ref.yielded
          /\ obj.status[d] = "running" /\ ~obj.live[d] => d \in ref.yielded
      BY <1>1 DEF Frames
    <3>3. CASE d = c
      BY Zenon, <1>3, <2>9, <2>10, <3>2, <3>3
    <3>4. CASE d # c
      BY Zenon, <2>9, <2>10, <3>2, <3>4
    <3> QED
      BY <3>3, <3>4
  <2> QED
    BY <2>2, <2>5, <2>11, <2>12 DEF CInv
<1> QED
  BY <1>2, <1>3

\* A step that pops: the context below runs again.
LEMMA CBack ==
  ASSUME CInv, obj.current # Main, NEW to, to # "running"
  PROVE  /\ obj.current \in Coroutines /\ C!BelowTop(ref.callers) \in Seq(Contexts)
         /\ \A st2 : (\A d \in Coroutines : st2[d] = IF d = obj.current THEN to ELSE obj.status[d])
              => Stack(Append(C!BelowTop(ref.callers), obj.recovery[obj.current]), st2, obj.recovery)
<1> DEFINE s == Chain
           k == ref.callers
           n == Len(k)
           c == obj.current
<1>1. obj \in ContextState /\ ref \in ContextRef /\ Stack(s, obj.status, obj.recovery)
  BY DEF CInv
<1>2. k \in Seq(Contexts) /\ n \in Nat /\ c \in Contexts /\ c \in Coroutines
  BY <1>1 DEF ContextState, ContextRef, Contexts
<1>3. s \in Seq(Contexts) /\ Len(s) = n + 1 /\ s[n + 1] = c /\ \A i \in 1 .. n : s[i] = k[i]
  BY <1>2 DEF Chain
<1>4. s[1] = Main /\ \A i \in 2 .. Len(s) : obj.recovery[s[i]] = s[i - 1]
  BY <1>1 DEF Stack
<1> HIDE DEF s, n, c
<1>5. n > 0
  BY <1>2, <1>3, <1>4 DEF c
<1>6. obj.recovery[c] = k[n]
  <2>1. n + 1 \in 2 .. Len(s) /\ n \in 1 .. n
    BY <1>2, <1>3, <1>5
  <2>2. obj.recovery[s[n + 1]] = s[n]
    BY <1>2, <1>4, <2>1
  <2> QED
    BY <1>3, <2>1, <2>2
<1>7. C!BelowTop(k) \in Seq(Contexts) /\ Append(C!BelowTop(k), k[n]) = k
  BY <1>2, <1>5 DEF C!BelowTop, n
<1>8. SubSeq(s, 1, Len(s) - 1) = k
  BY <1>2, <1>3 DEF n
<1>9. ASSUME NEW st2, \A d \in Coroutines : st2[d] = IF d = c THEN to ELSE obj.status[d]
      PROVE Stack(k, st2, obj.recovery)
  <2> DEFINE st == obj.status
             rec == obj.recovery
  <2>1. \A d \in Coroutines : (st2[d] = "running") <=> (st[d] = "running" /\ d # s[Len(s)])
    BY <1>3, <1>9
  <2>2. Len(s) > 1
    BY <1>2, <1>3, <1>5
  <2>3. Stack(s, st, rec)
    BY <1>1
  <2> HIDE DEF st, rec
  <2>4. Stack(SubSeq(s, 1, Len(s) - 1), st2, rec)
    BY Zenon, <2>1, <2>2, <2>3, CPop
  <2> QED
    BY ZenonT(30), <1>8, <2>4 DEF rec
<1> QED
  BY <1>2, <1>6, <1>7, <1>9 DEF c

\* Yield goes back to the latest Resume.
LEMMA CYield ==
  ASSUME CInv, C!Yield
  PROVE CInv'
<1> DEFINE c == obj.current
<1>1. obj \in ContextState /\ ref \in ContextRef /\ Frames(obj, ref.yielded) /\ c # Main /\ obj.halt = "no"
  BY DEF CInv, C!Yield
<1>2. /\ obj' = [obj EXCEPT !.status[c] = "suspended", !.current = obj.recovery[c], !.live[c] = FALSE]
      /\ ref' = [callers |-> C!BelowTop(ref.callers), yielded |-> ref.yielded \cup {c}]
  BY DEF C!Yield
<1>3. /\ c \in Coroutines /\ C!BelowTop(ref.callers) \in Seq(Contexts)
      /\ \A st2 : (\A d \in Coroutines : st2[d] = IF d = c THEN "suspended" ELSE obj.status[d])
           => Stack(Append(C!BelowTop(ref.callers), obj.recovery[c]), st2, obj.recovery)
  BY Zenon, <1>1, CBack
<1> HIDE DEF c
<1>4. obj' \in ContextState
  BY Zenon, <1>1, <1>2, <1>3 DEF ContextState
<1>5. ref' \in ContextRef /\ ref'.yielded = ref.yielded \cup {c} /\ ref'.callers = C!BelowTop(ref.callers)
  BY <1>1, <1>2, <1>3 DEF ContextRef
<1>6. /\ obj'.current = obj.recovery[c] /\ obj'.recovery = obj.recovery /\ obj'.halt = obj.halt /\ obj'.done = obj.done
      /\ obj'.in = obj.in
      /\ \A d \in Coroutines : /\ obj'.status[d] = IF d = c THEN "suspended" ELSE obj.status[d]
                               /\ obj'.live[d] = IF d = c THEN FALSE ELSE obj.live[d]
  BY Zenon, <1>1, <1>2, <1>3 DEF ContextState
<1>7. Chain' = Append(C!BelowTop(ref.callers), obj.recovery[c])
  BY <1>5, <1>6 DEF Chain
<1>8. Stack(Chain', obj'.status, obj'.recovery)
  BY Zenon, <1>3, <1>6, <1>7
<1>9. Frames(obj', ref'.yielded)
  BY ZenonT(60), <1>1, <1>5, <1>6 DEF Frames
<1> QED
  BY <1>4, <1>5, <1>8, <1>9 DEF CInv

\* A routine that returns continues where its first Resume was called.
LEMMA CFinish ==
  ASSUME CInv, C!Finish
  PROVE CInv'
<1> DEFINE c == obj.current
<1>1. /\ obj \in ContextState /\ ref \in ContextRef /\ Frames(obj, ref.yielded) /\ c # Main /\ obj.halt = "no"
      /\ Stack(Chain, obj.status, obj.recovery)
  BY DEF CInv, C!Finish
<1>2. /\ c \in Coroutines /\ C!BelowTop(ref.callers) \in Seq(Contexts)
      /\ \A st2 : (\A d \in Coroutines : st2[d] = IF d = c THEN "dead" ELSE obj.status[d])
           => Stack(Append(C!BelowTop(ref.callers), obj.recovery[c]), st2, obj.recovery)
  BY Zenon, <1>1, CBack
<1>3. CASE /\ obj.live[c] \/ obj.done[c] = obj.recovery[c]
           /\ obj' = [obj EXCEPT !.status[c] = "dead", !.current = obj.done[c], !.live[c] = FALSE]
           /\ ref' = [ref EXCEPT !.callers = C!BelowTop(@)]
  <2>1. obj.done[c] = obj.recovery[c]
    BY <1>1, <1>2, <1>3 DEF Frames
  <2> HIDE DEF c
  <2>2. obj' \in ContextState
    BY Zenon, <1>1, <1>2, <1>3 DEF ContextState
  <2>3. ref' \in ContextRef /\ ref'.yielded = ref.yielded /\ ref'.callers = C!BelowTop(ref.callers)
    BY <1>1, <1>2, <1>3 DEF ContextRef
  <2>4. /\ obj'.current = obj.recovery[c] /\ obj'.recovery = obj.recovery /\ obj'.halt = obj.halt /\ obj'.done = obj.done
        /\ obj'.in = obj.in
        /\ \A d \in Coroutines : /\ obj'.status[d] = IF d = c THEN "dead" ELSE obj.status[d]
                                 /\ obj'.live[d] = IF d = c THEN FALSE ELSE obj.live[d]
    BY Zenon, <1>1, <1>2, <1>3, <2>1 DEF ContextState
  <2>5. Chain' = Append(C!BelowTop(ref.callers), obj.recovery[c])
    BY <2>3, <2>4 DEF Chain
  <2>6. Stack(Chain', obj'.status, obj'.recovery)
    BY Zenon, <1>2, <2>4, <2>5
  <2>7. Frames(obj', ref'.yielded)
    BY ZenonT(60), <1>1, <2>3, <2>4 DEF Frames
  <2> QED
    BY <2>2, <2>3, <2>6, <2>7 DEF CInv
<1>4. CASE ~obj.live[c] /\ obj' = [obj EXCEPT !.halt = "frame"] /\ ref' = ref
  <2>1. /\ obj' \in ContextState /\ obj'.current = obj.current /\ obj'.status = obj.status /\ obj'.recovery = obj.recovery
        /\ obj'.done = obj.done /\ obj'.live = obj.live /\ obj'.in = obj.in
    BY <1>1, <1>4 DEF ContextState
  <2>2. Chain' = Chain
    BY <1>4, <2>1 DEF Chain
  <2>3. obj.status[c] = "running"
    <3>1. ref.callers \in Seq(Contexts)
      BY <1>1 DEF ContextRef
    <3>2. Chain[Len(Chain)] = c /\ Len(Chain) \in 1 .. Len(Chain)
      BY <1>2, <3>1 DEF Chain
    <3> QED
      BY <1>1, <1>2, <3>2 DEF Stack, Running
  <2>4. c \in ref.yielded
    BY <1>1, <1>2, <1>4, <2>3 DEF Frames
  <2>5. Frames(obj', ref'.yielded)
    BY <1>1, <1>4, <2>1, <2>4 DEF Frames
  <2> QED
    BY <1>1, <1>4, <2>1, <2>2, <2>5 DEF CInv
<1> QED
  BY <1>3, <1>4 DEF C!Finish

\* Every switch of contexts keeps the invariant.
LEMMA CNext == CInv /\ [C!Next]_C!vars => CInv'
<1> SUFFICES ASSUME CInv, [C!Next]_C!vars PROVE CInv'
  OBVIOUS
<1>1. CASE UNCHANGED C!vars
  BY Zenon, <1>1 DEF CInv, C!vars, Chain
<1> QED
  BY <1>1, CResume, CYield, CFinish DEF C!Next
-----------------------------------------------------------------------------
(***************************************************************************)
(* Instances. A thread is making from the test that found nothing to the   *)
(* assignment of the pointer. While no two threads raced there is at most  *)
(* one, and the object, the pointer and pthread_once's flag follow its     *)
(* steps.                                                                  *)
(***************************************************************************)

IPC == {"idle", "make", "assign", "return", "done"}

ITyped ==
  /\ obj \in [way : Ways, once : {"init", "running", "done"}, instance : Nat, made : Nat,
              pc : [Threads -> IPC], result : [Threads -> Nat]]
  /\ ref \in [raced : BOOLEAN]

Making(t) == obj.pc[t] \in {"make", "assign"}

OneMaker ==
  /\ obj.made \in {0, 1} /\ obj.instance \in {0, 1}
  /\ \A t, u \in Threads : Making(t) /\ Making(u) => t = u
  /\ \A t \in Threads :
       /\ obj.pc[t] = "make" => obj.made = 0
       /\ obj.pc[t] = "assign" => obj.made = 1 /\ obj.result[t] = 1
       /\ Making(t) => obj.instance = 0
       /\ Making(t) /\ obj.way = "once" => obj.once = "running"
       /\ obj.pc[t] \in {"return", "done"} => obj.instance = 1
       /\ obj.pc[t] = "done" => obj.result[t] = 1
  /\ obj.instance = 1 => obj.made = 1
  /\ obj.made = 1 /\ obj.instance = 0 => \E t \in Threads : obj.pc[t] = "assign"
  /\ obj.way = "once" /\ obj.once = "init" => obj.made = 0 /\ obj.instance = 0
  /\ obj.way = "once" /\ obj.once = "done" => obj.instance = 1

IInv == ITyped /\ (~ref.raced => OneMaker)

\* No thread has called Instance.
LEMMA IInit == I!Init => IInv
BY DEF I!Init, IInv, ITyped, OneMaker, Making, IPC

\* The types are kept.
LEMMA ITypedNext == ITyped /\ [I!Next]_I!vars => ITyped'
<1> SUFFICES ASSUME ITyped, [I!Next]_I!vars PROVE ITyped'
  OBVIOUS
<1> USE DEF ITyped, IPC
<1>1. ASSUME NEW t \in Threads, I!PthreadOnce(t) PROVE ITyped'
  <2>1. CASE obj' = [obj EXCEPT !.once = "running", !.pc[t] = "make"]
    BY Zenon, <1>1, <2>1 DEF I!PthreadOnce
  <2>2. CASE obj' = [obj EXCEPT !.pc[t] = "return"]
    BY <1>1, <2>2 DEF I!PthreadOnce
  <2> QED
    BY <1>1, <2>1, <2>2 DEF I!PthreadOnce
<1>2. ASSUME NEW t \in Threads, I!Test(t) PROVE ITyped'
  <2>1. obj' \in [way : Ways, once : {"init", "running", "done"}, instance : Nat, made : Nat,
                  pc : [Threads -> IPC], result : [Threads -> Nat]]
    BY <1>2 DEF I!Test
  <2>2. ref' \in [raced : BOOLEAN]
    BY <1>2, Zenon DEF I!Test
  <2> QED
    BY <2>1, <2>2
<1>3. ASSUME NEW t \in Threads, I!New(t) PROVE ITyped'
  <2>1. obj.made + 1 \in Nat
    OBVIOUS
  <2>2. [obj.result EXCEPT ![t] = obj.made + 1] \in [Threads -> Nat] /\ [obj.pc EXCEPT ![t] = "assign"] \in [Threads -> IPC]
    BY <2>1
  <2>3. obj' = [way |-> obj.way, once |-> obj.once, instance |-> obj.instance, made |-> obj.made + 1,
                pc |-> [obj.pc EXCEPT ![t] = "assign"], result |-> [obj.result EXCEPT ![t] = obj.made + 1]]
    BY Zenon, <1>3 DEF I!New
  <2> QED
    BY <1>3, <2>1, <2>2, <2>3 DEF I!New
<1>4. ASSUME NEW t \in Threads, I!Assign(t) PROVE ITyped'
  BY Zenon, <1>4 DEF I!Assign
<1>5. ASSUME NEW t \in Threads, I!Return(t) PROVE ITyped'
  BY Zenon, <1>5 DEF I!Return
<1>6. ASSUME NEW t \in Threads, I!Again(t) PROVE ITyped'
  BY <1>6 DEF I!Again
<1>7. CASE UNCHANGED I!vars
  BY <1>7 DEF I!vars
<1> QED
  BY <1>1, <1>2, <1>3, <1>4, <1>5, <1>6, <1>7 DEF I!Next, I!Instance

\* Every step of a thread in Instance keeps the invariant.
LEMMA INext == IInv /\ [I!Next]_I!vars => IInv'
<1> SUFFICES ASSUME IInv, [I!Next]_I!vars, ~ref'.raced PROVE OneMaker'
  BY ITypedNext DEF IInv
<1> USE DEF IInv, ITyped, IPC
<1>0. ~ref.raced
  BY Zenon DEF I!Next, I!vars, I!Instance, I!PthreadOnce, I!Test, I!New, I!Assign, I!Return, I!Again
<1>1. OneMaker
  BY <1>0
<1>2. ASSUME NEW t \in Threads, I!PthreadOnce(t) PROVE OneMaker'
  <2>1. CASE obj.once = "init" /\ obj' = [obj EXCEPT !.once = "running", !.pc[t] = "make"]
    <3>1. \A u \in Threads : obj.pc[u] \notin {"make", "assign", "return", "done"}
      BY <1>1, <1>2, <2>1 DEF OneMaker, Making, I!PthreadOnce
    <3> QED
      BY <1>1, <1>2, <2>1, <3>1 DEF OneMaker, Making, I!PthreadOnce
  <2>2. CASE obj.once = "done" /\ obj' = [obj EXCEPT !.pc[t] = "return"]
    BY <1>1, <1>2, <2>2 DEF OneMaker, Making, I!PthreadOnce
  <2> QED
    BY <1>2, <2>1, <2>2 DEF I!PthreadOnce
<1>3. ASSUME NEW t \in Threads, I!Test(t) PROVE OneMaker'
  <2>1. CASE obj.instance = 0
    <3>1. ~\E u \in Threads : obj.pc[u] \in {"make", "assign"}
      BY <1>3, <2>1, Zenon DEF I!Test
    <3>2. obj' = [obj EXCEPT !.pc[t] = "make"]
      BY <1>3, <2>1 DEF I!Test
    <3> QED
      BY <1>1, <1>3, <2>1, <3>1, <3>2 DEF OneMaker, Making, I!Test
  <2>2. CASE obj.instance # 0
    <3>1. obj' = [obj EXCEPT !.pc[t] = "return"]
      BY <1>3, <2>2 DEF I!Test
    <3> QED
      BY <1>1, <2>2, <3>1 DEF OneMaker, Making
  <2> QED
    BY <2>1, <2>2
<1>4. ASSUME NEW t \in Threads, I!New(t) PROVE OneMaker'
  BY <1>1, <1>4 DEF OneMaker, Making, I!New
<1>5. ASSUME NEW t \in Threads, I!Assign(t) PROVE OneMaker'
  BY <1>1, <1>5 DEF OneMaker, Making, I!Assign
<1>6. ASSUME NEW t \in Threads, I!Return(t) PROVE OneMaker'
  BY <1>1, <1>6 DEF OneMaker, Making, I!Return
<1>7. ASSUME NEW t \in Threads, I!Again(t) PROVE OneMaker'
  BY <1>1, <1>7 DEF OneMaker, Making, I!Again
<1>8. CASE UNCHANGED I!vars
  BY <1>1, <1>8 DEF OneMaker, Making, I!vars
<1> QED
  BY Zenon, <1>2, <1>3, <1>4, <1>5, <1>6, <1>7, <1>8 DEF I!Next, I!Instance

-----------------------------------------------------------------------------
(***************************************************************************)
(* All of them: a step leaves kind alone and is a step of that program.    *)
(***************************************************************************)

CallbacksInv ==
  /\ kind = "EventLoop" => EInv
  /\ kind = "Processors" => PInv
  /\ kind = "Coroutine" => CInv
  /\ kind = "Instances" => IInv

\* The four programs begin in their invariants.
LEMMA InitInv == CallbacksInit => CallbacksInv
BY EInit, PInit, CInit, IInit DEF CallbacksInit, CallbacksInv

\* A step of one program keeps its invariant.
LEMMA NextInv == CallbacksInv /\ [CallbacksNext]_vars => CallbacksInv'
<1> SUFFICES ASSUME CallbacksInv, [CallbacksNext]_vars PROVE CallbacksInv'
  OBVIOUS
<1>1. kind' = kind
  BY DEF CallbacksNext, vars
<1>2. /\ kind = "EventLoop" => [E!Next]_E!vars
      /\ kind = "Processors" => [P!Next]_P!vars
      /\ kind = "Coroutine" => [C!Next]_C!vars
      /\ kind = "Instances" => [I!Next]_I!vars
  BY DEF CallbacksNext, vars, E!vars, P!vars, C!vars, I!vars
<1>3. /\ kind = "EventLoop" => EInv
      /\ kind = "Processors" => PInv
      /\ kind = "Coroutine" => CInv
      /\ kind = "Instances" => IInv
  BY DEF CallbacksInv
<1>4. kind = "EventLoop" => EInv'
  BY <1>2, <1>3, ENext
<1>5. kind = "Processors" => PInv'
  BY <1>2, <1>3, PNext
<1>6. kind = "Coroutine" => CInv'
  BY <1>2, <1>3, CNext
<1>7. kind = "Instances" => IInv'
  BY <1>2, <1>3, INext
<1> QED
  BY <1>1, <1>4, <1>5, <1>6, <1>7 DEF CallbacksInv

\* The invariants hold in every reachable state.
LEMMA CallbacksInvAlways == CallbacksSpec => []CallbacksInv
BY InitInv, NextInv, PTL DEF CallbacksSpec

\* Whatever callbacks, signals and resumptions do, and however many servers, libraries and
\* coroutines there are: nothing that is gone is used but in the cases stated, no datagram
\* and no request is lost from the books, and control between coroutines is a stack.
THEOREM CallbacksSafeAlways == CallbacksSpec => []CallbacksSafe
<1>1. CallbacksInv => CallbacksSafe
  BY Zenon, EInvAgrees, PInvAgrees, CInvAgrees DEF CallbacksInv, CallbacksSafe
<1> QED
  BY <1>1, CallbacksInvAlways, PTL

\* Every call of Instance gives the same object, which is made once, for any number of threads
\* and either way of making it; with Logger::Instance, unless two threads raced.
THEOREM OneInstanceAlways == CallbacksSpec => []OneInstance
<1>1. CallbacksInv => OneInstance
  BY DEF CallbacksInv, IInv, OneMaker, OneInstance, I!OneInstance
<1> QED
  BY <1>1, CallbacksInvAlways, PTL
=============================================================================

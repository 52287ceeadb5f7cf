------------------------- MODULE AsyncLoggerProofs --------------------------
(***************************************************************************)
(* The safety properties of the asynchronous logger, for every number of   *)
(* buffers, every buffer size and every length of messages.                *)
(*                                                                         *)
(* The argument is about one sequence, Chain: the buffers that the log     *)
(* thread holds, then the full ones, then current_.  A step of the writers *)
(* extends its last buffer or appends one to it; a step of the log thread  *)
(* moves the boundary between its first parts, advances out, or drops the  *)
(* buffers before out.  Messages are consecutive along the chain from      *)
(* position out + 1, and every buffer outside it is empty.                 *)
(***************************************************************************)
EXTENDS AsyncLogger, FiniteSetTheorems, TLAPS

\* The time a leaf may take, which on a slow machine is more than the five seconds of the default.
USE SMTT(60)

Chain == Append(buffers_to_write \o buffers_, current_)

(* Where the log thread is, and what it holds there. *)
Phases ==
  /\ pc # "write" => buffers_to_write = <<>>
  /\ pc \notin {"write", "flushing", "done"} => out = 0
  /\ pc = "write" => out <= Len(buffers_to_write)
  /\ pc = "write" /\ tmp1 = NULL => buffers_to_write # <<>>
  /\ pc # "write" => tmp1 # NULL
  /\ next_ = NULL => buffers_ # <<>>
  /\ pc \in {"flush", "flushing", "done"} => main \in {"join", "joined"}
  /\ main \in {"run", "join", "joined"} => output_
  /\ main \in {"start", "started", "run"} => running_
  /\ main = "start" => pc = "off"
  /\ main \in {"start", "started"} => pc # "write" /\ buffers_ = <<>> /\ used[current_] = 0
  /\ pc # "aborted"

(* Every buffer has one role, and those outside the chain are empty. *)
Roles ==
  /\ \A i, j \in 1 .. Len(Chain) : i # j => Chain[i] # Chain[j]
  /\ \A i \in 1 .. Len(Chain) : Chain[i] # next_ /\ Chain[i] # tmp1
  /\ next_ = tmp1 => next_ = NULL
  /\ \A b \in Buffers :
       (\A i \in 1 .. Len(Chain) : Chain[i] # b) => used[b] = 0 /\ contents[b] = <<>>

(* No more buffers than messages: a full buffer has one. *)
Counts ==
  /\ Len(Chain) <= written + 1 /\ written <= MaxWritten
  /\ \A b \in Buffers : used[b] > 0 => contents[b] # <<>>

Before(i) == IF i = out + 1 THEN Len(emitted) ELSE Last(contents[Chain[i - 1]], 0)

(* Messages are consecutive, in emitted and along the chain. *)
Consecutive ==
  /\ \A i \in 1 .. Len(emitted) : emitted[i] = i
  /\ pc # "done" =>
       /\ \A i \in out + 1 .. Len(Chain) :
            /\ \A j \in 1 .. Len(contents[Chain[i]]) : contents[Chain[i]][j] = Before(i) + j
            /\ i < Len(Chain) => contents[Chain[i]] # <<>>
            /\ i = Len(Chain) => Before(i) + Len(contents[Chain[i]]) = written
       /\ out >= Len(Chain) => Len(emitted) = written
  /\ main \in {"join", "joined"} => stopAt <= written
  /\ pc = "done" => Len(emitted) >= stopAt
  /\ main = "joined" => pc = "done"

IInv == TypeOK /\ Phases /\ Roles /\ Counts /\ Consecutive

-----------------------------------------------------------------------------
\* What Append makes of a sequence.
LEMMA AppendFacts ==
  ASSUME NEW S, NEW s \in Seq(S), NEW x \in S
  PROVE  /\ Append(s, x) \in Seq(S) /\ Len(Append(s, x)) = Len(s) + 1
         /\ Append(s, x)[Len(s) + 1] = x
         /\ \A i \in 1 .. Len(s) : Append(s, x)[i] = s[i]
OBVIOUS

\* Concatenating one element is appending it.
LEMMA ConcatOne ==
  ASSUME NEW S, NEW s \in Seq(S), NEW x \in S
  PROVE  s \o <<x>> = Append(s, x)
OBVIOUS

\* The empty sequence is neutral for concatenation.
LEMMA ConcatEmpty ==
  ASSUME NEW S, NEW s \in Seq(S)
  PROVE  s \o <<>> = s /\ <<>> \o s = s
OBVIOUS

\* Length and elements of a concatenation.
LEMMA ConcatFacts ==
  ASSUME NEW S, NEW s \in Seq(S), NEW t \in Seq(S)
  PROVE  /\ s \o t \in Seq(S) /\ Len(s \o t) = Len(s) + Len(t)
         /\ \A i \in 1 .. Len(s) : (s \o t)[i] = s[i]
         /\ \A i \in 1 .. Len(t) : (s \o t)[Len(s) + i] = t[i]
OBVIOUS

\* Append to the second part of a concatenation is Append to the whole.
LEMMA ConcatAppend ==
  ASSUME NEW S, NEW s \in Seq(S), NEW t \in Seq(S), NEW x \in S
  PROVE  s \o Append(t, x) = Append(s \o t, x)
OBVIOUS

\* Length and elements of a suffix, which is what is left after the first k.
LEMMA SuffixFacts ==
  ASSUME NEW S, NEW s \in Seq(S), NEW k \in Nat, k <= Len(s)
  PROVE  /\ SubSeq(s, k + 1, Len(s)) \in Seq(S) /\ Len(SubSeq(s, k + 1, Len(s))) = Len(s) - k
         /\ \A i \in 1 .. Len(s) - k : SubSeq(s, k + 1, Len(s))[i] = s[k + i]
OBVIOUS

\* The number of the last message of a sequence, or 0, is a natural number.
LEMMA LastNat ==
  ASSUME NEW s \in Seq(Nat)
  PROVE  Last(s, 0) \in Nat
<1>1. s # <<>> => Len(s) \in 1 .. Len(s)
  OBVIOUS
<1> QED
  BY <1>1 DEF Last

\* The chain is buffers_to_write, then buffers_, then current_.
LEMMA ChainType ==
  ASSUME TypeOK
  PROVE  /\ Chain \in Seq(Buffers) /\ Len(Chain) = Len(buffers_to_write) + Len(buffers_) + 1
         /\ \A i \in 1 .. Len(buffers_to_write) : Chain[i] = buffers_to_write[i]
         /\ \A i \in 1 .. Len(buffers_) : Chain[Len(buffers_to_write) + i] = buffers_[i]
         /\ Chain[Len(Chain)] = current_
<1>1. buffers_to_write \in Seq(Buffers) /\ buffers_ \in Seq(Buffers) /\ current_ \in Buffers
  BY DEF TypeOK
<1> DEFINE s == buffers_to_write \o buffers_
<1>2. /\ s \in Seq(Buffers) /\ Len(s) = Len(buffers_to_write) + Len(buffers_)
      /\ \A i \in 1 .. Len(buffers_to_write) : s[i] = buffers_to_write[i]
      /\ \A i \in 1 .. Len(buffers_) : s[Len(buffers_to_write) + i] = buffers_[i]
  BY <1>1
<1>3. Chain = Append(s, current_)
  BY DEF Chain
<1> HIDE DEF s
<1>4. /\ Chain \in Seq(Buffers) /\ Len(Chain) = Len(s) + 1 /\ Chain[Len(s) + 1] = current_
      /\ \A i \in 1 .. Len(s) : Chain[i] = s[i]
  BY <1>1, <1>2, <1>3, AppendFacts
<1> QED
  BY <1>1, <1>2, <1>4

\* The state that the constructor leaves.
LEMMA InitIInv == Init => IInv
<1> SUFFICES ASSUME Init PROVE IInv
  OBVIOUS
<1>1. TypeOK
  <2>1. contents \in [Buffers -> Seq(Nat)] /\ used \in [Buffers -> 0 .. kBufferSize]
    BY BufferSizeAssumption DEF Init
  <2>2. current_ \in Buffers /\ next_ \in Buffers /\ tmp1 \in Buffers
    BY BuffersAssumption DEF Init
  <2>3. buffers_ \in Seq(Buffers) /\ buffers_to_write \in Seq(Buffers) /\ emitted \in Seq(Nat)
    BY DEF Init
  <2> QED
    BY Zenon, <2>1, <2>2, <2>3 DEF Init, TypeOK
<1>2. Chain = <<b1>>
  BY BuffersAssumption DEF Init, Chain
<1>3. Phases
  BY BuffersAssumption, NULLAssumption DEF Init, Phases
<1>4. Roles
  BY <1>2, BuffersAssumption, NULLAssumption DEF Init, Roles
<1>5. Counts
  BY <1>2, BuffersAssumption DEF Init, Counts
<1>6. Consecutive
  BY <1>2, BuffersAssumption DEF Init, Consecutive, Before
<1> QED
  BY <1>1, <1>3, <1>4, <1>5, <1>6 DEF IInv

(* Write always finds a buffer to allocate. *)
LEMMA FreshBuffer ==
  ASSUME IInv, written < MaxWritten
  PROVE  NewBuffer \in Buffers /\ NewBuffer \notin InUse
<1> DEFINE n == Len(Chain)
           S == Elements(Chain)
           U == (S \cup {next_}) \cup {tmp1}
<1>0. TypeOK
  BY DEF IInv
<1>1. Chain \in Seq(Buffers) /\ n \in Nat /\ n <= MaxWritten
  <2>1. Chain \in Seq(Buffers)
    BY <1>0, ChainType
  <2>2. written \in Nat
    BY <1>0 DEF TypeOK
  <2> QED
    BY <2>1, <2>2, BuffersAssumption DEF IInv, Counts
<1>2. IsFiniteSet(S) /\ Cardinality(S) <= n
  <2> DEFINE f == [i \in 1 .. n |-> Chain[i]]
  <2>1. f \in Surjection(1 .. n, S)
    BY <1>1 DEF Surjection, Elements
  <2> HIDE DEF f, S, n
  <2>2. IsFiniteSet(1 .. n) /\ Cardinality(1 .. n) = n
    <3>1. n \in Nat
      BY <1>1
    <3> QED
      BY <3>1, FS_Interval
  <2> QED
    BY <2>1, <2>2, FS_Surjection
<1>3. IsFiniteSet(U) /\ Cardinality(U) <= n + 2
  <2> HIDE DEF S, n
  <2> DEFINE T == S \cup {next_}
  <2>1. IsFiniteSet(T) /\ (Cardinality(T) = Cardinality(S) \/ Cardinality(T) = Cardinality(S) + 1)
    BY <1>2, FS_AddElement
  <2>2. Cardinality(S) \in Nat
    BY <1>2, FS_CardinalityType
  <2> HIDE DEF T
  <2>3. /\ IsFiniteSet(T \cup {tmp1})
        /\ Cardinality(T \cup {tmp1}) = Cardinality(T) \/ Cardinality(T \cup {tmp1}) = Cardinality(T) + 1
    BY <2>1, FS_AddElement
  <2>4. Cardinality(T \cup {tmp1}) <= n + 2
    BY <1>1, <1>2, <2>1, <2>2, <2>3
  <2> QED
    BY <2>3, <2>4 DEF T
<1>4. InUse \subseteq U
  <2>1. Elements(buffers_) \subseteq S /\ Elements(buffers_to_write) \subseteq S /\ current_ \in S
    <3>1. buffers_to_write \in Seq(Buffers) /\ buffers_ \in Seq(Buffers)
      BY <1>0 DEF TypeOK
    <3>2. /\ Len(Chain) = Len(buffers_to_write) + Len(buffers_) + 1
          /\ \A i \in 1 .. Len(buffers_to_write) : Chain[i] = buffers_to_write[i]
          /\ \A i \in 1 .. Len(buffers_) : Chain[Len(buffers_to_write) + i] = buffers_[i]
          /\ Chain[Len(Chain)] = current_
      BY <1>0, ChainType
    <3>3. \A i \in 1 .. Len(buffers_) : Len(buffers_to_write) + i \in 1 .. Len(Chain)
      BY <3>1, <3>2
    <3>4. Elements(buffers_) \subseteq S
      BY <3>2, <3>3 DEF Elements
    <3>5. Elements(buffers_to_write) \subseteq S /\ current_ \in S
      BY <3>1, <3>2 DEF Elements
    <3> QED
      BY <3>4, <3>5
  <2> HIDE DEF S
  <2> QED
    BY <2>1 DEF InUse
<1>5. \E b \in Buffers : b \notin U
  <2> SUFFICES ASSUME Buffers \subseteq U PROVE FALSE
    OBVIOUS
  <2>1. Cardinality(Buffers) <= Cardinality(U)
    BY <1>3, FS_Subset
  <2> HIDE DEF U, n
  <2> QED
    BY <1>1, <1>3, <2>1, BuffersAssumption, FS_CardinalityType
<1> QED
  BY <1>4, <1>5 DEF NewBuffer

(* The steps that move no buffer and no message. *)
LEMMA QuietSteps ==
  ASSUME IInv, InitLogger \/ SetOutput \/ FlushStop \/ Join \/ Loop \/ LockFlush
  PROVE  IInv'
<1>0. TypeOK /\ Phases /\ Roles /\ Counts /\ Consecutive
  BY DEF IInv
<1>1. /\ UNCHANGED <<current_, next_, buffers_, contents, used, tmp1, buffers_to_write, out, written, emitted>>
  BY DEF InitLogger, SetOutput, FlushStop, Join, Loop, LockFlush, members, logVars
<1>2. Chain' = Chain
  BY <1>1 DEF Chain
<1>3. TypeOK'
  <2>1. running_' \in BOOLEAN /\ output_' \in BOOLEAN
    BY Zenon, <1>0 DEF TypeOK, InitLogger, SetOutput, FlushStop, Join, Loop, LockFlush
  <2>2. /\ pc' \in {"off", "loop", "lock", "write", "flush", "flushing", "done", "aborted"}
        /\ main' \in {"start", "started", "run", "join", "joined"}
    BY Zenon, <1>0 DEF TypeOK, InitLogger, SetOutput, FlushStop, Join, Loop, LockFlush, logVars
  <2>3. stopAt' \in Nat
    BY <1>0 DEF TypeOK, InitLogger, SetOutput, FlushStop, Join, Loop, LockFlush
  <2> QED
    BY Zenon, <1>0, <1>1, <2>1, <2>2, <2>3 DEF TypeOK
<1>4. Phases'
  BY ZenonT(60), <1>0, <1>1 DEF Phases, TypeOK, InitLogger, SetOutput, FlushStop, Join, Loop, LockFlush, members, logVars
<1>5. Roles'
  BY <1>0, <1>1, <1>2 DEF Roles
<1>6. Counts'
  BY <1>0, <1>1, <1>2 DEF Counts
<1>7. Consecutive'
  <2>1. \A i : Before(i)' = Before(i)
    BY <1>1, <1>2 DEF Before, Last
  <2>2. (pc' = "done" <=> pc = "done") /\ written \in Nat
    BY <1>0 DEF TypeOK, Phases, InitLogger, SetOutput, FlushStop, Join, Loop, LockFlush, logVars
  <2>3. main' \in {"join", "joined"} => stopAt' <= written
    BY <1>0, <2>2 DEF Consecutive, InitLogger, SetOutput, FlushStop, Join, Loop, LockFlush
  <2>4. pc' = "done" => Len(emitted) >= stopAt'
    BY <1>0, <2>2 DEF Phases, Consecutive, InitLogger, SetOutput, FlushStop, Join, Loop, LockFlush
  <2>5. main' = "joined" => pc' = "done"
    BY <1>0, <2>2 DEF Consecutive, InitLogger, SetOutput, FlushStop, Join, Loop, LockFlush
  <2> QED
    BY <1>0, <1>1, <1>2, <2>1, <2>2, <2>3, <2>4, <2>5 DEF Consecutive
<1> QED
  BY <1>3, <1>4, <1>5, <1>6, <1>7 DEF IInv

(* The log thread takes the full buffers: the chain stays. *)
LEMMA TakeStep ==
  ASSUME IInv, Take
  PROVE  IInv'
<1>0. TypeOK /\ Phases /\ Roles /\ Counts /\ Consecutive
  BY DEF IInv
<1>1. buffers_to_write = <<>> /\ out = 0 /\ out' = 0 /\ tmp1 # NULL
  BY <1>0 DEF Phases, Take
<1>2. Chain' = Chain
  BY <1>0, <1>1 DEF Chain, Take, TypeOK
<1>3. TypeOK'
  BY <1>0 DEF TypeOK, Take
<1>4. Phases'
  BY <1>0, <1>1 DEF Phases, Take, TypeOK, NothingLogged
<1>5. Roles'
  BY <1>0, <1>1, <1>2 DEF Roles, Take
<1>6. Counts'
  BY <1>0, <1>1, <1>2 DEF Counts, Take
<1>7. Consecutive'
  <2>1. \A i : Before(i)' = Before(i)
    BY <1>1, <1>2 DEF Before, Last, Take
  <2> QED
    BY <1>0, <1>1, <1>2, <2>1 DEF Consecutive, Take
<1> QED
  BY <1>3, <1>4, <1>5, <1>6, <1>7 DEF IInv

(* The first pending buffer continues emitted where it ends. *)
LEMMA EmitNext ==
  ASSUME TypeOK, Consecutive, pc # "done", out < Len(Chain),
         emitted' = emitted \o contents[Chain[out + 1]], out' = out + 1,
         Chain' = Chain, contents' = contents
  PROVE  /\ emitted' \in Seq(Nat)
         /\ Len(emitted') = Len(emitted) + Len(contents[Chain[out + 1]])
         /\ \A i \in 1 .. Len(emitted') : emitted'[i] = i
         /\ out + 1 < Len(Chain) => Len(emitted') = Last(contents[Chain[out + 1]], 0)
         /\ out + 1 = Len(Chain) => Len(emitted') = written
         /\ \A i \in out' + 1 .. Len(Chain) : Before(i)' = Before(i)
<1> DEFINE c == contents[Chain[out + 1]]
<1>1. Chain \in Seq(Buffers) /\ out \in Nat /\ emitted \in Seq(Nat) /\ Len(Chain) \in Nat
  BY ChainType DEF TypeOK
<1>2. Chain[out + 1] \in Buffers
  BY <1>1
<1>3. c \in Seq(Nat)
  BY <1>2 DEF TypeOK
<1>4. out + 1 \in out + 1 .. Len(Chain) /\ Before(out + 1) = Len(emitted)
  BY <1>1 DEF Before
<1>5. /\ \A j \in 1 .. Len(c) : c[j] = Len(emitted) + j
      /\ out + 1 < Len(Chain) => c # <<>>
      /\ out + 1 = Len(Chain) => Len(emitted) + Len(c) = written
  BY Zenon, <1>4 DEF Consecutive
<1> HIDE DEF c
<1>6. emitted' = emitted \o c
  BY DEF c
<1>7. emitted' \in Seq(Nat) /\ Len(emitted') = Len(emitted) + Len(c)
  BY <1>1, <1>3, <1>6
<1>8. \A i \in 1 .. Len(emitted') : emitted'[i] = i
  <2> TAKE i \in 1 .. Len(emitted')
  <2>1. CASE i <= Len(emitted)
    BY <1>1, <1>3, <1>6, <1>7, <2>1 DEF Consecutive
  <2>2. CASE i > Len(emitted)
    <3>1. i - Len(emitted) \in 1 .. Len(c) /\ emitted'[i] = c[i - Len(emitted)]
      BY <1>1, <1>3, <1>6, <1>7, <2>2
    <3> QED
      BY <1>1, <1>5, <3>1
  <2> QED
    BY <1>1, <1>7, <2>1, <2>2
<1>9. out + 1 < Len(Chain) => Len(emitted') = Last(c, 0)
  <2> SUFFICES ASSUME out + 1 < Len(Chain) PROVE Len(emitted') = c[Len(c)] /\ c # <<>>
    BY DEF Last
  <2>1. Len(c) \in 1 .. Len(c) /\ c # <<>>
    BY <1>3, <1>5
  <2> QED
    BY <1>1, <1>5, <1>7, <2>1
<1>10. \A i \in out' + 1 .. Len(Chain) : Before(i)' = Before(i)
  <2> TAKE i \in out' + 1 .. Len(Chain)
  <2>1. i # out + 1 /\ i - 1 = IF i = out' + 1 THEN out + 1 ELSE i - 1
    BY <1>1
  <2>2. CASE i = out' + 1
    <3>1. Before(i)' = Len(emitted') /\ out + 1 < Len(Chain) /\ i - 1 = out + 1
      BY <1>1, <2>2 DEF Before
    <3>2. Before(i) = Last(contents[Chain[out + 1]], 0)
      BY <2>1, <3>1 DEF Before
    <3> QED
      BY <1>9, <3>1, <3>2 DEF c
  <2>3. CASE i # out' + 1
    BY <2>1, <2>3 DEF Before, Last
  <2> QED
    BY <2>2, <2>3
<1> QED
  BY <1>5, <1>7, <1>8, <1>9, <1>10 DEF c

\* Output writes the next of the buffers to write to the file.
LEMMA OutputStep ==
  ASSUME IInv, Output
  PROVE  IInv'
<1>0. TypeOK /\ Phases /\ Roles /\ Counts /\ Consecutive
  BY DEF IInv
<1>1. output_
  BY <1>0 DEF Phases, Output, TypeOK
<1>2. Chain' = Chain /\ contents' = contents /\ used' = used /\ written' = written /\ out' = out + 1
  BY DEF Chain, Output, members
<1>3. out < Len(Chain) /\ emitted' = emitted \o contents[Chain[out + 1]] /\ pc # "done" /\ pc' # "done"
  <2>1. buffers_to_write \in Seq(Buffers) /\ buffers_ \in Seq(Buffers) /\ out \in Nat
    BY <1>0 DEF TypeOK
  <2>2. out + 1 \in 1 .. Len(buffers_to_write)
    BY <2>1 DEF Output
  <2>3. Chain[out + 1] = buffers_to_write[out + 1] /\ Len(Chain) = Len(buffers_to_write) + Len(buffers_) + 1
    BY <1>0, <2>2, ChainType
  <2>4. out < Len(Chain)
    BY <2>1, <2>2, <2>3
  <2> QED
    BY Zenon, <1>1, <2>3, <2>4 DEF Output
<1>4. /\ emitted' \in Seq(Nat)
      /\ \A i \in 1 .. Len(emitted') : emitted'[i] = i
      /\ out + 1 = Len(Chain) => Len(emitted') = written
      /\ \A i \in out' + 1 .. Len(Chain) : Before(i)' = Before(i)
  BY <1>0, <1>2, <1>3, EmitNext
<1>5. TypeOK'
  <2>1. out' \in Nat
    BY <1>0, <1>2 DEF TypeOK
  <2> QED
    BY Zenon, <1>0, <1>4, <2>1 DEF TypeOK, Output, members
<1>6. Phases'
  BY <1>0 DEF Phases, Output, members, TypeOK
<1>7. Roles'
  BY <1>0, <1>2 DEF Roles, Output, members
<1>8. Counts'
  BY <1>0, <1>2 DEF Counts
<1>9. Consecutive'
  <2>1. Len(Chain) \in Nat /\ out \in Nat
    BY <1>0, ChainType DEF TypeOK
  <2>2. \A i \in out' + 1 .. Len(Chain) : i \in out + 1 .. Len(Chain)
    BY <1>2, <2>1
  <2>3. main' = main /\ stopAt' = stopAt /\ pc' = pc
    BY DEF Output
  <2>4. out' >= Len(Chain) => Len(emitted') = written
    BY <1>2, <1>3, <1>4, <2>1
  <2> QED
    BY <1>0, <1>2, <1>3, <1>4, <2>2, <2>3, <2>4 DEF Consecutive
<1> QED
  BY <1>5, <1>6, <1>7, <1>8, <1>9 DEF IInv

(* The flush walks down the chain and then to next_, which is empty. *)
LEMMA FinalOutputStep ==
  ASSUME IInv, FinalOutput
  PROVE  IInv'
<1>0. TypeOK /\ Phases /\ Roles /\ Counts /\ Consecutive
  BY DEF IInv
<1>1. /\ output_ /\ buffers_to_write = <<>> /\ main \in {"join", "joined"} /\ pc = "flushing"
      /\ Chain' = Chain /\ contents' = contents /\ used' = used /\ written' = written
      /\ UNCHANGED <<current_, next_, buffers_, running_, output_, tmp1, buffers_to_write, main, stopAt>>
  BY <1>0 DEF Phases, FinalOutput, Chain, members
<1>2. /\ Chain \in Seq(Buffers) /\ Len(Chain) = Len(buffers_) + 1 /\ out \in Nat /\ Len(Chain) \in Nat
      /\ buffers_ \in Seq(Buffers) /\ current_ \in Buffers /\ emitted \in Seq(Nat) /\ written \in Nat
      /\ Chain[Len(Chain)] = current_ /\ \A i \in 1 .. Len(buffers_) : Chain[i] = buffers_[i]
  <2>1. Len(buffers_to_write) = 0
    BY <1>1
  <2>2. buffers_ \in Seq(Buffers) /\ current_ \in Buffers /\ emitted \in Seq(Nat) /\ out \in Nat /\ written \in Nat
    BY <1>0 DEF TypeOK
  <2>3. \A i \in 1 .. Len(buffers_) : Chain[0 + i] = buffers_[i]
    BY <1>0, <2>1, ChainType
  <2> QED
    BY <1>0, <2>1, <2>2, <2>3, ChainType
<1>3. /\ Len(FlushList) = Len(Chain) + (IF next_ # NULL THEN 1 ELSE 0)
      /\ \A i \in 1 .. Len(Chain) : FlushList[i] = Chain[i]
      /\ next_ # NULL => FlushList[Len(Chain) + 1] = next_
  <2>1. Chain = buffers_ \o <<current_>>
    BY <1>1, <1>2, ConcatOne, ConcatEmpty DEF Chain
  <2>2. CASE next_ = NULL
    <3>1. FlushList = Chain
      BY <1>2, <2>1, <2>2, ConcatEmpty DEF FlushList
    <3> QED
      BY <1>2, <2>2, <3>1
  <2>3. CASE next_ # NULL
    <3>1. next_ \in Buffers
      BY <1>0, <2>3 DEF TypeOK
    <3>2. FlushList = Append(Chain, next_)
      BY <1>2, <2>1, <2>3, <3>1, ConcatOne DEF FlushList
    <3> QED
      BY <1>2, <2>3, <3>1, <3>2, AppendFacts
  <2> QED
    BY <2>2, <2>3
<1>4. Roles' /\ Counts'
  BY <1>0, <1>1 DEF Roles, Counts
<1>5. CASE out = Len(FlushList) /\ pc' = "done" /\ UNCHANGED <<out, emitted>>
  <2>1. TypeOK'
    BY <1>0, <1>1, <1>5 DEF TypeOK
  <2>2. Phases'
    BY <1>0, <1>1, <1>5 DEF Phases
  <2>3. Consecutive'
    <3>1. Len(emitted) = written
      BY <1>0, <1>1, <1>2, <1>3, <1>5 DEF Consecutive
    <3> QED
      BY Zenon, <1>0, <1>1, <1>2, <1>5, <3>1 DEF Consecutive
  <2> QED
    BY <1>4, <2>1, <2>2, <2>3 DEF IInv
<1>6. CASE /\ out < Len(FlushList) /\ out' = out + 1 /\ pc' = pc
           /\ emitted' = emitted \o contents[FlushList[out + 1]]
  <2>1. Phases'
    BY <1>0, <1>1, <1>6 DEF Phases
  <2>2. CASE out < Len(Chain)
    <3>1. out + 1 \in 1 .. Len(Chain)
      BY <1>2, <2>2
    <3>2. emitted' = emitted \o contents[Chain[out + 1]]
      BY Zenon, <1>3, <1>6, <3>1
    <3>3. /\ emitted' \in Seq(Nat)
          /\ \A i \in 1 .. Len(emitted') : emitted'[i] = i
          /\ out + 1 = Len(Chain) => Len(emitted') = written
          /\ \A i \in out' + 1 .. Len(Chain) : Before(i)' = Before(i)
      BY Zenon, <1>0, <1>1, <1>6, <2>2, <3>2, EmitNext
    <3>4. TypeOK'
      <4>1. out' \in Nat
        BY <1>2, <1>6
      <4> QED
        BY Zenon, <1>0, <1>1, <1>6, <3>3, <4>1 DEF TypeOK
    <3>5. Consecutive'
      <4>1. \A i \in out' + 1 .. Len(Chain) : i \in out + 1 .. Len(Chain)
        BY <1>2, <1>6
      <4>2. out' >= Len(Chain) => Len(emitted') = written
        BY <1>2, <1>6, <2>2, <3>3
      <4> QED
        BY <1>0, <1>1, <1>6, <3>3, <4>1, <4>2 DEF Consecutive
    <3> QED
      BY <1>4, <2>1, <3>4, <3>5 DEF IInv
  <2>3. CASE out >= Len(Chain)
    <3>1. out = Len(Chain) /\ next_ # NULL /\ FlushList[out + 1] = next_
      BY <1>2, <1>3, <1>6, <2>3
    <3>2. next_ \in Buffers /\ \A i \in 1 .. Len(Chain) : Chain[i] # next_
      BY Zenon, <1>0, <3>1 DEF TypeOK, Roles
    <3>3. contents[next_] = <<>>
      BY <1>0, <3>2 DEF Roles
    <3>4. emitted' = emitted
      BY <1>2, <1>6, <3>1, <3>3, ConcatEmpty
    <3>5. Len(emitted) = written
      BY <1>0, <1>1, <2>3 DEF Consecutive
    <3>6. TypeOK'
      BY <1>0, <1>1, <1>6, <3>4 DEF TypeOK
    <3>7. Consecutive'
      <4>1. \A i : i \notin out' + 1 .. Len(Chain)
        BY <1>2, <1>6, <3>1
      <4> QED
        BY <1>0, <1>1, <1>6, <3>4, <3>5, <4>1 DEF Consecutive
    <3> QED
      BY <1>4, <2>1, <3>6, <3>7 DEF IInv
  <2> QED
    BY <1>2, <2>2, <2>3
<1> QED
  BY <1>1, <1>5, <1>6 DEF FinalOutput

(* The log thread drops the buffers it has output from the chain, cleared. *)
LEMMA RecycleStep ==
  ASSUME IInv, Recycle
  PROVE  IInv'
<1> DEFINE n == Len(buffers_to_write)
           W == Elements(buffers_to_write)
<1>0. TypeOK /\ Phases /\ Roles /\ Counts /\ Consecutive
  BY DEF IInv
<1>1. /\ buffers_to_write \in Seq(Buffers) /\ buffers_ \in Seq(Buffers) /\ current_ \in Buffers /\ out \in Nat
      /\ n \in Nat /\ out = n /\ out' = 0 /\ pc = "write" /\ pc' = "loop" /\ buffers_to_write' = <<>>
      /\ UNCHANGED <<current_, next_, buffers_, running_, output_, main, written, emitted, stopAt>>
  BY <1>0 DEF TypeOK, Recycle, members
<1>2. /\ Chain \in Seq(Buffers) /\ Len(Chain) = n + Len(buffers_) + 1
      /\ \A i \in 1 .. n : Chain[i] = buffers_to_write[i]
      /\ \A i \in 1 .. Len(buffers_) : Chain[n + i] = buffers_[i]
      /\ Chain[Len(Chain)] = current_
  BY <1>0, ChainType
<1>3. Chain' = Append(buffers_, current_)
  BY <1>1, ConcatEmpty DEF Chain
<1>4. /\ Chain' \in Seq(Buffers) /\ Len(Chain') = Len(buffers_) + 1
      /\ Chain'[Len(buffers_) + 1] = current_
      /\ \A i \in 1 .. Len(buffers_) : Chain'[i] = buffers_[i]
  BY <1>1, <1>3, AppendFacts
<1> HIDE DEF n
<1> DEFINE m == Len(buffers_)
<1>a. m \in Nat /\ Len(Chain) = n + m + 1 /\ Len(Chain') = m + 1
  BY <1>1, <1>2, <1>4
<1>5. \A i \in 1 .. Len(Chain') : n + i \in 1 .. Len(Chain) /\ Chain'[i] = Chain[n + i]
  <2> HIDE DEF m
  <2> TAKE i \in 1 .. Len(Chain')
  <2>1. n + i \in 1 .. Len(Chain) /\ (i \in 1 .. m \/ (i = m + 1 /\ n + i = Len(Chain)))
    BY <1>1, <1>a
  <2> QED
    BY <1>2, <1>4, <2>1 DEF m
<1>6. \A b : b \in W <=> \E i \in 1 .. n : b = Chain[i]
  BY <1>2 DEF Elements, n
<1>7. /\ contents' = [b \in Buffers |-> IF b \in W THEN <<>> ELSE contents[b]]
      /\ used' = [b \in Buffers |-> IF b \in W THEN 0 ELSE used[b]]
      /\ tmp1' = IF tmp1 = NULL THEN buffers_to_write[1] ELSE tmp1
  BY DEF Recycle
<1> HIDE DEF W
<1>8. \A i \in 1 .. Len(Chain') : /\ Chain'[i] \notin W /\ Chain'[i] \in Buffers
                                  /\ contents'[Chain'[i]] = contents[Chain[n + i]]
  <2> TAKE i \in 1 .. Len(Chain')
  <2>1. n + i \in 1 .. Len(Chain) /\ Chain'[i] = Chain[n + i] /\ Chain'[i] \in Buffers
    BY <1>4, <1>5
  <2>2. \A j \in 1 .. n : j \in 1 .. Len(Chain) /\ j # n + i
    BY <1>1, <1>2, <2>1
  <2>3. Chain'[i] \notin W
    BY <1>0, <1>6, <2>1, <2>2 DEF Roles
  <2> QED
    BY <1>7, <2>1, <2>3
<1>9. /\ tmp1' \in Buffers /\ tmp1' # NULL /\ next_ # tmp1'
      /\ \A i \in 1 .. Len(Chain') : Chain'[i] # tmp1'
  <2>1. CASE tmp1 = NULL
    <3>1. 1 \in 1 .. n /\ tmp1' = Chain[1]
      BY <1>0, <1>1, <1>2, <1>7, <2>1 DEF Phases, n
    <3>2. 1 \in 1 .. Len(Chain) /\ Chain[1] \in Buffers /\ Chain[1] \in W
      BY <1>1, <1>2, <1>6, <3>1
    <3> QED
      BY <1>0, <1>8, <3>1, <3>2, NULLAssumption DEF Roles
  <2>2. CASE tmp1 # NULL
    BY ZenonT(60), <1>0, <1>5, <1>7, <2>2 DEF Roles, TypeOK
  <2> QED
    BY <2>1, <2>2
<1>10. contents' \in [Buffers -> Seq(Nat)] /\ used' \in [Buffers -> 0 .. kBufferSize]
  BY <1>0, <1>7, BufferSizeAssumption DEF TypeOK
<1>11. TypeOK'
  <2>1. buffers_to_write' \in Seq(Buffers) /\ out' \in Nat
    BY <1>1
  <2> QED
    BY Zenon, <1>0, <1>1, <1>9, <1>10, <2>1 DEF TypeOK
<1>12. Phases'
  <2>1. main \notin {"start", "started"}
    BY <1>0, <1>1 DEF Phases
  <2> QED
    BY <1>0, <1>1, <1>9, <2>1 DEF Phases
<1>13. Roles'
  <2>1. \A i, j \in 1 .. Len(Chain') : i # j => Chain'[i] # Chain'[j]
    <3> TAKE i, j \in 1 .. Len(Chain')
    <3>1. i # j => n + i # n + j
      BY <1>1, <1>4
    <3>2. /\ n + i \in 1 .. Len(Chain) /\ Chain'[i] = Chain[n + i]
          /\ n + j \in 1 .. Len(Chain) /\ Chain'[j] = Chain[n + j]
      BY <1>5
    <3> QED
      BY <1>0, <3>1, <3>2 DEF Roles
  <2>2. \A i \in 1 .. Len(Chain') : Chain'[i] # next_
    BY <1>0, <1>5 DEF Roles
  <2>3. ASSUME NEW b \in Buffers, \A i \in 1 .. Len(Chain') : Chain'[i] # b
        PROVE  used'[b] = 0 /\ contents'[b] = <<>>
    <3>1. CASE b \in W
      BY <1>7, <3>1
    <3>2. CASE b \notin W
      <4>1. ASSUME NEW i \in 1 .. Len(Chain) PROVE Chain[i] # b
        <5>1. CASE i \in 1 .. n
          BY <1>6, <3>2, <5>1
        <5>2. CASE i \notin 1 .. n
          <6>1. i - n \in 1 .. Len(Chain') /\ n + (i - n) = i
            BY <1>1, <1>2, <1>4, <5>2
          <6> QED
            BY <1>5, <2>3, <6>1
        <5> QED
          BY <5>1, <5>2
      <4> QED
        BY <1>0, <1>7, <3>2, <4>1 DEF Roles
    <3> QED
      BY <3>1, <3>2
  <2> QED
    BY Zenon, <1>1, <1>9, <2>1, <2>2, <2>3 DEF Roles
<1>14. Counts'
  <2>1. Len(Chain') <= Len(Chain) /\ written \in Nat
    BY <1>0, <1>1, <1>2, <1>4 DEF TypeOK
  <2>2. \A b \in Buffers : used'[b] > 0 => contents'[b] # <<>>
    BY <1>0, <1>7 DEF Counts
  <2> QED
    BY <1>0, <1>1, <1>2, <1>4, <2>1, <2>2 DEF Counts
<1>15. Consecutive'
  <2>1. \A i \in 1 .. Len(Chain') : Before(i)' = Before(n + i)
    <3> TAKE i \in 1 .. Len(Chain')
    <3>1. CASE i = 1
      BY <1>1, <3>1 DEF Before
    <3>2. CASE i # 1
      <4>1. i - 1 \in 1 .. Len(Chain') /\ n + i # out + 1 /\ (n + i) - 1 = n + (i - 1)
        BY <1>1, <1>4, <3>2
      <4>2. contents'[Chain'[i - 1]] = contents[Chain[(n + i) - 1]]
        BY <1>8, <4>1
      <4>3. Before(i)' = Last(contents'[Chain'[i - 1]], 0)
        BY <1>1, <3>2 DEF Before, Last
      <4>4. Before(n + i) = Last(contents[Chain[(n + i) - 1]], 0)
        BY <4>1 DEF Before
      <4> QED
        BY <4>2, <4>3, <4>4 DEF Last
    <3> QED
      BY <3>1, <3>2
  <2>2. \A i \in 1 .. Len(Chain') :
          /\ n + i \in out + 1 .. Len(Chain)
          /\ (i < Len(Chain') <=> n + i < Len(Chain)) /\ (i = Len(Chain') <=> n + i = Len(Chain))
    <3> HIDE DEF m
    <3> QED
      BY <1>1, <1>a
  <2>3. \A i \in out' + 1 .. Len(Chain') :
          /\ \A j \in 1 .. Len(contents'[Chain'[i]]) : contents'[Chain'[i]][j] = Before(i)' + j
          /\ i < Len(Chain') => contents'[Chain'[i]] # <<>>
          /\ i = Len(Chain') => Before(i)' + Len(contents'[Chain'[i]]) = written
    <3> TAKE i \in out' + 1 .. Len(Chain')
    <3>1. i \in 1 .. Len(Chain')
      BY <1>1
    <3>2. /\ contents'[Chain'[i]] = contents[Chain[n + i]] /\ Before(i)' = Before(n + i)
          /\ n + i \in out + 1 .. Len(Chain)
          /\ (i < Len(Chain') <=> n + i < Len(Chain)) /\ (i = Len(Chain') <=> n + i = Len(Chain))
      BY Zenon, <1>8, <2>1, <2>2, <3>1
    <3>3. /\ \A j \in 1 .. Len(contents[Chain[n + i]]) : contents[Chain[n + i]][j] = Before(n + i) + j
          /\ n + i < Len(Chain) => contents[Chain[n + i]] # <<>>
          /\ n + i = Len(Chain) => Before(n + i) + Len(contents[Chain[n + i]]) = written
      BY Zenon, <1>0, <1>1, <3>2 DEF Consecutive
    <3> QED
      BY <3>2, <3>3
  <2>4. ~(out' >= Len(Chain'))
    BY <1>1, <1>4
  <2> QED
    BY <1>0, <1>1, <2>3, <2>4 DEF Consecutive
<1> QED
  BY <1>11, <1>12, <1>13, <1>14, <1>15 DEF IInv

(* A message goes to the end of the last buffer of the chain. *)
LEMMA WriteFits ==
  ASSUME IInv, NEW len \in Lens, Write(len), UNCHANGED <<current_, next_, buffers_>>,
         Available(current_) >= len, AppendTo(current_, len)
  PROVE  IInv'
<1> DEFINE N == Len(Chain)
           c == contents[current_]
<1>0. TypeOK /\ Phases /\ Roles /\ Counts /\ Consecutive
  BY DEF IInv
<1>1. /\ main \notin {"start", "started"} /\ pc # "flushing" /\ written < MaxWritten /\ written' = written + 1
      /\ UNCHANGED <<running_, output_, pc, tmp1, buffers_to_write, out, main, emitted, stopAt>>
  BY DEF Write, logVars
<1>2. /\ written \in Nat /\ out \in Nat /\ current_ \in Buffers /\ c \in Seq(Nat) /\ used[current_] \in 0 .. kBufferSize
      /\ len \in Nat /\ len > 0 /\ MaxWritten \in Nat /\ kBufferSize \in Nat
  BY <1>0, LensAssumption, BufferSizeAssumption, BuffersAssumption DEF TypeOK
<1>3. Chain' = Chain /\ Chain \in Seq(Buffers) /\ N \in Nat /\ N > 0 /\ Chain[N] = current_
  <2>1. Chain' = Chain
    BY <1>1 DEF Chain
  <2>2. buffers_to_write \in Seq(Buffers) /\ buffers_ \in Seq(Buffers)
    BY <1>0 DEF TypeOK
  <2> QED
    BY <1>0, <2>1, <2>2, ChainType
<1>4. /\ contents' = [contents EXCEPT ![current_] = Append(c, written + 1)]
      /\ used' = [used EXCEPT ![current_] = used[current_] + len]
  BY DEF AppendTo
<1>5. used[current_] + len \in 0 .. kBufferSize
  BY <1>2 DEF Available
<1>6. Append(c, written + 1) \in Seq(Nat) /\ Len(Append(c, written + 1)) = Len(c) + 1
  BY <1>2, AppendFacts
<1> HIDE DEF c
<1>7. TypeOK'
  <2>1. contents' \in [Buffers -> Seq(Nat)]
    BY <1>0, <1>4, <1>6 DEF TypeOK
  <2>2. used' \in [Buffers -> 0 .. kBufferSize]
    BY <1>0, <1>4, <1>5 DEF TypeOK
  <2>3. written' \in Nat
    BY <1>1, <1>2
  <2> QED
    BY ZenonT(60), <1>0, <1>1, <2>1, <2>2, <2>3 DEF TypeOK
<1>8. Phases'
  BY <1>0, <1>1 DEF Phases
<1>9. Roles'
  <2>1. ASSUME NEW b \in Buffers, \A i \in 1 .. N : Chain[i] # b PROVE used'[b] = 0 /\ contents'[b] = <<>>
    <3>1. b # current_
      BY <1>3, <2>1
    <3> QED
      BY Zenon, <1>0, <1>4, <2>1, <3>1 DEF Roles, TypeOK
  <2> QED
    BY <1>0, <1>1, <1>3, <2>1 DEF Roles
<1>10. Counts'
  <2>1. Append(c, written + 1) # <<>>
    <3>1. Len(c) \in Nat
      BY <1>2 DEF c
    <3> QED
      BY <1>6, <3>1
  <2>2. \A b \in Buffers : used'[b] > 0 => contents'[b] # <<>>
    BY Zenon, <1>0, <1>4, <2>1 DEF Counts, TypeOK
  <2>3. N <= written' + 1 /\ written' <= MaxWritten
    BY <1>0, <1>1, <1>2, <1>3 DEF Counts
  <2> QED
    BY <1>3, <2>2, <2>3 DEF Counts
<1>11. \A i \in 1 .. N : i # N => contents'[Chain[i]] = contents[Chain[i]]
  <2> TAKE i \in 1 .. N
  <2>1. N \in 1 .. N /\ Chain[i] \in Buffers
    BY <1>3
  <2>2. i # N => Chain[i] # current_
    BY <1>0, <1>3, <2>1 DEF Roles
  <2> QED
    BY <1>0, <1>4, <2>1, <2>2 DEF TypeOK
<1>12. pc # "done" => out < N
  <2>1. N = Len(buffers_to_write) + Len(buffers_) + 1 /\ buffers_to_write \in Seq(Buffers) /\ buffers_ \in Seq(Buffers)
    BY Zenon, <1>0, ChainType DEF TypeOK
  <2> QED
    BY <1>0, <1>1, <1>2, <2>1 DEF Phases
<1>13. \A i \in out + 1 .. N : Before(i)' = Before(i)
  <2> TAKE i \in out + 1 .. N
  <2>1. i # out + 1 => i - 1 \in 1 .. N /\ i - 1 # N
    BY <1>2, <1>3
  <2> QED
    BY Zenon, <1>1, <1>3, <1>11, <2>1 DEF Before, Last
<1>14. ASSUME pc # "done", NEW i \in out + 1 .. N
       PROVE  /\ \A j \in 1 .. Len(contents'[Chain[i]]) : contents'[Chain[i]][j] = Before(i) + j
              /\ i < N => contents'[Chain[i]] # <<>>
              /\ i = N => Before(i) + Len(contents'[Chain[i]]) = written + 1
  <2>0. /\ \A j \in 1 .. Len(contents[Chain[i]]) : contents[Chain[i]][j] = Before(i) + j
        /\ i < N => contents[Chain[i]] # <<>>
        /\ i = N => Before(i) + Len(contents[Chain[i]]) = written
    BY <1>0, <1>14 DEF Consecutive
  <2>1. CASE i # N
    <3>1. i \in 1 .. N
      BY <1>2, <1>3
    <3>2. contents'[Chain[i]] = contents[Chain[i]]
      BY <1>11, <2>1, <3>1
    <3> QED
      BY <2>0, <2>1, <3>2
  <2>2. CASE i = N
    <3> DEFINE d == Append(c, written + 1)
    <3>1. contents'[Chain[i]] = d /\ contents[Chain[i]] = c
      BY Zenon, <1>0, <1>3, <1>4, <2>2 DEF TypeOK, c
    <3>2. (\A j \in 1 .. Len(c) : c[j] = Before(i) + j) /\ Before(i) + Len(c) = written
      BY <2>0, <2>2, <3>1
    <3>3. Before(i) \in Nat
      <4>1. i = out + 1 \/ i - 1 \in 1 .. N
        BY <1>2, <1>3
      <4>2. CASE i = out + 1
        BY <1>0, <4>2 DEF Before, TypeOK
      <4>3. CASE i # out + 1
        <5>1. contents[Chain[i - 1]] \in Seq(Nat)
          <6>1. Chain[i - 1] \in Buffers
            BY <1>3, <4>1, <4>3
          <6> QED
            BY <1>0, <6>1 DEF TypeOK
        <5> QED
          BY <4>3, <5>1, LastNat DEF Before
      <4> QED
        BY <4>2, <4>3
    <3>4. c \in Seq(Nat) /\ Len(d) = Len(c) + 1 /\ d[Len(c) + 1] = written + 1 /\ \A j \in 1 .. Len(c) : d[j] = c[j]
      BY <1>2, AppendFacts DEF c
    <3>5. ASSUME NEW j \in 1 .. Len(d) PROVE d[j] = Before(i) + j
      <4> HIDE DEF d
      <4>1. j \in 1 .. Len(c) \/ j = Len(c) + 1
        BY <3>4
      <4> QED
        BY <1>2, <3>2, <3>3, <3>4, <4>1
    <3>6. Before(i) + Len(d) = written + 1
      <4> HIDE DEF d
      <4>1. Len(c) \in Nat
        BY <3>4
      <4>2. Before(i) + Len(c) = written /\ Len(d) = Len(c) + 1
        BY <3>2, <3>4
      <4>3. written \in Nat /\ \A x, y, z \in Nat : x + y = z => x + (y + 1) = z + 1
        BY <1>2
      <4> QED
        BY <3>3, <4>1, <4>2, <4>3
    <3>7. ~(i < N)
      BY <1>3, <2>2
    <3> HIDE DEF d
    <3> QED
      BY <3>1, <3>5, <3>6, <3>7
  <2> QED
    BY Zenon, <2>1, <2>2
<1>15. Consecutive'
  <2>1. main' \in {"join", "joined"} => stopAt' <= written'
    <3>1. stopAt \in Nat
      BY <1>0 DEF TypeOK
    <3>2. main \in {"join", "joined"} => stopAt <= written
      BY <1>0 DEF Consecutive
    <3> QED
      BY <1>1, <1>2, <3>1, <3>2
  <2>2. ~(out >= N) \/ pc = "done"
    BY <1>2, <1>3, <1>12
  <2>3. pc # "done" =>
          \A i \in out + 1 .. N :
            /\ \A j \in 1 .. Len(contents'[Chain[i]]) : contents'[Chain[i]][j] = Before(i)' + j
            /\ i < N => contents'[Chain[i]] # <<>>
            /\ i = N => Before(i)' + Len(contents'[Chain[i]]) = written'
    <3> SUFFICES ASSUME pc # "done", NEW i \in out + 1 .. N
                 PROVE  /\ \A j \in 1 .. Len(contents'[Chain[i]]) : contents'[Chain[i]][j] = Before(i)' + j
                        /\ i < N => contents'[Chain[i]] # <<>>
                        /\ i = N => Before(i)' + Len(contents'[Chain[i]]) = written'
      OBVIOUS
    <3>1. Before(i)' = Before(i)
      BY <1>13
    <3>2. written' = written + 1
      BY <1>1
    <3> QED
      BY <1>14, <3>1, <3>2
  <2> QED
    BY Zenon, <1>0, <1>1, <1>3, <2>1, <2>2, <2>3 DEF Consecutive
<1> QED
  BY <1>7, <1>8, <1>9, <1>10, <1>15 DEF IInv

(* Where a number of a range lies. *)
LEMMA RangeParts == \A x, y \in Nat : \A i \in 1 .. x + y + 1 : i \in 1 .. x \/ i = x + y + 1 \/ i - x \in 1 .. y
  OBVIOUS

LEMMA RangeEnd == \A x, y \in Nat : \A i \in x + 1 .. y + 1 : i \in x + 1 .. y \/ i = y + 1
  OBVIOUS

LEMMA InOrBehind == \A x, y \in Nat : x + 1 <= y + 1 \/ x + 1 > y + 1
  OBVIOUS

(* A message that does not fit goes to a new last buffer, which was empty. *)
LEMMA WriteOverflows ==
  ASSUME IInv, NEW len \in Lens, Write(len), Available(current_) < len,
         buffers_' = Append(buffers_, current_),
         current_' = (IF next_ # NULL THEN next_ ELSE NewBuffer),
         next_' = NULL, AppendTo(current_', len)
  PROVE  IInv'
<1> DEFINE N == Len(Chain)
           c == contents[current_]
           b == current_'
<1>0. TypeOK /\ Phases /\ Roles /\ Counts /\ Consecutive
  BY DEF IInv
<1>1. /\ main \notin {"start", "started"} /\ pc # "flushing" /\ written < MaxWritten /\ written' = written + 1
      /\ UNCHANGED <<running_, output_, pc, tmp1, buffers_to_write, out, main, emitted, stopAt>>
  BY DEF Write, logVars
<1>2. /\ written \in Nat /\ out \in Nat /\ current_ \in Buffers /\ c \in Seq(Nat) /\ used[current_] \in 0 .. kBufferSize
      /\ len \in Nat /\ len > 0 /\ MaxWritten \in Nat /\ kBufferSize \in Nat /\ len <= kBufferSize
      /\ buffers_ \in Seq(Buffers) /\ buffers_to_write \in Seq(Buffers) /\ emitted \in Seq(Nat)
  BY <1>0, LensAssumption, BufferSizeAssumption, BuffersAssumption DEF TypeOK
<1>3. /\ Chain \in Seq(Buffers) /\ N \in Nat /\ N > 0 /\ Chain[N] = current_
      /\ N = Len(buffers_to_write) + Len(buffers_) + 1
  <2>1. /\ Chain \in Seq(Buffers) /\ N = Len(buffers_to_write) + Len(buffers_) + 1 /\ Chain[N] = current_
    BY <1>0, ChainType
  <2>2. Len(buffers_to_write) \in Nat /\ Len(buffers_) \in Nat
    BY <1>2
  <2>3. \A x, y \in Nat : x + y + 1 \in Nat /\ x + y + 1 > 0
    OBVIOUS
  <2> QED
    BY <2>1, <2>2, <2>3
<1>4. /\ b \in Buffers /\ b # tmp1 /\ b # NULL
      /\ \A i \in 1 .. N : Chain[i] # b
  <2>1. CASE next_ # NULL
    BY Zenon, <1>0, <2>1 DEF TypeOK, Roles
  <2>2. CASE next_ = NULL
    <3>1. b \in Buffers /\ b \notin InUse
      BY <1>1, <2>2, FreshBuffer
    <3>2. b # NULL
      BY <3>1, NULLAssumption
    <3>3. \A i \in 1 .. N : Chain[i] \in InUse
      <4>1. \A i \in 1 .. N : i \in 1 .. Len(buffers_to_write) \/ i = N
                              \/ i - Len(buffers_to_write) \in 1 .. Len(buffers_)
        <5>1. Len(buffers_to_write) \in Nat /\ Len(buffers_) \in Nat
          BY <1>2
        <5> QED
          BY Zenon, <1>3, <5>1, RangeParts
      <4>2. \A i \in 1 .. N : /\ i \in 1 .. Len(buffers_to_write) => Chain[i] \in Elements(buffers_to_write)
                              /\ i - Len(buffers_to_write) \in 1 .. Len(buffers_) => Chain[i] \in Elements(buffers_)
        <5> TAKE i \in 1 .. N
        <5>1. i = Len(buffers_to_write) + (i - Len(buffers_to_write))
          BY <1>2, <1>3
        <5>2. i \in 1 .. Len(buffers_to_write) => Chain[i] = buffers_to_write[i]
          BY <1>0, ChainType
        <5>3. i - Len(buffers_to_write) \in 1 .. Len(buffers_) => Chain[i] = buffers_[i - Len(buffers_to_write)]
          BY <1>0, <5>1, ChainType
        <5> QED
          BY <5>2, <5>3 DEF Elements
      <4>3. \A i \in 1 .. N : Chain[i] \in {current_} \cup Elements(buffers_) \cup Elements(buffers_to_write)
        BY <1>3, <4>1, <4>2
      <4>4. \A i \in 1 .. N : Chain[i] # NULL
        BY <1>3, NULLAssumption
      <4> QED
        BY <4>3, <4>4 DEF InUse
    <3>4. b # tmp1
      BY <3>1, <3>2 DEF InUse
    <3> QED
      BY <3>1, <3>2, <3>3, <3>4
  <2> QED
    BY <2>1, <2>2
<1>5. used[b] = 0 /\ contents[b] = <<>>
  BY <1>0, <1>4 DEF Roles
<1>6. Chain' = Append(Chain, b)
  <2>1. buffers_to_write \o Append(buffers_, current_) = Append(buffers_to_write \o buffers_, current_)
    <3>1. buffers_ \in Seq(Buffers) /\ buffers_to_write \in Seq(Buffers) /\ current_ \in Buffers
      BY <1>2
    <3> QED
      BY <3>1, ConcatAppend
  <2> QED
    BY <1>1, <2>1 DEF Chain
<1>7. /\ Chain' \in Seq(Buffers) /\ Len(Chain') = N + 1 /\ Chain'[N + 1] = b
      /\ \A i \in 1 .. N : Chain'[i] = Chain[i]
  <2>1. Chain \in Seq(Buffers) /\ b \in Buffers
    BY <1>3, <1>4
  <2> HIDE DEF b
  <2> QED
    BY <1>6, <2>1, AppendFacts
<1> HIDE DEF b, N
<1>8. contents' = [contents EXCEPT ![b] = <<written + 1>>] /\ used' = [used EXCEPT ![b] = len]
  <2>1. Append(<<>>, written + 1) = <<written + 1>> /\ 0 + len = len
    BY <1>2
  <2>2. /\ contents' = [contents EXCEPT ![b] = Append(contents[b], written + 1)]
        /\ used' = [used EXCEPT ![b] = used[b] + len]
    BY DEF AppendTo, b
  <2> QED
    BY Zenon, <1>5, <2>1, <2>2
<1>9. c # <<>>
  <2>1. used[current_] > 0
    BY <1>2 DEF Available
  <2> QED
    BY <1>0, <1>2, <2>1 DEF Counts
<1>10. TypeOK'
  <2>1. contents' \in [Buffers -> Seq(Nat)]
    <3>1. <<written + 1>> \in Seq(Nat)
      BY <1>2
    <3> QED
      BY Zenon, <1>0, <1>8, <3>1 DEF TypeOK
  <2>2. used' \in [Buffers -> 0 .. kBufferSize]
    <3>1. len \in 0 .. kBufferSize
      BY <1>2
    <3> QED
      BY Zenon, <1>0, <1>8, <3>1 DEF TypeOK
  <2>3. written' \in Nat
    BY <1>1, <1>2
  <2>4. buffers_' \in Seq(Buffers)
    BY <1>2
  <2>5. current_' \in Buffers
    BY Zenon, <1>4 DEF b
  <2> QED
    BY Zenon, <1>0, <1>1, <2>1, <2>2, <2>3, <2>4, <2>5 DEF TypeOK
<1>11. Phases'
  <2>1. buffers_' # <<>>
    <3>1. Len(Append(buffers_, current_)) = Len(buffers_) + 1 /\ Len(buffers_) \in Nat
      BY <1>2, AppendFacts
    <3> QED
      BY <3>1
  <2> QED
    BY <1>0, <1>1, <2>1 DEF Phases
<1>12. Roles'
  <2>1. ASSUME NEW i \in 1 .. N + 1, NEW j \in 1 .. N + 1, i # j PROVE Chain'[i] # Chain'[j]
    <3>1. (i \in 1 .. N \/ i = N + 1) /\ (j \in 1 .. N \/ j = N + 1)
      BY <1>3 DEF N
    <3> QED
      BY <1>0, <1>4, <1>7, <2>1, <3>1 DEF Roles, N
  <2>2. ASSUME NEW i \in 1 .. N + 1 PROVE Chain'[i] # NULL /\ Chain'[i] # tmp1
    <3>1. i \in 1 .. N \/ i = N + 1
      BY <1>3 DEF N
    <3>2. Chain'[i] \in Buffers
      BY <1>7
    <3> QED
      BY <1>0, <1>4, <1>7, <3>1, <3>2, NULLAssumption DEF Roles, N
  <2>3. ASSUME NEW x \in Buffers, \A i \in 1 .. N + 1 : Chain'[i] # x PROVE used'[x] = 0 /\ contents'[x] = <<>>
    <3>1. x # b /\ \A i \in 1 .. N : i \in 1 .. N + 1
      BY <1>3, <1>7, <2>3 DEF N
    <3>2. \A i \in 1 .. N : Chain[i] # x
      BY <1>7, <2>3, <3>1
    <3> QED
      BY Zenon, <1>0, <1>8, <3>1, <3>2 DEF Roles, TypeOK, N
  <2> QED
    BY Zenon, <1>1, <1>7, <2>1, <2>2, <2>3 DEF Roles
<1>13. Counts'
  <2>1. \A x \in Buffers : used'[x] > 0 => contents'[x] # <<>>
    BY <1>0, <1>8 DEF Counts, TypeOK
  <2>2. N + 1 <= written' + 1 /\ written' <= MaxWritten
    <3>1. N <= written + 1 /\ N \in Nat
      BY <1>0, <1>3 DEF Counts, N
    <3> QED
      BY <1>1, <1>2, <3>1
  <2> QED
    BY Zenon, <1>7, <2>1, <2>2 DEF Counts
<1>14. \A i \in 1 .. N : contents'[Chain'[i]] = contents[Chain[i]]
  <2> TAKE i \in 1 .. N
  <2>1. Chain[i] \in Buffers /\ Chain[i] # b /\ Chain'[i] = Chain[i]
    <3>1. Chain[i] \in Buffers
      BY <1>3 DEF N
    <3>2. Chain[i] # b
      BY <1>4
    <3>3. Chain'[i] = Chain[i]
      BY Zenon, <1>7
    <3> QED
      BY <3>1, <3>2, <3>3
  <2> QED
    BY <1>0, <1>8, <2>1 DEF TypeOK
<1>15. contents'[Chain'[N + 1]] = <<written + 1>>
  BY <1>0, <1>4, <1>7, <1>8 DEF TypeOK
<1>16. pc # "done" => out < N
  <2>1. N \in Nat /\ N = Len(buffers_to_write) + Len(buffers_) + 1
    BY <1>3 DEF N
  <2>2. Len(buffers_to_write) \in Nat /\ Len(buffers_) \in Nat /\ out \in Nat
    BY <1>2
  <2>3. pc # "done" => out <= Len(buffers_to_write)
    BY <1>0, <1>1, <2>2 DEF Phases
  <2> QED
    BY <2>1, <2>2, <2>3
<1>17. \A i \in out + 1 .. N : Before(i)' = Before(i)
  <2> TAKE i \in out + 1 .. N
  <2>1. i # out + 1 => i - 1 \in 1 .. N
    BY <1>2, <1>3 DEF N
  <2> QED
    BY <1>1, <1>14, <2>1 DEF Before, Last
<1>18. ASSUME pc # "done", NEW i \in out + 1 .. N + 1, i = N + 1 PROVE Before(i)' = written
  <2>1. N \in out + 1 .. N /\ N \in 1 .. N /\ i # out + 1 /\ i - 1 = N
    BY <1>2, <1>3, <1>16, <1>18 DEF N
  <2>2. Before(i)' = Last(c, 0)
    <3>1. contents'[Chain'[N]] = c
      BY Zenon, <1>3, <1>14, <2>1 DEF N
    <3>2. Before(i)' = Last(contents'[Chain'[N]], 0)
      BY Zenon, <1>1, <2>1 DEF Before, Last
    <3> QED
      BY Zenon, <3>1, <3>2
  <2>3. (\A j \in 1 .. Len(c) : c[j] = Before(N) + j) /\ Before(N) + Len(c) = written
    BY <1>0, <1>3, <1>18, <2>1 DEF Consecutive, N
  <2>4. Len(c) \in 1 .. Len(c)
    BY <1>2, <1>9
  <2> QED
    BY Zenon, <1>9, <2>2, <2>3, <2>4 DEF Last
<1>19. ASSUME pc # "done", NEW i \in out + 1 .. N + 1
       PROVE  /\ \A j \in 1 .. Len(contents'[Chain'[i]]) : contents'[Chain'[i]][j] = Before(i)' + j
              /\ i < N + 1 => contents'[Chain'[i]] # <<>>
              /\ i = N + 1 => Before(i)' + Len(contents'[Chain'[i]]) = written + 1
  <2>0. N \in Nat /\ out \in Nat
    BY Zenon, <1>2, <1>3 DEF N
  <2>1. CASE i \in out + 1 .. N
    <3>1. /\ \A j \in 1 .. Len(contents[Chain[i]]) : contents[Chain[i]][j] = Before(i) + j
          /\ i < N => contents[Chain[i]] # <<>>
      BY <1>0, <1>19, <2>1 DEF Consecutive, N
    <3>2. i \in 1 .. N /\ i # N + 1 /\ (i < N \/ i = N)
      BY <2>0, <2>1
    <3>3. contents[Chain[i]] # <<>>
      BY Zenon, <1>3, <1>9, <3>1, <3>2 DEF N
    <3> QED
      BY Zenon, <1>14, <1>17, <2>1, <3>1, <3>2, <3>3
  <2>2. CASE i = N + 1
    <3>1. Before(i)' = written /\ contents'[Chain'[i]] = <<written + 1>>
      BY Zenon, <1>15, <1>18, <1>19, <2>2
    <3>2. Len(<<written + 1>>) = 1 /\ \A j \in 1 .. 1 : <<written + 1>>[j] = written + j
      BY <1>2
    <3> QED
      BY <2>0, <2>2, <3>1, <3>2
  <2>3. i \in out + 1 .. N \/ i = N + 1
    BY Zenon, <2>0, RangeEnd
  <2> QED
    BY Zenon, <2>1, <2>2, <2>3
<1>20. Consecutive'
  <2>1. main' \in {"join", "joined"} => stopAt' <= written'
    <3>1. stopAt \in Nat
      BY <1>0 DEF TypeOK
    <3>2. main \in {"join", "joined"} => stopAt <= written
      BY <1>0 DEF Consecutive
    <3> QED
      BY <1>1, <1>2, <3>1, <3>2
  <2>2. ~(out >= N + 1) \/ pc = "done"
    BY <1>2, <1>3, <1>16 DEF N
  <2> QED
    BY ZenonT(60), <1>0, <1>1, <1>7, <1>19, <2>1, <2>2 DEF Consecutive
<1> QED
  BY <1>10, <1>11, <1>12, <1>13, <1>20 DEF IInv

\* Every step of the callers and of the log thread keeps the invariant.
LEMMA NextIInv == IInv /\ [Next]_vars => IInv'
<1> SUFFICES ASSUME IInv, [Next]_vars PROVE IInv'
  OBVIOUS
<1>1. CASE InitLogger \/ SetOutput \/ FlushStop \/ Join \/ Loop \/ LockFlush
  BY <1>1, QuietSteps
<1>2. CASE Take
  BY <1>2, TakeStep
<1>3. CASE Output
  BY Zenon, <1>3, OutputStep
<1>4. CASE Recycle
  BY <1>4, RecycleStep
<1>5. CASE FinalOutput
  BY <1>5, FinalOutputStep
<1>6. ASSUME NEW len \in Lens, Write(len) PROVE IInv'
  <2>1. CASE Available(current_) >= len /\ AppendTo(current_, len) /\ UNCHANGED members
    <3>1. UNCHANGED <<current_, next_, buffers_>>
      BY <2>1 DEF members
    <3> QED
      BY <1>6, <2>1, <3>1, WriteFits
  <2>2. CASE /\ Available(current_) < len
             /\ buffers_' = Append(buffers_, current_)
             /\ current_' = IF next_ # NULL THEN next_ ELSE NewBuffer
             /\ next_' = NULL
             /\ AppendTo(current_', len)
    BY <1>6, <2>2, WriteOverflows
  <2> QED
    BY <1>6, <2>1, <2>2 DEF Write
<1>7. CASE UNCHANGED vars
  <2>1. /\ UNCHANGED <<current_, next_, buffers_, running_, output_, contents, used, pc, tmp1, buffers_to_write>>
        /\ UNCHANGED <<out, main, written, emitted, stopAt>>
    BY <1>7 DEF vars, members, logVars
  <2>2. Chain' = Chain /\ \A i : Before(i)' = Before(i)
    BY Zenon, <2>1 DEF Chain, Before, Last
  <2>3. TypeOK' /\ Phases'
    BY ZenonT(60), <2>1 DEF IInv, TypeOK, Phases
  <2>4. Roles' /\ Counts'
    BY Zenon, <2>1, <2>2 DEF IInv, Roles, Counts
  <2>5. Consecutive'
    BY <2>1, <2>2 DEF IInv, Consecutive
  <2> QED
    BY <2>3, <2>4, <2>5 DEF IInv
<1> QED
  BY <1>1, <1>2, <1>3, <1>4, <1>5, <1>6, <1>7 DEF Next, LogThread

\* The invariant of AsyncLogger holds in every reachable state.
LEMMA Inductive == Spec => []IInv
<1>1. Init => IInv
  BY InitIInv
<1>2. IInv /\ [Next]_vars => IInv'
  BY Zenon, NextIInv
<1> QED
  BY <1>1, <1>2, PTL DEF Spec

-----------------------------------------------------------------------------
(* Pending is the chain behind out. *)
LEMMA PendingChain ==
  ASSUME TypeOK, Phases, pc # "done"
  PROVE  /\ Len(Pending) \in Nat
         /\ \A i \in 1 .. Len(Pending) :
              /\ out + i \in out + 1 .. Len(Chain) /\ Pending[i] = Chain[out + i]
              /\ (i < Len(Pending) <=> out + i < Len(Chain)) /\ (i = Len(Pending) <=> out + i = Len(Chain))
<1> DEFINE n == Len(buffers_to_write)
           m == Len(buffers_)
<1>1. /\ buffers_ \in Seq(Buffers) /\ buffers_to_write \in Seq(Buffers) /\ current_ \in Buffers
      /\ out \in Nat /\ n \in Nat /\ m \in Nat
  BY DEF TypeOK
<1>2. /\ Chain \in Seq(Buffers) /\ Len(Chain) = n + m + 1 /\ Chain[n + m + 1] = current_
      /\ \A i \in 1 .. n : Chain[i] = buffers_to_write[i]
      /\ \A i \in 1 .. m : Chain[n + i] = buffers_[i]
  BY ChainType
<1> DEFINE s == Append(buffers_, current_)
<1>3. /\ s \in Seq(Buffers) /\ Len(s) = m + 1 /\ s[m + 1] = current_ /\ \A i \in 1 .. m : s[i] = buffers_[i]
      /\ buffers_ \o <<current_>> = s
  BY <1>1, AppendFacts, ConcatOne
<1> HIDE DEF s, n, m
<1>4. CASE pc = "flushing"
  <2>1. n = 0
    BY <1>4 DEF Phases, n
  <2>2. Pending = SubSeq(s, out + 1, m + 1)
    BY Zenon, <1>3, <1>4 DEF Pending, m
  <2>3. \A i \in 1 .. m + 1 : Chain[i] = s[i]
    <3> TAKE i \in 1 .. m + 1
    <3>1. i \in 1 .. m \/ i = m + 1
      BY <1>1
    <3>2. n + i = i /\ n + m + 1 = m + 1
      BY <1>1, <2>1
    <3> QED
      BY Zenon, <1>2, <1>3, <3>1, <3>2
  <2>4. CASE out + 1 > m + 1
    <3>1. Pending = <<>>
      BY <1>1, <1>3, <2>2, <2>4
    <3> QED
      BY <3>1
  <2>5. CASE out + 1 <= m + 1
    <3>1. Len(Pending) = m + 1 - out /\ \A i \in 1 .. m + 1 - out : Pending[i] = s[out + i]
      <4>1. out <= m + 1 /\ Pending = SubSeq(s, out + 1, Len(s))
        BY <1>1, <1>3, <2>2, <2>5
      <4>2. s \in Seq(Buffers) /\ out \in Nat /\ out <= Len(s) /\ Len(s) = m + 1
        BY <1>1, <1>3, <4>1
      <4>3. /\ Len(SubSeq(s, out + 1, Len(s))) = Len(s) - out
            /\ \A i \in 1 .. Len(s) - out : SubSeq(s, out + 1, Len(s))[i] = s[out + i]
        BY <4>2, SuffixFacts
      <4>4. Len(Pending) = Len(s) - out /\ \A i \in 1 .. Len(s) - out : Pending[i] = s[out + i]
        BY Zenon, <4>1, <4>3
      <4>5. Len(s) - out = m + 1 - out
        BY <1>1, <4>2
      <4> QED
        BY <4>4, <4>5
    <3>2. \A i \in 1 .. m + 1 - out : out + i \in 1 .. m + 1
      BY <1>1, <2>5
    <3>3. Len(Chain) = m + 1 /\ Len(Pending) \in Nat
      <4>1. m \in Nat /\ out \in Nat
        BY <1>1
      <4>2. Len(Chain) = m + 1
        BY <1>2, <2>1, <4>1
      <4>3. Len(Pending) = m + 1 - out
        BY <3>1
      <4>4. \A a, b \in Nat : b + 1 <= a + 1 => a + 1 - b \in Nat
        OBVIOUS
      <4> QED
        BY <2>5, <4>1, <4>2, <4>3, <4>4
    <3>4. ASSUME NEW i \in 1 .. Len(Pending)
          PROVE  /\ out + i \in out + 1 .. Len(Chain) /\ Pending[i] = Chain[out + i]
                 /\ (i < Len(Pending) <=> out + i < Len(Chain)) /\ (i = Len(Pending) <=> out + i = Len(Chain))
      <4>1. Pending[i] = Chain[out + i]
        BY <2>3, <3>1, <3>2
      <4> QED
        BY <1>1, <3>1, <3>3, <4>1
    <3> QED
      BY <3>3, <3>4
  <2> QED
    BY Zenon, <1>1, <2>4, <2>5, InOrBehind
<1>5. CASE pc # "flushing"
  <2> DEFINE r == SubSeq(buffers_to_write, out + 1, n)
  <2>1. out <= n
    BY <1>1, <1>5 DEF Phases, n
  <2>2. r \in Seq(Buffers) /\ Len(r) = n - out /\ \A i \in 1 .. n - out : r[i] = buffers_to_write[out + i]
    BY <1>1, <2>1 DEF n
  <2> HIDE DEF r
  <2>3. Pending = r \o s
    <3>1. Pending = (r \o buffers_) \o <<current_>>
      BY Zenon, <1>5 DEF Pending, r, n
    <3>2. r \o buffers_ \in Seq(Buffers)
      BY <1>1, <2>2
    <3>3. Pending = Append(r \o buffers_, current_)
      BY <1>1, <3>1, <3>2, ConcatOne
    <3>4. r \o Append(buffers_, current_) = Append(r \o buffers_, current_)
      BY <1>1, <2>2, ConcatAppend
    <3> QED
      BY <3>3, <3>4 DEF s
  <2>4. /\ Len(Pending) = (n - out) + (m + 1)
        /\ \A i \in 1 .. n - out : Pending[i] = r[i]
        /\ \A i \in 1 .. m + 1 : Pending[(n - out) + i] = s[i]
    <3>1. /\ Len(r \o s) = Len(r) + Len(s)
          /\ \A i \in 1 .. Len(r) : (r \o s)[i] = r[i]
          /\ \A i \in 1 .. Len(s) : (r \o s)[Len(r) + i] = s[i]
      <4>1. r \in Seq(Buffers) /\ s \in Seq(Buffers)
        BY <1>3, <2>2
      <4> QED
        BY <4>1, ConcatFacts
    <3> QED
      BY Zenon, <1>3, <2>2, <2>3, <3>1
  <2>a. Len(Pending) \in Nat
    BY <1>1, <2>1, <2>4
  <2> SUFFICES ASSUME NEW i \in 1 .. Len(Pending)
               PROVE  /\ out + i \in out + 1 .. Len(Chain) /\ Pending[i] = Chain[out + i]
                      /\ (i < Len(Pending) <=> out + i < Len(Chain)) /\ (i = Len(Pending) <=> out + i = Len(Chain))
    BY <2>a
  <2>5. /\ out + i \in out + 1 .. Len(Chain)
        /\ (i < Len(Pending) <=> out + i < Len(Chain)) /\ (i = Len(Pending) <=> out + i = Len(Chain))
    BY <1>1, <1>2, <2>1, <2>4
  <2>6. CASE i \in 1 .. n - out
    <3>1. out + i \in 1 .. n
      BY <1>1, <2>1, <2>6
    <3> QED
      BY <1>2, <2>2, <2>4, <2>5, <2>6, <3>1
  <2>7. CASE i \notin 1 .. n - out
    <3> DEFINE j == i - (n - out)
    <3>1. j \in 1 .. m + 1 /\ i = (n - out) + j /\ out + i = n + j /\ (j \in 1 .. m \/ j = m + 1)
      BY <1>1, <2>1, <2>4, <2>7
    <3> HIDE DEF j
    <3>2. Pending[i] = s[j]
      BY <2>4, <3>1
    <3>3. Chain[n + j] = s[j]
      <4>1. n + m + 1 = n + (m + 1)
        BY <1>1
      <4> QED
        BY <1>2, <1>3, <3>1, <4>1
    <3> QED
      BY <2>5, <3>1, <3>2, <3>3
  <2> QED
    BY <2>6, <2>7
<1> QED
  BY <1>4, <1>5

(* What Write took first comes out first, none is lost or given twice       *)
(* (async_logger.cc: Write and LogTheadRoutine), for any buffers and lengths. *)
THEOREM InOrderAlways == Spec => []InOrder
<1>1. IInv => InOrder
  <2> SUFFICES ASSUME IInv PROVE InOrder
    OBVIOUS
  <2>0. TypeOK /\ Phases /\ Consecutive
    BY DEF IInv
  <2>1. \A i \in 1 .. Len(emitted) : emitted[i] = i
    BY Zenon, <2>0 DEF Consecutive
  <2>2. ASSUME pc # "done", NEW i \in 1 .. Len(Pending)
        PROVE  LET c == contents[Pending[i]]
                   before == IF i = 1 THEN Len(emitted) ELSE Last(contents[Pending[i - 1]], 0)
               IN  /\ \A j \in 1 .. Len(c) : c[j] = before + j
                   /\ i < Len(Pending) => c # <<>>
                   /\ i = Len(Pending) => before + Len(c) = written
    <3>1. /\ out + i \in out + 1 .. Len(Chain) /\ Pending[i] = Chain[out + i]
          /\ (i < Len(Pending) <=> out + i < Len(Chain)) /\ (i = Len(Pending) <=> out + i = Len(Chain))
      BY <2>0, <2>2, PendingChain
    <3>2. Before(out + i) = IF i = 1 THEN Len(emitted) ELSE Last(contents[Pending[i - 1]], 0)
      <4>1. out \in Nat /\ Len(Pending) \in Nat
        BY <2>0, <2>2, PendingChain DEF TypeOK
      <4>2. CASE i = 1
        BY <4>2 DEF Before
      <4>3. CASE i # 1
        <5>1. i - 1 \in 1 .. Len(Pending) /\ out + i # out + 1 /\ out + (i - 1) = (out + i) - 1
          BY <4>1, <4>3
        <5>2. Pending[i - 1] = Chain[(out + i) - 1]
          BY <2>0, <2>2, <5>1, PendingChain
        <5> QED
          BY <4>3, <5>1, <5>2 DEF Before
      <4> QED
        BY Zenon, <4>2, <4>3
    <3> QED
      BY Zenon, <2>0, <2>2, <3>1, <3>2 DEF Consecutive
  <2> QED
    BY <2>1, <2>2 DEF InOrder
<1> QED
  BY <1>1, Inductive, PTL

(* No buffer has two roles (the shared_ptrs that Write and LogTheadRoutine  *)
(* move about).                                                             *)
THEOREM NoAliasAlways == Spec => []NoAlias
<1>1. IInv => NoAlias
  <2> SUFFICES ASSUME IInv PROVE NoAlias
    OBVIOUS
  <2> DEFINE n == Len(buffers_to_write)
             m == Len(buffers_)
             r == SubSeq(buffers_to_write, out + 1, n)
             roles == buffers_ \o r
             N == Len(Chain)
             at(i) == IF i \in 1 .. m THEN n + i ELSE out + (i - m)
  <2>0. TypeOK /\ Phases /\ Roles
    BY DEF IInv
  <2>1. /\ buffers_ \in Seq(Buffers) /\ buffers_to_write \in Seq(Buffers) /\ out \in Nat /\ n \in Nat /\ m \in Nat
        /\ current_ \in Buffers
    BY <2>0 DEF TypeOK
  <2>2. /\ N = n + m + 1 /\ Chain[N] = current_
        /\ \A i \in 1 .. n : Chain[i] = buffers_to_write[i]
        /\ \A i \in 1 .. m : Chain[n + i] = buffers_[i]
    BY <2>0, ChainType
  <2>3. /\ r \in Seq(Buffers)
        /\ \A i \in 1 .. Len(r) : out + i \in 1 .. n /\ r[i] = buffers_to_write[out + i]
    <3>1. CASE out <= n
      <4>1. r \in Seq(Buffers) /\ Len(r) = n - out /\ \A i \in 1 .. n - out : r[i] = buffers_to_write[out + i]
        BY <2>1, <3>1, SuffixFacts
      <4> HIDE DEF r, n
      <4> QED
        BY <2>1, <3>1, <4>1
    <3>2. CASE out > n
      BY <2>1, <3>2
    <3> QED
      BY <2>1, <3>1, <3>2
  <2> HIDE DEF r, n, m, N
  <2>4. /\ Len(roles) = m + Len(r) /\ \A i \in 1 .. m : roles[i] = buffers_[i]
        /\ \A i \in 1 .. Len(r) : roles[m + i] = r[i]
    BY <2>1, <2>3, ConcatFacts DEF m
  <2> HIDE DEF roles
  <2>2a. n \in Nat /\ m \in Nat /\ N = n + m + 1 /\ N \in 1 .. N
    <3>1. \A a, b \in Nat : a + b + 1 \in 1 .. a + b + 1
      OBVIOUS
    <3>2. N = n + m + 1
      BY <2>2
    <3>3. n \in Nat /\ m \in Nat
      BY Zenon, <2>1
    <3> QED
      BY <3>1, <3>2, <3>3
  <2>5. ASSUME NEW i \in 1 .. Len(roles)
        PROVE  at(i) \in 1 .. N /\ at(i) # N /\ roles[i] = Chain[at(i)]
    <3>1. Len(r) \in Nat
      BY <2>3
    <3>2. CASE i \in 1 .. m
      <4>1. n + i \in 1 .. N /\ n + i # N
        <5>1. \A a, b \in Nat : \A k \in 1 .. b : a + k \in 1 .. a + b + 1 /\ a + k # a + b + 1
          OBVIOUS
        <5> QED
          BY <2>2a, <3>2, <5>1
      <4>2. roles[i] = buffers_[i]
        BY <2>4, <3>2
      <4>3. Chain[n + i] = buffers_[i]
        BY <2>2, <3>2
      <4>4. at(i) = n + i
        BY Zenon, <3>2
      <4> HIDE DEF at
      <4> QED
        BY <4>1, <4>2, <4>3, <4>4
    <3>3. CASE i \notin 1 .. m
      <4>1. i - m \in 1 .. Len(r) /\ i = m + (i - m)
        BY <2>1, <2>4, <3>1, <3>3
      <4>2. roles[i] = r[i - m] /\ out + (i - m) \in 1 .. n /\ r[i - m] = buffers_to_write[out + (i - m)]
        BY <2>3, <2>4, <4>1
      <4>3. at(i) = out + (i - m)
        <5>1. out \in Nat /\ m \in Nat /\ i \in Nat
          BY <2>1, <2>2a, <2>4, <3>1
        <5>2. at(i) = out + i - m
          BY <3>3
        <5> HIDE DEF at
        <5> QED
          BY Zenon, <5>1, <5>2
      <4>4. Chain[out + (i - m)] = buffers_to_write[out + (i - m)]
        BY <2>2, <4>2, Zenon
      <4>5. \A a \in 1 .. n : a \in 1 .. N /\ a # N
        BY <2>2a
      <4> HIDE DEF at
      <4> QED
        BY Zenon, <4>2, <4>3, <4>4, <4>5
    <3> QED
      BY <3>2, <3>3
  <2>6. ASSUME NEW i \in 1 .. Len(roles), NEW j \in 1 .. Len(roles), i # j
        PROVE  roles[i] # roles[j]
    <3>1. at(i) # at(j)
      <4>1. Len(r) \in Nat
        BY <2>3
      <4>2. \A k \in 1 .. Len(roles) : k \notin 1 .. m => k - m \in 1 .. Len(r)
        BY <2>1, <2>4, <4>1
      <4>3. \A k \in 1 .. Len(roles) : k \notin 1 .. m => out + (k - m) \in 1 .. n
        BY <2>3, <4>2
      <4> QED
        BY <2>1, <2>4, <2>6, <4>1, <4>3
    <3> HIDE DEF at
    <3>2. /\ at(i) \in 1 .. N /\ roles[i] = Chain[at(i)]
          /\ at(j) \in 1 .. N /\ roles[j] = Chain[at(j)]
      BY Zenon, <2>5
    <3>3. Chain[at(i)] # Chain[at(j)]
      BY Zenon, <2>0, <3>1, <3>2 DEF Roles, N
    <3> QED
      BY Zenon, <3>2, <3>3
  <2>7. ASSUME NEW i \in 1 .. Len(roles) PROVE roles[i] \notin {current_, next_, tmp1}
    <3> HIDE DEF at
    <3>1. at(i) \in 1 .. N /\ at(i) # N /\ roles[i] = Chain[at(i)]
      BY Zenon, <2>5
    <3>2. Chain[at(i)] # Chain[N] /\ Chain[at(i)] # next_ /\ Chain[at(i)] # tmp1
      BY <2>0, <2>2a, <3>1 DEF Roles, N
    <3>3. Chain[N] = current_
      BY <2>2
    <3> QED
      BY Zenon, <3>1, <3>2, <3>3
  <2>8. current_ \notin {next_, tmp1} /\ (next_ = tmp1 => next_ = NULL)
    <3>1. Chain[N] = current_
      BY Zenon, <2>2
    <3> QED
      BY <2>0, <2>2a, <3>1 DEF Roles, N
  <2> QED
    BY Zenon, <2>6, <2>7, <2>8 DEF NoAlias, roles, r, n
<1> QED
  BY <1>1, Inductive, PTL

(* The assertions of LogTheadRoutine hold, and a buffer is empty before it  *)
(* is filled again.                                                         *)
THEOREM RecycleSafeAlways == Spec => []RecycleSafe
<1>1. IInv => RecycleSafe
  <2> SUFFICES ASSUME IInv PROVE RecycleSafe
    OBVIOUS
  <2>1. TypeOK /\ Phases /\ Roles
    BY DEF IInv
  <2>2. tmp1 # NULL => tmp1 \in Buffers /\ used[tmp1] = 0
    BY Zenon, <2>1 DEF TypeOK, Roles
  <2>3. next_ # NULL => next_ \in Buffers /\ used[next_] = 0
    BY Zenon, <2>1 DEF TypeOK, Roles
  <2> QED
    BY <2>1, <2>2, <2>3 DEF RecycleSafe, Phases
<1> QED
  BY <1>1, Inductive, PTL

(* Flush(true) does not return before what was written earlier is output.   *)
THEOREM StopFlushesAlways == Spec => []StopFlushes
<1>1. IInv => StopFlushes
  BY DEF IInv, Consecutive, StopFlushes
<1> QED
  BY <1>1, Inductive, PTL
=============================================================================

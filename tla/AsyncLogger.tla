---------------------------- MODULE AsyncLogger -----------------------------
(***************************************************************************)
(* The asynchronous logger (logger/src/async_logger.cc): threads append    *)
(* messages to the buffer current_; a full buffer goes to buffers_ and is  *)
(* replaced by next_, or by a new one; the log thread takes the full       *)
(* buffers, hands them to output_ and recycles one of them as the next     *)
(* next_.  Flush(true) stops the log thread, which outputs what is left.   *)
(*                                                                         *)
(* Buffers have identities, because the code moves pointers to them and    *)
(* clears them for reuse.  Messages are numbered in the order in which     *)
(* Write took the mutex, and have a length.  A section of code under       *)
(* mutex_ is one step.  The callers do what main does: Init, SetOutput,    *)
(* then writes, and Flush(true); other threads may still write meanwhile   *)
(* and later.                                                              *)
(*                                                                         *)
(* The operators whose names begin with Bug are plausible errors in the    *)
(* one that follows them; each makes a property below fail.                *)
(***************************************************************************)
EXTENDS Integers, Sequences, FiniteSets

CONSTANTS
  Buffers,       \* the buffers that may be allocated
  b1, b2, b3,    \* the ones that the constructor and the log thread start with
  kBufferSize,
  Lens,          \* lengths of messages
  MaxWritten,    \* bound: calls of Write
  NULL

ASSUME BufferSizeAssumption == kBufferSize \in Nat
(* kMaxLogLength, with which LogFormatter bounds a message, is less than     *)
(* kBufferSize, and a message has at least its header.                       *)
ASSUME LensAssumption == Lens \subseteq 1 .. kBufferSize
ASSUME NULLAssumption == NULL \notin Buffers
ASSUME BuffersAssumption ==
  /\ {b1, b2, b3} \subseteq Buffers /\ b1 # b2 /\ b1 # b3 /\ b2 # b3
  /\ MaxWritten \in Nat
  /\ IsFiniteSet(Buffers) /\ Cardinality(Buffers) > MaxWritten + 3

VARIABLES
  current_, next_, buffers_, running_, output_,   \* members of AsyncLogger
  contents, used,              \* of each buffer: the messages in it, used_
  pc, tmp1, buffers_to_write,  \* the log thread and its locals
  out,                         \* how many of buffers_to_write it has output
  main,                        \* where the main thread is
  written, emitted,            \* history: messages written, and output
  stopAt                       \* history: written when Flush(true) was called

members == <<current_, next_, buffers_>>
logVars == <<pc, tmp1, buffers_to_write, out>>
vars == <<members, running_, output_, contents, used, logVars, main, written, emitted,
          stopAt>>

Elements(s) == {s[i] : i \in 1 .. Len(s)}

(* The buffers that some shared_ptr keeps. *)
InUse ==
  ({current_, next_, tmp1} \cup Elements(buffers_) \cup Elements(buffers_to_write)) \ {NULL}

NewBuffer == CHOOSE b \in Buffers : b \notin InUse

Available(b) == kBufferSize - used[b]

(* b, after a constructor or ClearUsed when it starts empty, gets message    *)
(* number written + 1.                                                       *)
AppendTo(b, len) ==
  /\ contents' = [contents EXCEPT ![b] = Append(@, written + 1)]
  /\ used' = [used EXCEPT ![b] = @ + len]

-----------------------------------------------------------------------------
(* The threads that log, and main.                                           *)
BugWrite(len) ==
  /\ main \notin {"start", "started"} /\ pc # "flushing" /\ written < MaxWritten
  /\ written' = written + 1
  /\ \/ /\ Available(current_) >= len
        /\ AppendTo(current_, len)
        /\ UNCHANGED members
     \/ /\ Available(current_) < len
        /\ buffers_' = Append(buffers_, current_)
        /\ current_' = IF next_ # NULL THEN next_ ELSE NewBuffer
        /\ AppendTo(current_', len)
        /\ UNCHANGED next_
  /\ UNCHANGED <<running_, output_, logVars, main, emitted, stopAt>>

Write(len) ==
  /\ main \notin {"start", "started"} /\ pc # "flushing" /\ written < MaxWritten
  /\ written' = written + 1
  /\ \/ /\ Available(current_) >= len
        /\ AppendTo(current_, len)
        /\ UNCHANGED members
     \/ /\ Available(current_) < len
        /\ buffers_' = Append(buffers_, current_)
        /\ current_' = IF next_ # NULL THEN next_ ELSE NewBuffer
        /\ next_' = NULL
        /\ AppendTo(current_', len)
  /\ UNCHANGED <<running_, output_, logVars, main, emitted, stopAt>>

InitLogger ==
  /\ main = "start" /\ main' = "started"
  /\ pc' = "loop"
  /\ UNCHANGED <<members, running_, output_, contents, used, tmp1,
                 buffers_to_write, out, written, emitted, stopAt>>

SetOutput ==
  /\ main = "started" /\ main' = "run"
  /\ output_' = TRUE
  /\ UNCHANGED <<members, running_, contents, used, logVars, written, emitted, stopAt>>

(* Flush(true): clear the flag, notify, join.  (Flush(false) only notifies,  *)
(* and the log thread wakes up by itself in any case.)                       *)
FlushStop ==
  /\ main = "run" /\ main' = "join"
  /\ running_' = FALSE
  /\ stopAt' = written
  /\ UNCHANGED <<members, output_, contents, used, logVars, written, emitted>>

Join ==
  /\ main = "join" /\ pc = "done"
  /\ main' = "joined"
  /\ UNCHANGED <<members, running_, output_, contents, used, logVars, written, emitted, stopAt>>

-----------------------------------------------------------------------------
(* LogTheadRoutine.                                                          *)
Loop ==
  /\ pc = "loop"
  /\ pc' = IF running_ THEN "lock" ELSE "flush"
  /\ UNCHANGED <<members, running_, output_, contents, used, tmp1,
                 buffers_to_write, out, main, written, emitted, stopAt>>

BugNothingLogged == buffers_ = <<>>

NothingLogged == used[current_] = 0 /\ buffers_ = <<>>

(* The section under the mutex.  wait_for returns once a second and the      *)
(* condition is tested again, so the thread is past the wait as soon as it   *)
(* is scheduled with something logged.                                       *)
BugTake ==
  /\ pc = "lock" /\ ~NothingLogged
  /\ buffers_to_write' = buffers_
  /\ buffers_' = <<>>
  /\ next_' = tmp1 /\ tmp1' = NULL
  /\ out' = 0
  /\ pc' = "write"
  /\ UNCHANGED <<current_, running_, output_, contents, used, main, written, emitted, stopAt>>

Take ==
  /\ pc = "lock" /\ ~NothingLogged
  /\ buffers_to_write' = buffers_
  /\ buffers_' = <<>>
  /\ next_' = IF next_ = NULL THEN tmp1 ELSE next_
  /\ tmp1' = IF next_ = NULL THEN NULL ELSE tmp1
  /\ out' = 0
  /\ pc' = "write"
  /\ UNCHANGED <<current_, running_, output_, contents, used, main, written, emitted, stopAt>>

(* One call of output_, if it is set. *)
BugOutput ==
  /\ pc = "write" /\ out < Len(buffers_to_write)
  /\ out' = out + 1
  /\ emitted' = IF ~output_ THEN emitted \o contents[buffers_to_write[out + 1]] ELSE emitted
  /\ UNCHANGED <<members, running_, output_, contents, used, pc, tmp1,
                 buffers_to_write, main, written, stopAt>>

Output ==
  /\ pc = "write" /\ out < Len(buffers_to_write)
  /\ out' = out + 1
  /\ emitted' = IF output_ THEN emitted \o contents[buffers_to_write[out + 1]] ELSE emitted
  /\ UNCHANGED <<members, running_, output_, contents, used, pc, tmp1,
                 buffers_to_write, main, written, stopAt>>

(* The first buffer becomes tmp1 again if tmp1 was given away; the others    *)
(* are freed.                                                                *)
BugRecycle ==
  /\ pc = "write" /\ out = Len(buffers_to_write)
  /\ tmp1' = IF tmp1 = NULL THEN buffers_to_write[1] ELSE tmp1
  /\ contents' = [b \in Buffers |->
                    IF b \in Elements(buffers_to_write) \ {tmp1'} THEN <<>> ELSE contents[b]]
  /\ used' = [b \in Buffers |->
                    IF b \in Elements(buffers_to_write) \ {tmp1'} THEN 0 ELSE used[b]]
  /\ buffers_to_write' = <<>>
  /\ out' = 0
  /\ pc' = "loop"
  /\ UNCHANGED <<members, running_, output_, main, written, emitted, stopAt>>

Recycle ==
  /\ pc = "write" /\ out = Len(buffers_to_write)
  /\ tmp1' = IF tmp1 = NULL THEN buffers_to_write[1] ELSE tmp1
  /\ contents' = [b \in Buffers |->
                    IF b \in Elements(buffers_to_write) THEN <<>> ELSE contents[b]]
  /\ used' = [b \in Buffers |-> IF b \in Elements(buffers_to_write) THEN 0 ELSE used[b]]
  /\ buffers_to_write' = <<>>
  /\ out' = 0
  /\ pc' = "loop"
  /\ UNCHANGED <<members, running_, output_, main, written, emitted, stopAt>>

(* The final flush, with the mutex held until the thread ends: buffers_,     *)
(* current_ and next_, each by one call of output_.  Buffers that are empty  *)
(* are skipped.  An output_ that is not set would throw.                     *)
FlushList == buffers_ \o <<current_>> \o (IF next_ # NULL THEN <<next_>> ELSE <<>>)

LockFlush ==
  /\ pc = "flush"
  /\ pc' = "flushing"
  /\ UNCHANGED <<members, running_, output_, contents, used, tmp1,
                 buffers_to_write, out, main, written, emitted, stopAt>>

BugFinalOutput ==
  /\ pc = "flushing"
  /\ \/ /\ out < Len(buffers_)
        /\ out' = out + 1
        /\ emitted' = emitted \o contents[FlushList[out + 1]]
        /\ UNCHANGED pc
     \/ out = Len(buffers_) /\ pc' = "done" /\ UNCHANGED <<out, emitted>>
  /\ UNCHANGED <<members, running_, output_, contents, used, tmp1,
                 buffers_to_write, main, written, stopAt>>

FinalOutput ==
  /\ pc = "flushing"
  /\ \/ /\ out < Len(FlushList)
        /\ out' = out + 1
        /\ emitted' = emitted \o contents[FlushList[out + 1]]
        /\ pc' = IF output_ THEN pc ELSE "aborted"
     \/ out = Len(FlushList) /\ pc' = "done" /\ UNCHANGED <<out, emitted>>
  /\ UNCHANGED <<members, running_, output_, contents, used, tmp1,
                 buffers_to_write, main, written, stopAt>>

-----------------------------------------------------------------------------
Init ==
  /\ current_ = b1 /\ next_ = b2 /\ tmp1 = b3
  /\ buffers_ = <<>> /\ buffers_to_write = <<>> /\ out = 0
  /\ running_ = TRUE /\ output_ = FALSE
  /\ contents = [b \in Buffers |-> <<>>] /\ used = [b \in Buffers |-> 0]
  /\ pc = "off" /\ main = "start"
  /\ written = 0 /\ emitted = <<>> /\ stopAt = 0

LogThread == Loop \/ Take \/ Output \/ Recycle \/ LockFlush \/ FinalOutput

Next ==
  \/ InitLogger \/ SetOutput \/ FlushStop \/ Join
  \/ \E len \in Lens : Write(len)
  \/ LogThread

Spec == Init /\ [][Next]_vars

(* The log thread runs when it can, and join returns. *)
FairSpec == Spec /\ WF_vars(LogThread) /\ WF_vars(Join)

-----------------------------------------------------------------------------
TypeOK ==
  /\ current_ \in Buffers /\ next_ \in Buffers \cup {NULL} /\ tmp1 \in Buffers \cup {NULL}
  /\ buffers_ \in Seq(Buffers) /\ buffers_to_write \in Seq(Buffers)
  /\ running_ \in BOOLEAN /\ output_ \in BOOLEAN
  /\ contents \in [Buffers -> Seq(Nat)] /\ used \in [Buffers -> 0 .. kBufferSize]
  /\ pc \in {"off", "loop", "lock", "write", "flush", "flushing", "done", "aborted"}
  /\ main \in {"start", "started", "run", "join", "joined"}
  /\ out \in Nat /\ written \in Nat /\ emitted \in Seq(Nat) /\ stopAt \in Nat

(* The buffers between Write and output_, oldest first. *)
Pending ==
  IF pc \in {"flushing", "done"}
  THEN SubSeq(buffers_ \o <<current_>>, out + 1, Len(buffers_) + 1)
  ELSE SubSeq(buffers_to_write, out + 1, Len(buffers_to_write)) \o buffers_ \o <<current_>>

Last(s, default) == IF s = <<>> THEN default ELSE s[Len(s)]

(* output_ has been given the messages 1, 2, 3 ... once each and in order,   *)
(* and the rest are in the pending buffers in order: nothing is lost, given  *)
(* twice or overtaken when buffers are swapped, cleared and reused.          *)
InOrder ==
  /\ \A i \in 1 .. Len(emitted) : emitted[i] = i
  /\ pc # "done" =>
       \A i \in 1 .. Len(Pending) :
         LET c == contents[Pending[i]]
             before == IF i = 1 THEN Len(emitted) ELSE Last(contents[Pending[i - 1]], 0)
         IN  /\ \A j \in 1 .. Len(c) : c[j] = before + j
             /\ i < Len(Pending) => c # <<>>
             /\ i = Len(Pending) => before + Len(c) = written

(* No buffer has two roles, so clearing or filling one never touches another *)
(* (the pointers of buffers_to_write that are output already do not count).  *)
NoAlias ==
  LET roles == buffers_ \o SubSeq(buffers_to_write, out + 1, Len(buffers_to_write))
  IN  /\ \A i, j \in 1 .. Len(roles) : i # j => roles[i] # roles[j]
      /\ \A i \in 1 .. Len(roles) : roles[i] \notin {current_, next_, tmp1}
      /\ current_ \notin {next_, tmp1} /\ (next_ = tmp1 => next_ = NULL)

(* The assertions of LogTheadRoutine: when tmp1 was given away there is a    *)
(* buffer to take in its place, and tmp1 is there and empty when the loop    *)
(* starts again.  next_ is empty whenever it becomes current_.               *)
RecycleSafe ==
  /\ pc = "write" /\ tmp1 = NULL => buffers_to_write # <<>>
  /\ pc \in {"loop", "lock"} => tmp1 # NULL
  /\ tmp1 # NULL => used[tmp1] = 0
  /\ next_ # NULL => used[next_] = 0

(* When Flush(true) returns, everything that was written before it was       *)
(* called has been output.                                                   *)
StopFlushes == main = "joined" => Len(emitted) >= stopAt

(* Flush(true) returns, if anything was ever written.  (Otherwise the log    *)
(* thread waits for ever in the inner loop, which does not look at           *)
(* running_.)                                                                *)
StopReturns == (main = "join" /\ written > 0) ~> (main = "joined")

(* A message in a full buffer is output, without any help from Flush, when   *)
(* the log thread has not been told to stop before the buffer was full.      *)
FullOutput ==
  \A n \in 1 .. MaxWritten :
    (running_ /\ \E i \in 1 .. Len(buffers_) : n \in Elements(contents[buffers_[i]]))
      ~> (n \in Elements(emitted))
=============================================================================

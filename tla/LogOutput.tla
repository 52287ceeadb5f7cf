------------------------------ MODULE LogOutput ------------------------------
(***************************************************************************)
(* Rotating log files: LogCFile and LogFdFile of LogFiles, and LogFile and *)
(* LogMMapFile of logger behind LogFormatter and SyncLogger, with several  *)
(* threads that append lines. A file is a sequence of the pieces written   *)
(* to it, <<thread, number of its line, bytes>>; it is named by the time   *)
(* it was opened at, and opening a name again continues the file. halt     *)
(* says how a run ended: a failed assert, or a copy past the mapping.      *)
(***************************************************************************)
EXTENDS Integers, Sequences

CONSTANTS
  Threads,
  Kinds,        \* the classes a run may use: "cfile", "fd", "file", "mmap"
  RotateSize,   \* rotate_size_
  MaxLog,       \* kMaxLogLength
  Headers, Bodies,  \* lengths of the header and of the text of a line
  MaxLines,     \* bound on the lines of each thread
  MaxTime       \* bound on the clock

VARIABLES
  obj,   \* kind; files; name: of the open file; first: the pieces in it when it was opened;
         \* written: bytes_written_; mem: pieces in the mapping; lock; pc, line: of Append,
         \* by thread; now; open; halt
  ref    \* lines: of each thread so far; wrote: pieces in the order they were written

vars == <<obj, ref>>

Init ==
  /\ \E kind \in Kinds :
       obj = [kind |-> kind, files |-> <<<<>>>>, name |-> 1, first |-> 0, written |-> 0, mem |-> <<>>,
              lock |-> {}, pc |-> [t \in Threads |-> "idle"], line |-> [t \in Threads |-> <<t, 0, 0>>],
              now |-> 1, open |-> TRUE, halt |-> "no"]
  /\ ref = [lines |-> [t \in Threads |-> 0], wrote |-> <<>>]

\* LogFormatter: the stream has room for what the header leaves, less the newline.
FormatLine(h, b) == LET room == MaxLog - h - 1 IN h + (IF b < room THEN b ELSE room) + 1

LineLength(h, b) == IF obj.kind \in {"file", "mmap"} THEN FormatLine(h, b) ELSE h + b + 1

\* LOG_IF and LogFormatter in thread t; SyncLogger::NonLockWrite drops a line over the limit.
Log(t, h, b) ==
  /\ obj.halt = "no" /\ obj.open
  /\ obj.pc[t] = "idle" /\ ref.lines[t] < MaxLines
  /\ LET len == LineLength(h, b)
         drop == obj.kind \in {"file", "mmap"} /\ len > MaxLog
     IN obj' = [obj EXCEPT !.line[t] = <<t, ref.lines[t] + 1, len>>, !.pc[t] = IF drop THEN "idle" ELSE "append"]
  /\ ref' = [ref EXCEPT !.lines[t] = @ + 1]

\* The name is the prefix and the time.
MakeFilename(o) == o.now

OpenFile(o) ==
  LET name == MakeFilename(o)
      files == [n \in 1 .. name |-> IF n <= Len(o.files) THEN o.files[n] ELSE <<>>]
  IN [o EXCEPT !.files = files, !.name = name, !.first = Len(files[name])]

MakeMMap(o) == [o EXCEPT !.mem = <<>>]

RotateFile(o) == [(IF o.kind = "mmap" THEN MakeMMap(OpenFile(o)) ELSE OpenFile(o)) EXCEPT !.written = 0]

\* The tests for a rotation: of LogCFile and LogFdFile before a write, of LogMMapFile before
\* and of LogFile after it.
Reached(o) == o.kind \in {"cfile", "fd"} /\ o.written >= RotateSize
NoRoom(o, len) == o.kind = "mmap" /\ o.written + len > RotateSize
Exceeded(o) == o.kind = "file" /\ o.written > RotateSize

\* Mutant: Append without the mutex.
LockNothing(t) ==
  /\ obj.halt = "no" /\ obj.pc[t] = "append"
  /\ obj' = LET o == [obj EXCEPT !.pc[t] = "write"] IN IF Reached(o) \/ NoRoom(o, o.line[t][3]) THEN RotateFile(o) ELSE o
  /\ UNCHANGED ref

\* scoped_lock of Append, and the test before the write.
Lock(t) ==
  /\ obj.halt = "no" /\ obj.pc[t] = "append" /\ obj.lock = {}
  /\ obj' = LET o == [obj EXCEPT !.lock = {t}, !.pc[t] = "write"]
            IN IF Reached(o) \/ NoRoom(o, o.line[t][3]) THEN RotateFile(o) ELSE o
  /\ UNCHANGED ref
\* write, fwrite or memcpy. A write that fails leaves n bytes of the line in the file; LogFile
\* asserts that it does not, and a line longer than a mapping does not fit in a new one.
Write(t, n) ==
  /\ obj.halt = "no" /\ obj.pc[t] = "write"
  /\ LET line == obj.line[t]
         piece == <<line[1], line[2], n>>
         o == [obj EXCEPT !.pc[t] = "count", !.line[t] = piece]
     IN IF obj.kind = "mmap"
        THEN /\ n = line[3]
             /\ obj' = IF obj.written + n > RotateSize THEN [obj EXCEPT !.halt = "overrun"]
                       ELSE [o EXCEPT !.mem = Append(@, piece)]
             /\ UNCHANGED ref
        ELSE /\ n <= line[3]
             /\ obj' = [o EXCEPT !.files[obj.name] = IF n = 0 THEN @ ELSE Append(@, piece),
                                 !.halt = IF n < line[3] /\ obj.kind = "file" THEN "assert" ELSE @]
             /\ ref' = [ref EXCEPT !.wrote = IF n = 0 THEN @ ELSE Append(@, piece)]

\* bytes_written_ += bytes, the test of LogFile after the write, and the unlock.
Count(t) ==
  /\ obj.halt = "no" /\ obj.pc[t] = "count"
  /\ obj' = LET o == [obj EXCEPT !.written = @ + obj.line[t][3], !.line[t] = <<t, 0, 0>>, !.pc[t] = "idle", !.lock = {}]
            IN IF Exceeded(o) THEN RotateFile(o) ELSE o
  /\ UNCHANGED ref

\* The destructor.
Close ==
  /\ obj.halt = "no" /\ obj.open /\ \A t \in Threads : obj.pc[t] = "idle"
  /\ obj' = [obj EXCEPT !.open = FALSE, !.mem = <<>>]
  /\ UNCHANGED ref

Tick ==
  /\ obj.halt = "no" /\ obj.open /\ obj.now < MaxTime
  /\ obj' = [obj EXCEPT !.now = @ + 1]
  /\ UNCHANGED ref

Next ==
  \/ Tick
  \/ Close
  \/ \E t \in Threads :
       \/ Lock(t) \/ Count(t)
       \/ \E h \in Headers, b \in Bodies : Log(t, h, b)
       \/ \E n \in {0, 1, obj.line[t][3]} : Write(t, n)

Spec == Init /\ [][Next]_vars

-----------------------------------------------------------------------------
\* The files one after the other are s: file n holds what follows place start[n] of it.
Concatenated(files, s) ==
  \E start \in [1 .. Len(files) + 1 -> 0 .. Len(s)] :
    /\ start[1] = 0 /\ start[Len(files) + 1] = Len(s)
    /\ \A n \in 1 .. Len(files) : /\ start[n + 1] = start[n] + Len(files[n])
                                /\ \A i \in 1 .. Len(files[n]) : files[n][i] = s[start[n] + i]

Bytes(pieces) ==
  LET Sum[i \in 0 .. Len(pieces)] == IF i = 0 THEN 0 ELSE Sum[i - 1] + pieces[i][3] IN Sum[Len(pieces)]

\* What the destination took since it was opened.
Taken(o) ==
  IF o.kind = "mmap" THEN o.mem ELSE SubSeq(o.files[o.name], o.first + 1, Len(o.files[o.name]))

\* The files, read in the order of their names, hold what was written, in order, also when
\* two rotations fall on one name; a line is never in two pieces, and the lines of a thread
\* are in its order. bytes_written_ is what
\* went into the open file whenever nobody holds the lock, and a file takes at most one
\* line more than rotate_size_. A mapped file never holds a line, since its mapping is
\* anonymous: the lines since the last rotation are in memory only.
Agrees ==
  LET wrote == ref.wrote
      Longer(size) == \E h \in Headers, b \in Bodies : h + b + 1 >= size
  IN /\ Concatenated(obj.files, wrote)
     /\ \A i, j \in DOMAIN wrote : i < j /\ wrote[i][1] = wrote[j][1] => wrote[i][2] < wrote[j][2]
     /\ obj.kind = "mmap" => wrote = <<>>
     /\ obj.lock = {} /\ obj.open => obj.written = Bytes(Taken(obj))
     /\ obj.kind # "mmap" /\ obj.written > RotateSize => Longer(obj.written - RotateSize)
     /\ obj.halt = "overrun" => Longer(RotateSize + 1)
=============================================================================

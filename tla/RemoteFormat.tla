----------------------------- MODULE RemoteFormat -----------------------------
(***************************************************************************)
(* RemoteClangFormat: clients send the text of a file and their style file *)
(* over TCP, the server formats it and sends it back, and the client puts  *)
(* it in the place of the lines that were asked for. A stream delivers its *)
(* bytes in order and in pieces of any length, so a message in a stream is *)
(* the number of its bytes. A line is 0 or the style it was formatted      *)
(* with, which is the number of the client.                                *)
(***************************************************************************)
EXTENDS Integers, Sequences

CONSTANTS
  Clients, Ranges,   \* a range is <<Start, End>> of -r, or <<>>
  Lines, MaxFiles,   \* lines of a file; files on a command line
  Pickle             \* bytes of a pickled request

VARIABLES
  obj,   \* up: the server runs; cl: for each client its state, its connection and the
         \* server's Echo of the connection
  ref    \* crashed: the server stopped once; cut: clients whose reply it left unfinished

vars == <<obj, ref>>

Prefix == 4   \* of struct.pack('I', ...)
None == -1    \* of Echo._len

\* One turn of the loop in Format, with line i: numbers of lines stand for their texts.
Turn(range, split, i) ==
  IF range # <<>> /\ i < range[1] THEN [split EXCEPT !.head = Append(@, i)]
  ELSE IF range # <<>> /\ range[2] < i THEN [split EXCEPT !.tail = Append(@, i)]
  ELSE [split EXCEPT !.content = Append(@, i)]

Split(range) ==
  LET Upto[i \in 0 .. Lines] ==
        IF i = 0 THEN [head |-> <<>>, content |-> <<>>, tail |-> <<>>] ELSE Turn(range, Upto[i - 1], i)
  IN Upto[Lines]

\* head + reply + tail
Joined(file, range, reply) ==
  LET Texts(numbers) == [i \in 1 .. Len(numbers) |-> file[numbers[i]]]
  IN Texts(Split(range).head) \o reply \o Texts(Split(range).tail)

Client(range) ==
  [pc |-> "file", file |-> 1, range |-> range, files |-> [f \in 1 .. MaxFiles |-> [i \in 1 .. Lines |-> 0]],
   togo |-> 0, wire |-> 0, len |-> None, data |-> 0, reply |-> <<>>, back |-> 0, closed |-> FALSE, left |-> 0]

Init ==
  /\ \E range \in [Clients -> Ranges] :
       obj = [up |-> TRUE, cl |-> [c \in Clients |-> Client(range[c])]]
  /\ ref = [crashed |-> FALSE, cut |-> {}]

Becomes(c, r) == obj' = [obj EXCEPT !.cl[c] = r] /\ UNCHANGED ref

\* sock.connect and the send of the length; with no server the exception ends the client.
Connect(c) ==
  LET r == obj.cl[c]
  IN /\ r.pc = "file"
     /\ Becomes(c, IF obj.up
                   THEN [r EXCEPT !.pc = "send", !.togo = Pickle, !.wire = Prefix, !.len = None, !.data = 0,
                                  !.reply = <<>>, !.back = 0, !.closed = FALSE]
                   ELSE [r EXCEPT !.pc = "error"])

\* One turn of the loop around sock.send.
Send(c) ==
  LET r == obj.cl[c]
  IN /\ r.pc = "send"
     /\ \/ r.closed /\ Becomes(c, [r EXCEPT !.pc = "error"])
        \/ ~r.closed /\ \E k \in 1 .. r.togo :
             Becomes(c, [r EXCEPT !.togo = @ - k, !.wire = @ + k, !.pc = IF k = r.togo THEN "size" ELSE "send"])

\* sock.recv(4): struct.unpack raises for anything shorter, and for the end of the stream.
RecvSize(c) ==
  LET r == obj.cl[c]
  IN /\ r.pc = "size"
     /\ \/ \E k \in 1 .. Prefix : k <= r.back /\
             Becomes(c, [r EXCEPT !.back = @ - k, !.left = Len(r.reply), !.pc = IF k = Prefix THEN "read" ELSE "error"])
        \/ r.closed /\ r.back = 0 /\ Becomes(c, [r EXCEPT !.pc = "error"])

\* sock.recv(reply_size): at the end of the stream it returns nothing, and the loop goes round
\* with its state unchanged.
Recv(c) ==
  LET r == obj.cl[c]
  IN /\ r.pc = "read"
     /\ \E k \in 1 .. r.left : k <= r.back /\ Becomes(c, [r EXCEPT !.back = @ - k, !.left = @ - k])

\* The loop ends; the file is written and the next one of the command line is opened.
WriteReply(c) ==
  LET r == obj.cl[c]
  IN /\ r.pc = "read" /\ r.left = 0
     /\ Becomes(c, [r EXCEPT !.files[r.file] = Joined(@, r.range, r.reply), !.file = @ + 1,
                             !.pc = IF r.file = MaxFiles THEN "done" ELSE "file"])

\* settimeout(3): a call that has nothing to return after three seconds.
Timeout(c) ==
  LET r == obj.cl[c]
  IN /\ r.pc \in {"send", "size", "read"} /\ ~r.closed
     /\ r.pc = "read" => r.left > 0
     /\ r.pc # "send" => r.back = 0
     /\ Becomes(c, [r EXCEPT !.pc = "exit"])

\* The request of client c is complete. The reactor waits for clang-format, so that it reads the
\* style file of this request; or it cannot be started, and the exception closes the connection.
OnMessage(r, c) ==
  LET reply == [i \in 1 .. Len(Split(r.range).content) |-> c]
  IN \/ obj' = [obj EXCEPT !.cl[c] = [r EXCEPT !.reply = reply, !.back = Prefix + Len(reply), !.closed = TRUE]]
     \/ obj' = [obj EXCEPT !.cl[c] = [r EXCEPT !.closed = TRUE]]

\* Echo.dataReceived with the next k bytes.
DataReceived(c) ==
  LET Parsed(r) ==
        IF r.len = None /\ r.data >= Prefix THEN [r EXCEPT !.len = Pickle, !.data = @ - Prefix] ELSE r
      Arrived(r, k) == [r EXCEPT !.wire = @ - k, !.data = @ + k]
      Handled(raw, r) ==
        IF raw.data >= Prefix /\ r.len \notin {None, 0} /\ r.data = r.len
        THEN OnMessage(r, c) ELSE obj' = [obj EXCEPT !.cl[c] = r]
      Received(r) == Handled(r, Parsed(r))
  IN /\ obj.up /\ ~obj.cl[c].closed
     /\ \E k \in 1 .. obj.cl[c].wire : Received(Arrived(obj.cl[c], k))
     /\ UNCHANGED ref

\* The server process ends, with it its connections and what it had not put into the stream yet.
Crash ==
  /\ obj.up /\ ~ref.crashed
  /\ \E kept \in [Clients -> 0 .. Prefix + Lines] :
       /\ \A c \in Clients : kept[c] <= obj.cl[c].back
       /\ obj' = [up |-> FALSE, cl |-> [c \in Clients |-> [obj.cl[c] EXCEPT !.closed = TRUE, !.back = kept[c]]]]
       /\ ref' = [crashed |-> TRUE, cut |-> {c \in Clients : kept[c] < obj.cl[c].back}]

Restart == ~obj.up /\ obj' = [obj EXCEPT !.up = TRUE] /\ UNCHANGED ref

Formats(c) == Connect(c) \/ Send(c) \/ RecvSize(c) \/ Recv(c) \/ WriteReply(c) \/ Timeout(c)

Next == Crash \/ Restart \/ \E c \in Clients : Formats(c) \/ DataReceived(c)

Spec == Init /\ [][Next]_vars /\ \A c \in Clients : WF_vars(Formats(c))

-----------------------------------------------------------------------------
\* What -r asks for: the lines of the range in the client's style, the others as they were.
Expected(c) ==
  LET r == obj.cl[c]
  IN [i \in 1 .. Lines |-> IF r.range = <<>> \/ (r.range[1] <= i /\ i <= r.range[2]) THEN c ELSE 0]

\* The files before the one at work are as asked for, whatever pieces the streams came in and
\* whatever failed; that one and the ones after it are untouched.
Agrees ==
  \A c \in Clients : \A f \in 1 .. MaxFiles :
    obj.cl[c].files[f] = IF f < obj.cl[c].file THEN Expected(c) ELSE [i \in 1 .. Lines |-> 0]

\* A client has not ended, or has; one whose reply was cut short reads the end of its stream
\* for ever.
Calling(c) == obj.cl[c].pc \in {"file", "send", "size", "read"}
Ended(c) == ~Calling(c) \/ c \in ref.cut
=============================================================================

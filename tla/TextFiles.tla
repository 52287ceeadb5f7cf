------------------------------ MODULE TextFiles ------------------------------
(***************************************************************************)
(* Programs that write text files for others: the log files of LogFiles    *)
(* and logger, and the files that RemoteClangFormat rewrites.              *)
(***************************************************************************)
EXTENDS Integers, SideBySide

CONSTANTS
  Writers, Kinds, RotateSize, MaxLog, Headers, Bodies, MaxLines, MaxTime,   \* LogOutput
  Clients, Ranges, Lines, MaxFiles, Pickle                                  \* RemoteFormat

ASSUME LogOutputAssumption ==
  /\ Kinds \subseteq {"cfile", "fd", "file", "mmap"}
  /\ RotateSize \in Nat /\ MaxLog \in Nat /\ Headers \subseteq Nat /\ Bodies \subseteq Nat
ASSUME RemoteFormatAssumption ==
  /\ Lines \in Nat /\ MaxFiles \in Nat \ {0} /\ Pickle \in Nat
  /\ \A range \in Ranges : range = <<>> \/ range \in Int \X Int

O == INSTANCE LogOutput WITH Threads <- Writers
F == INSTANCE RemoteFormat

TextFilesInit ==
  \/ kind = "LogOutput" /\ O!Init
  \/ kind = "RemoteFormat" /\ F!Init

TextFilesNext ==
  /\ \/ kind = "LogOutput" /\ O!Next
     \/ kind = "RemoteFormat" /\ F!Next
  /\ UNCHANGED kind

TextFilesSpec == TextFilesInit /\ [][TextFilesNext]_vars

\* LogFiles and logger: whole lines in order, in files of bounded length (LogOutput!Agrees).
\* clang-format-client: a file is formatted where it was asked for or untouched, whatever pieces
\* the stream comes in (RemoteFormat!Agrees).
FilesWhole ==
  /\ kind = "LogOutput" => O!Agrees
  /\ kind = "RemoteFormat" => F!Agrees
=============================================================================

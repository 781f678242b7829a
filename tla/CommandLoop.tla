---------------------------- MODULE CommandLoop ----------------------------
(***************************************************************************)
(* WMIParser: the loop of main (WMIParser.cpp).  ReadCmdFromCin reads a    *)
(* line into a buffer of fixed size, its words say which command it is,    *)
(* and the command is run; when it is over, well or not, the next line is  *)
(* read.  The commands of RepositoryWalk are run here; the others          *)
(* (ConsumerTable, ClassProps, --index, --help) only return.               *)
(***************************************************************************)
EXTENDS RepositoryWalk

CONSTANTS
  CmdSize     \* MAX_PATH: the characters of the buffer, the last one a zero

ASSUME CmdSizeAssumption == CmdSize \in Nat \ {0, 1}

VARIABLES
  lines,      \* what is typed; the input ends after the last
  cmd,        \* how many characters of the line are in the buffer
  inner_argv

loop    == <<lines, cmd, inner_argv>>
allVars == <<vars, loop>>

(* A line is [length, words].                                              *)
LoopInit(typed) ==
  /\ pc = "read"
  /\ lines = typed /\ cmd = 0 /\ inner_argv = <<>>

-----------------------------------------------------------------------------
(* The first loop of ReadCmdFromCin.  At the end of the input getwchar     *)
(* returns WEOF, which is a character like any other.                      *)
ReadChar ==
  /\ pc = "read" /\ cmd < CmdSize - 1
  /\ lines # <<>> => cmd < Head(lines).length
  /\ cmd' = cmd + 1
  /\ UNCHANGED <<vars, lines, inner_argv>>

(* A line break; a line with nothing in it is read over.                   *)
ReadLine ==
  /\ pc = "read" /\ cmd < CmdSize - 1
  /\ lines # <<>> /\ cmd = Head(lines).length
  /\ pc' = IF cmd = 0 THEN "read" ELSE "dispatch"
  /\ inner_argv' = Head(lines).words
  /\ lines' = Tail(lines) /\ cmd' = 0
  /\ UNCHANGED <<input, walk, left, space, object, output>>

(* Mutant: a full buffer ends the line.                                    *)
FillBufferEnds ==
  /\ pc = "read" /\ cmd = CmdSize - 1
  /\ pc' = "dispatch" /\ cmd' = 0
  /\ inner_argv' = IF lines = <<>> THEN <<"">> ELSE Head(lines).words
  /\ lines' = IF lines = <<>> THEN <<>> ELSE Tail(lines)
  /\ UNCHANGED <<input, walk, left, space, object, output>>

(* The buffer is full before a line break was read.  The second loop has   *)
(* no body, and nothing in its condition changes: the program stays there. *)
FillBuffer ==
  /\ pc = "read" /\ cmd = CmdSize - 1
  /\ pc' = "stuck"
  /\ UNCHANGED <<input, walk, left, space, object, output, loop>>

-----------------------------------------------------------------------------
argc == Len(inner_argv)

(* The commands that walk the repository, each with exactly its words.     *)
Walking ==
  \/ argc = 1 /\ inner_argv[1] \in {"--namespaceinstance", "--classdef"}
  \/ argc = 2 /\ inner_argv[1] \in {"--specified_classdef", "--instance"}

Command ==
  CASE inner_argv[1] = "--namespaceinstance"  -> "namespaceinstance"
    [] inner_argv[1] = "--classdef"           -> "classdef"
    [] inner_argv[1] = "--specified_classdef" -> "specified_classdef"
    [] inner_argv[1] = "--instance"           -> "instance"

DispatchWalk ==
  /\ pc = "dispatch" /\ Walking
  /\ Begin(Command, IF argc = 2 THEN inner_argv[2] ELSE NoClass)
  /\ UNCHANGED loop

(* Every other line returns to the loop, but for --quit alone.             *)
DispatchOther ==
  /\ pc = "dispatch" /\ ~ Walking
  /\ pc' = IF argc = 1 /\ inner_argv[1] = "--quit" THEN "quit" ELSE "read"
  /\ UNCHANGED <<input, walk, left, space, object, output, loop>>

(* What a command returns is not looked at.                                *)
CommandEnds ==
  /\ pc \in {"done", "failed"}
  /\ pc' = "read"
  /\ UNCHANGED <<input, walk, left, space, object, output, loop>>

Next ==
  \/ ReadChar \/ ReadLine \/ FillBuffer
  \/ DispatchWalk \/ DispatchOther \/ CommandEnds
  \/ Walk /\ UNCHANGED loop
-----------------------------------------------------------------------------
(* A --quit ends the program, whatever commands come before it and however *)
(* they return, unless an exception does or a line before it does not fit  *)
(* in the buffer; without a --quit the program never ends by itself: at    *)
(* the end of its input it hangs (main, ReadCmdFromCin).                   *)
Fits(line)  == line.length < CmdSize - 1
Quits(line) == line.length > 0 /\ line.words = <<"--quit">>
WillQuit    == \E k \in DOMAIN lines : Quits(lines[k]) /\ \A j \in 1 .. k : Fits(lines[j])

QuitsOrHangs ==
  /\ WillQuit   => <>(pc \in {"quit", "thrown"})
  /\ ~ WillQuit => <>(pc \in {"stuck", "thrown"})
=============================================================================

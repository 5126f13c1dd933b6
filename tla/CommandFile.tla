---------------------------- MODULE CommandFile ----------------------------
(***************************************************************************)
(* The remote files on SPIFFS (Interface/Logger_File/logger_file.c): one   *)
(* text file per remote, one line per command.  Every function that        *)
(* appends a line goes through the single file-scope handle `static FILE   *)
(* *f', whichever task calls it; the functions that read a file use a      *)
(* handle of their own.  A stream buffers what is written to it, and the   *)
(* line reaches the file when the stream is closed.                        *)
(***************************************************************************)
EXTENDS Integers, Sequences

CONSTANTS
  FileNames,   \* what file_name may hold, the empty string included
  LineNames,   \* what the first field of a line may be
  Waves,       \* the pulse trains a line may carry
  NoWave,      \* a line without any pulse
  MaxOpen      \* conf.max_files: the streams that may be open at once

ASSUME FileAssumption ==
  /\ MaxOpen \in Nat \ {0}
  /\ "" \in FileNames /\ "" \in LineNames

VARIABLES
  flash,       \* the lines of every file
  f,           \* the shared handle
  stream,      \* the stream objects
  panic        \* a NULL stream was written to: the chip resets

fileVars == <<flash, f, stream, panic>>

NULL == 0
Handles == 1 .. MaxOpen

\* "RAW" lines hold durations, "NORMAL" lines the hex code of a protocol.
Line == [name : LineNames, proto : {"RAW", "NORMAL"}, wave : Waves \union {NoWave}]

Stream == [open : BOOLEAN, file : FileNames, pending : Seq(Line)]

FileInit ==
  /\ flash = [file \in FileNames |-> << >>]
  /\ f = NULL
  /\ stream = [h \in Handles |-> [open |-> FALSE, file |-> "", pending |-> << >>]]
  /\ panic = FALSE

FreeHandles == {h \in Handles : ~stream[h].open}

\* fopen(file, "a") stored in f; it returns NULL when every stream is in use.
OpenAppend(file) ==
  /\ \/ /\ FreeHandles # {}
        /\ LET h == CHOOSE h \in FreeHandles : TRUE
           IN  /\ f' = h
               /\ stream' = [stream EXCEPT ![h] = [open |-> TRUE, file |-> file, pending |-> << >>]]
     \/ /\ FreeHandles = {}
        /\ f' = NULL
        /\ UNCHANGED stream
  /\ UNCHANGED <<flash, panic>>

\* fputs(line, f): a closed stream refuses the line and nobody looks at the
\* result; a NULL one is dereferenced.
PutLine(line) ==
  /\ \/ /\ f # NULL /\ stream[f].open
        /\ stream' = [stream EXCEPT ![f].pending = Append(@, line)]
        /\ UNCHANGED panic
     \/ /\ f # NULL /\ ~stream[f].open
        /\ UNCHANGED <<stream, panic>>
     \/ /\ f = NULL
        /\ panic' = TRUE
        /\ UNCHANGED stream
  /\ UNCHANGED <<flash, f>>

\* fclose(f): what is pending is appended to the file the stream was opened on.
CloseFile ==
  /\ \/ /\ f # NULL /\ stream[f].open
        /\ flash' = [flash EXCEPT ![stream[f].file] = @ \o stream[f].pending]
        /\ stream' = [stream EXCEPT ![f] = [open |-> FALSE, file |-> @.file, pending |-> << >>]]
     \/ /\ f = NULL \/ ~stream[f].open
        /\ UNCHANGED <<flash, stream>>
  /\ UNCHANGED <<f, panic>>

\* logger_file_check_cmd: is a command of this name already in the file?
\* When no stream is free the file cannot be opened and the answer is no.
HasCommand(file, name) ==
  /\ FreeHandles # {}
  /\ \E i \in DOMAIN flash[file] : flash[file][i].name = name

NoLine == [name |-> "", proto |-> "RAW", wave |-> NoWave]

\* Mutant: the first line of that name is taken.
ReadCommandFirst(file, name) ==
  LET IsFirst(i) == /\ flash[file][i].name = name
                    /\ \A j \in DOMAIN flash[file] : flash[file][j].name = name => j >= i
  IN  IF FreeHandles # {} /\ \E i \in DOMAIN flash[file] : IsFirst(i)
      THEN flash[file][CHOOSE i \in DOMAIN flash[file] : IsFirst(i)]
      ELSE NoLine

\* logger_file_read_cmd: every line of that name overwrites what the one
\* before it left, so the last one is the one returned.
ReadCommand(file, name) ==
  LET IsLast(i) == /\ flash[file][i].name = name
                   /\ \A j \in DOMAIN flash[file] : flash[file][j].name = name => j <= i
  IN  IF FreeHandles # {} /\ \E i \in DOMAIN flash[file] : IsLast(i)
      THEN flash[file][CHOOSE i \in DOMAIN flash[file] : IsLast(i)]
      ELSE NoLine

FileTypeOK ==
  /\ flash \in [FileNames -> Seq(Line)]
  /\ f \in Handles \union {NULL}
  /\ stream \in [Handles -> Stream]
  /\ panic \in BOOLEAN

=============================================================================

------------------------------ MODULE FileTools ------------------------------
(***************************************************************************)
(* Read, Edit, Write and NotebookEdit on one file, in Runs with a record of *)
(* their own of what they read, while others change the file.  The tools    *)
(* read the file and the clock, and write the file, in separate steps.      *)
(* Every content ever written is another number; times are milliseconds.    *)
(* The time a tool's write gives the file may lag behind the clock.         *)
(***************************************************************************)
EXTENDS Naturals

CONSTANTS
  Runs,
  MaxContents, MaxTime   \* bounds: contents ever written, the clock

NoFile == 0
Unread == 0

VARIABLES
  clock, contents,     \* the time, and the contents written so far
  file, modTime,       \* the file
  known, readAt,       \* of each Run: ReadFileState, its content and time
  tool, at, data       \* of each Run: the tool at work, where it is, and what
                       \* it has read

vars == <<clock, contents, file, modTime, known, readAt, tool, at, data>>

Init ==
  /\ clock = 1 /\ contents = 1
  /\ file \in {NoFile, 1} /\ modTime = 0
  /\ known = [r \in Runs |-> Unread] /\ readAt = [r \in Runs |-> 0]
  /\ tool = [r \in Runs |-> "Read"] /\ at = [r \in Runs |-> "idle"]
  /\ data = [r \in Runs |-> NoFile]

Goes(r, where) == at' = [at EXCEPT ![r] = where]

Tick == clock < MaxTime /\ clock' = clock + 1
        /\ UNCHANGED <<contents, file, modTime, known, readAt, tool, at, data>>

NewContent ==
  /\ contents < MaxContents /\ contents' = contents + 1
  /\ file' = contents'

WriteFile == NewContent /\ modTime' \in {clock, clock - 1}

\* An editor, a command, a tool of another program; mv, cp -p or tar put a file
\* of any age there.
OtherWrites ==
  /\ NewContent /\ modTime' \in 0 .. clock
  /\ UNCHANGED <<clock, known, readAt, tool, at, data>>

-----------------------------------------------------------------------------
(***************************************************************************)
(* Faults: wrong versions of definitions; no action uses one.               *)
(***************************************************************************)
NeverStale(r) == FALSE

-----------------------------------------------------------------------------
\* Each call of a tool reads the file first.
Begins(r, t, where) ==
  /\ at[r] = "idle"
  /\ tool' = [tool EXCEPT ![r] = t]
  /\ data' = [data EXCEPT ![r] = file]
  /\ Goes(r, where)
  /\ UNCHANGED <<clock, contents, file, modTime, known, readAt>>

\* All but Write fail without the file; only Edit and Write look at what is
\* known of it, Write when the file exists.
Read(r)         == file # NoFile /\ Begins(r, "Read", "record")
Edit(r)         == file # NoFile /\ Begins(r, "Edit", "check")
Write(r)        == Begins(r, "Write", IF file = NoFile THEN "write" ELSE "check")
NotebookEdit(r) == file # NoFile /\ Begins(r, "NotebookEdit", "write")

\* Edit and Write: a content that is not the known one, in a file that is
\* younger.  The time is looked up after the content was read.
Stale(r) == modTime > readAt[r]

CheckStale(r) ==
  /\ at[r] = "check"
  /\ Goes(r, IF known[r] \notin {Unread, data[r]} /\ Stale(r) THEN "idle" ELSE "write")
  /\ UNCHANGED <<clock, contents, file, modTime, known, readAt, tool, data>>

\* old_string is not there or there more than once, a cell does not exist, the
\* file cannot be opened.
ChangeFails(r) ==
  /\ at[r] = "write"
  /\ Goes(r, "idle")
  /\ UNCHANGED <<clock, contents, file, modTime, known, readAt, tool, data>>

\* The disk is full once WriteFile has truncated the file: it is empty, or part
\* of what it should be, and nothing of this is recorded.
WriteFails(r) ==
  /\ at[r] = "write"
  /\ WriteFile
  /\ Goes(r, "idle")
  /\ UNCHANGED <<clock, known, readAt, tool, data>>

\* The file to read is binary or shorter than the offset, or is an image or a
\* notebook, which Read shows and does not record.
ReadUnrecorded(r) ==
  /\ at[r] = "record" /\ tool[r] = "Read"
  /\ Goes(r, "idle")
  /\ UNCHANGED <<clock, contents, file, modTime, known, readAt, tool, data>>

\* The new content is that of Write, or the edited one of what was read.
WriteBack(r, t, where) ==
  /\ at[r] = "write" /\ tool[r] = t
  /\ WriteFile
  /\ data' = [data EXCEPT ![r] = file']
  /\ Goes(r, where)
  /\ UNCHANGED <<clock, known, readAt, tool>>

EditWrites(r)     == WriteBack(r, "Edit", "record")
WriteWrites(r)    == WriteBack(r, "Write", "record")
NotebookWrites(r) == WriteBack(r, "NotebookEdit", "idle")

\* SetFileReadState, with the time it is by then.
RecordState(r) ==
  /\ at[r] = "record"
  /\ known' = [known EXCEPT ![r] = data[r]]
  /\ readAt' = [readAt EXCEPT ![r] = clock]
  /\ Goes(r, "idle")
  /\ UNCHANGED <<clock, contents, file, modTime, tool, data>>

Next ==
  \/ Tick \/ OtherWrites
  \/ \E r \in Runs :
       \/ Read(r) \/ Edit(r) \/ Write(r) \/ NotebookEdit(r)
       \/ CheckStale(r) \/ ChangeFails(r) \/ WriteFails(r) \/ ReadUnrecorded(r)
       \/ EditWrites(r) \/ WriteWrites(r) \/ NotebookWrites(r) \/ RecordState(r)

Spec == Init /\ [][Next]_vars

-----------------------------------------------------------------------------
(***************************************************************************)
(* Edit and Write overwrite, or spoil in a write that fails, a content that *)
(* differs from the one their Run knows only where their check is blind:    *)
(* the time of the file is not after the record of the read (it was written *)
(* up to that millisecond, or came later with an older time), the file was  *)
(* written after the call's own read of it, or the Run has never read it.   *)
(***************************************************************************)
NoBlindOverwrite ==
  [][\A r \in Runs :
       /\ at[r] = "write" /\ at'[r] # "write" /\ tool[r] # "NotebookEdit"
       /\ file' # file /\ file # NoFile
       =>
         \/ file = known[r] \/ known[r] = Unread
         \/ modTime <= readAt[r]
         \/ file # data[r]]_vars
=============================================================================

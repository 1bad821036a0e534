------------------------------- MODULE History -------------------------------
(***************************************************************************)
(* history.Store: entries go into a buffer, and each Add starts a goroutine *)
(* that takes the buffer and appends it to the file, outside the lock.      *)
(* RemoveLast reads the file, truncates it and writes it back shorter.      *)
(***************************************************************************)
EXTENDS Naturals, Sequences, FiniteSets

CONSTANTS
  Projects, Displays,
  MaxEntries            \* bound: entries added

\* An entry is its number, from 1, its project and display text.  A line may
\* also be the rest of one that was written over, which is none.
Torn       == [n |-> 0]
IsEntry(l) == l.n # 0

VARIABLES
  buffer,     \* Store.buffer
  file,       \* the lines of the file
  flushers,   \* goroutines that have not yet taken the lock
  writing,    \* those that write: the entries each has left
  remover,    \* RemoveLast: "idle", or it "holds" the lock with what it read,
              \* or has "truncated" the file
  readBack,   \* what it read
  added       \* entries added so far

vars == <<buffer, file, flushers, writing, remover, readBack, added>>

Init ==
  /\ buffer = <<>> /\ file = <<>> /\ flushers = 0 /\ writing = {}
  /\ remover = "idle" /\ readBack = <<>> /\ added = 0

\* Store.mu is held only by RemoveLast for longer than a step.
LockFree == remover = "idle"

-----------------------------------------------------------------------------
Add ==
  /\ LockFree /\ added < MaxEntries
  /\ added' = added + 1
  /\ \E p \in Projects, d \in Displays :
       buffer' = Append(buffer, [n |-> added', project |-> p, display |-> d])
  /\ flushers' = flushers + 1
  /\ UNCHANGED <<file, writing, remover, readBack>>

\* flush, up to the end of its lock section.
TakeBuffer ==
  /\ LockFree /\ flushers > 0
  /\ flushers' = flushers - 1
  /\ writing' = IF buffer = <<>> THEN writing ELSE writing \cup {buffer}
  /\ buffer' = <<>>
  /\ UNCHANGED <<file, remover, readBack, added>>

WriteEntry(w) ==
  /\ file' = Append(file, Head(w))
  /\ writing' = (writing \ {w}) \cup (IF Len(w) = 1 THEN {} ELSE {Tail(w)})
  /\ UNCHANGED <<buffer, flushers, remover, readBack, added>>

\* The file cannot be opened: the entries are lost.
FlushFails(w) ==
  /\ writing' = writing \ {w}
  /\ UNCHANGED <<buffer, file, flushers, remover, readBack, added>>

RemoveLastReads ==
  /\ LockFree /\ file # <<>>
  /\ remover' = "holds" /\ readBack' = file
  /\ UNCHANGED <<buffer, file, flushers, writing, added>>

\* The file cannot be opened for writing.
RemoveLastFails ==
  /\ remover = "holds"
  /\ remover' = "idle" /\ readBack' = <<>>
  /\ UNCHANGED <<buffer, file, flushers, writing, added>>

\* WriteFile truncates first: what was appended since the read goes too.
RemoveLastTruncates ==
  /\ remover = "holds"
  /\ file' = <<>> /\ remover' = "truncated"
  /\ UNCHANGED <<buffer, flushers, writing, readBack, added>>

\* What writing from the start of the file leaves of lines that were appended
\* since it was truncated: those behind the last one it reaches, and perhaps
\* the rest of that one.
LeftOf(lines) ==
  LET behind == {SubSeq(lines, i + 1, Len(lines)) : i \in DOMAIN lines}
  IN IF lines = <<>> THEN {<<>>} ELSE behind \cup {<<Torn>> \o rest : rest \in behind}

RemoveLastWrites ==
  /\ remover = "truncated"
  /\ \/ UNCHANGED file   \* there is nothing to write back, or the disk is full
     \/ /\ Len(readBack) > 1
        /\ \E rest \in LeftOf(file) :
             file' = SubSeq(readBack, 1, Len(readBack) - 1) \o rest
  /\ remover' = "idle" /\ readBack' = <<>>
  /\ UNCHANGED <<buffer, flushers, writing, added>>

Next ==
  \/ Add \/ TakeBuffer
  \/ RemoveLastReads \/ RemoveLastFails \/ RemoveLastTruncates \/ RemoveLastWrites
  \/ \E w \in writing : WriteEntry(w) \/ FlushFails(w)

Spec == Init /\ [][Next]_vars

-----------------------------------------------------------------------------
\* GetHistory: newest first, one entry for each display text, max at most
\* (0 for all).  No project's name asks for every project.
AnyProject == ""

Asked(e, project) == IsEntry(e) /\ (project = AnyProject \/ e.project = project)

\* Whether the loop leaves out e, after it has taken the entries of result.
Skips(e, result, project, max) ==
  \/ ~Asked(e, project)
  \/ \E i \in DOMAIN result : result[i].display = e.display
  \/ max > 0 /\ Len(result) >= max

GetHistory(project, max) ==
  LET taken[k \in 0 .. Len(file)] ==   \* of the last k entries
        IF k = 0 THEN <<>>
        ELSE IF Skips(file[Len(file) + 1 - k], taken[k - 1], project, max)
             THEN taken[k - 1]
             ELSE Append(taken[k - 1], file[Len(file) + 1 - k])
  IN taken[Len(file)]

(***************************************************************************)
(* However many goroutines flush, and RemoveLast rewrites the file between  *)
(* them, each entry is in one place at most: in the buffer, with one        *)
(* goroutine or in the file, once.  It may be in none: RemoveLast loses or  *)
(* tears what is appended beside it.                                        *)
(***************************************************************************)
EntriesOnce ==
  LET Positions(s) == {i \in DOMAIN s : IsEntry(s[i])}
      Numbers(s)   == {s[i].n : i \in Positions(s)}
  IN /\ \A s \in {buffer, file} \cup writing :
          \A i, j \in Positions(s) : s[i].n = s[j].n => i = j
     /\ Numbers(buffer) \cap Numbers(file) = {}
     /\ \A s \in writing : Numbers(s) \cap (Numbers(buffer) \cup Numbers(file)) = {}
     /\ \A s, t \in writing : s # t => Numbers(s) \cap Numbers(t) = {}

(***************************************************************************)
(* GetHistory gives, of each display text of the project, the entry that is *)
(* last in the file, in the reverse order of the file, and the first max.   *)
(***************************************************************************)
HistoryNewestFirst ==
  \A p \in Projects \cup {AnyProject}, max \in 0 .. MaxEntries :
    LET ours   == {i \in DOMAIN file : Asked(file[i], p)}
        newest == {i \in ours : \A j \in ours : j > i => file[j].display # file[i].display}
        result == GetHistory(p, max)
    IN /\ Len(result) = IF max = 0 \/ max > Cardinality(newest) THEN Cardinality(newest) ELSE max
       /\ \A k \in DOMAIN result : \E i \in newest :
            file[i] = result[k] /\ Cardinality({j \in newest : j > i}) = k - 1
=============================================================================

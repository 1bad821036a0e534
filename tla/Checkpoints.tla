----------------------------- MODULE Checkpoints -----------------------------
(***************************************************************************)
(* checkpoint.Manager.  Its operations hold one lock, but capture and       *)
(* restore file by file, while tools and others write the files without it. *)
(***************************************************************************)
EXTENDS Naturals, Sequences, FiniteSetsExt

CONSTANTS
  Paths, MessageIds,
  MaxWrites, MaxCheckpoints   \* bounds: writes by others, checkpoints

Missing == 0   \* no such file; other contents are numbers

VARIABLES
  disk,         \* content of each path
  writes,       \* writes by others so far
  tracked,      \* Manager.trackedFiles
  checkpoints,  \* Manager.checkpoints
  at,           \* what the holder of Manager.mu is doing
  id, todo, states,   \* its message ID, the files left, those captured
  disturbed, goal     \* history: a write since the operation began, and the
                      \* snapshot a rewind is asked for

vars == <<disk, writes, tracked, checkpoints, at, id, todo, states, disturbed, goal>>

Init ==
  /\ disk \in [Paths -> {Missing, 1}] /\ writes = 1
  /\ tracked = {} /\ checkpoints = <<>>
  /\ at = "free" /\ id \in MessageIds /\ todo = {} /\ states = <<>>
  /\ disturbed = FALSE /\ goal = <<>>

\* Tools, and anyone else, write or remove a file.
Write(p) ==
  /\ writes < MaxWrites /\ writes' = writes + 1
  /\ disk' \in {[disk EXCEPT ![p] = writes'], [disk EXCEPT ![p] = Missing]}
  /\ disturbed' = TRUE
  /\ UNCHANGED <<tracked, checkpoints, at, id, todo, states, goal>>

TrackFile(p) ==
  /\ at = "free" /\ p \notin tracked
  /\ tracked' = tracked \cup {p}
  /\ UNCHANGED <<disk, writes, checkpoints, at, id, todo, states, disturbed, goal>>

-----------------------------------------------------------------------------
WithId(m) == {i \in DOMAIN checkpoints : checkpoints[i].messageId = m}

(***************************************************************************)
(* Faults: wrong versions of definitions; no action uses one.               *)
(***************************************************************************)
FirstWithId(m) == IF WithId(m) = {} THEN 0 ELSE Min(WithId(m))

-----------------------------------------------------------------------------
(* CreateCheckpoint: the files come in the order of a Go map, any order.    *)
BeginCreate(m) ==
  /\ at = "free" /\ Len(checkpoints) < MaxCheckpoints
  /\ at' = "capture" /\ id' = m /\ todo' = tracked /\ states' = <<>>
  /\ disturbed' = FALSE
  /\ UNCHANGED <<disk, writes, tracked, checkpoints, goal>>

CaptureFile(p) ==
  /\ at = "capture" /\ p \in todo
  /\ states' = Append(states, <<p, disk[p]>>)
  /\ todo' = todo \ {p}
  /\ UNCHANGED <<disk, writes, tracked, checkpoints, at, id, disturbed, goal>>

\* A file that cannot be read, or has gone since Stat: no checkpoint.
CaptureFails(p) ==
  /\ at = "capture" /\ p \in todo
  /\ at' = "free"
  /\ UNCHANGED <<disk, writes, tracked, checkpoints, id, todo, states, disturbed, goal>>

EndCreate ==
  /\ at = "capture" /\ todo = {}
  /\ checkpoints' = Append(checkpoints, [messageId |-> id, files |-> states])
  /\ at' = "free"
  /\ UNCHANGED <<disk, writes, tracked, id, todo, states, disturbed, goal>>

-----------------------------------------------------------------------------
(* RewindTo: the latest checkpoint with the ID, its files in their order.   *)
Target(m) == IF WithId(m) = {} THEN 0 ELSE Max(WithId(m))

BeginRewind(m) ==
  /\ at = "free" /\ Target(m) # 0
  /\ at' = "restore" /\ id' = m /\ states' = checkpoints[Target(m)].files
  /\ goal' = LET with == {i \in DOMAIN checkpoints : checkpoints[i].messageId = m}
             IN checkpoints[CHOOSE i \in with : \A j \in with : j <= i].files
  /\ disturbed' = FALSE
  /\ UNCHANGED <<disk, writes, tracked, checkpoints, todo>>

RestoreFile ==
  /\ at = "restore" /\ states # <<>>
  /\ disk' = [disk EXCEPT ![Head(states)[1]] = Head(states)[2]]
  /\ states' = Tail(states)
  /\ UNCHANGED <<writes, tracked, checkpoints, at, id, todo, disturbed, goal>>

\* The files that were restored stay restored.
RestoreFails ==
  /\ at = "restore" /\ states # <<>>
  /\ at' = "free"
  /\ UNCHANGED <<disk, writes, tracked, checkpoints, id, todo, states, disturbed, goal>>

EndRewind ==
  /\ at = "restore" /\ states = <<>>
  /\ at' = "free"
  /\ UNCHANGED <<disk, writes, tracked, checkpoints, id, todo, states, disturbed, goal>>

Next ==
  \/ \E p \in Paths : Write(p) \/ TrackFile(p) \/ CaptureFile(p) \/ CaptureFails(p)
  \/ \E m \in MessageIds : BeginCreate(m) \/ BeginRewind(m)
  \/ EndCreate \/ RestoreFile \/ RestoreFails \/ EndRewind

Spec == Init /\ [][Next]_vars

-----------------------------------------------------------------------------
(***************************************************************************)
(* When a rewind has restored its last file and nobody wrote meanwhile,     *)
(* every path of the latest checkpoint with that ID is as it was captured;  *)
(* and a capture that failed half-way has left no checkpoint to rewind to:  *)
(* each has, once, all files tracked when it was made.                      *)
(***************************************************************************)
RewindRestoresLatest ==
  /\ at = "restore" /\ states = <<>> /\ ~disturbed =>
       \A i \in DOMAIN goal : disk[goal[i][1]] = goal[i][2]
  /\ \A i, j \in DOMAIN checkpoints :
       LET PathsOf(c) == {c.files[k][1] : k \in DOMAIN c.files}
       IN /\ Len(checkpoints[i].files) = Cardinality(PathsOf(checkpoints[i]))
          /\ i <= j => PathsOf(checkpoints[i]) \subseteq PathsOf(checkpoints[j])
=============================================================================

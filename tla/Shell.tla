-------------------------------- MODULE Shell --------------------------------
(***************************************************************************)
(* BashTool: one foreground call, whose command runs under a timeout within *)
(* the caller's context, and commands in the background, which run under    *)
(* neither.  A command is a bash process that may leave a child behind; the *)
(* output of both comes through a pipe.                                     *)
(***************************************************************************)
EXTENDS Naturals, FiniteSets

CONSTANT MaxJobs   \* bound: commands run in the background

Jobs == 1..MaxJobs

VARIABLES
  at,         \* the foreground call
  bash,       \* its process: "none", "alive", "ended" by itself, "killed"
  child,      \* a child of it runs and holds the pipe
  due,        \* the timeout is over
  cancelled,  \* the caller's context is
  result,     \* what the call returned
  nextTaskId, \* BashTool.nextTaskID
  job,        \* of each background command: "none", "starting", then as bash
  listed,     \* backgroundTasks
  waited,     \* those whose cmd.Wait has returned, so that Err is set
  done        \* those whose Done is closed

foreground == <<at, bash, child, due, cancelled, result>>
background == <<nextTaskId, job, listed, waited, done>>
vars == <<foreground, background>>

Init ==
  /\ at = "idle" /\ bash = "none" /\ child = FALSE
  /\ due = FALSE /\ cancelled = FALSE /\ result = "none"
  /\ nextTaskId = 0 /\ job = [j \in Jobs |-> "none"]
  /\ listed = {} /\ waited = {} /\ done = {}

-----------------------------------------------------------------------------
(***************************************************************************)
(* Faults: wrong versions of definitions; no action uses one.               *)
(***************************************************************************)
NeverKilled == FALSE
ProcessOnly == TRUE

-----------------------------------------------------------------------------
(* execute.  A command that cannot be started (no bash, no such directory)  *)
(* yields no ExitError, so the result is that of exit code 0.               *)
Start ==
  /\ at = "idle"
  /\ \/ bash' = "alive" /\ at' = "run"
     \/ bash' = "none"  /\ at' = "decide"
  /\ UNCHANGED <<child, due, cancelled, result, background>>

BashStartsChild ==
  /\ bash = "alive" /\ ~child /\ child' = TRUE
  /\ UNCHANGED <<at, bash, due, cancelled, result, background>>

BashEnds ==
  /\ bash = "alive" /\ bash' = "ended"
  /\ UNCHANGED <<at, child, due, cancelled, result, background>>

ChildEnds ==
  /\ child /\ child' = FALSE
  /\ UNCHANGED <<at, bash, due, cancelled, result, background>>

TimeoutPasses ==
  /\ at \in {"run", "decide"} /\ ~due /\ due' = TRUE
  /\ UNCHANGED <<at, bash, child, cancelled, result, background>>

CallerCancels ==
  /\ at \in {"run", "decide"} /\ ~cancelled /\ cancelled' = TRUE
  /\ UNCHANGED <<at, bash, child, due, result, background>>

ContextDone == due \/ cancelled

\* exec kills the process it started, not what that has started.
StopsCommand == ContextDone

Kill ==
  /\ at = "run" /\ bash = "alive" /\ StopsCommand
  /\ bash' = "killed"
  /\ UNCHANGED <<at, child, due, cancelled, result, background>>

\* cmd.Run: the process is gone and nobody holds the pipe any more.
OutputEnded == ~child

RunReturns ==
  /\ at = "run" /\ bash \in {"ended", "killed"} /\ OutputEnded
  /\ at' = "decide"
  /\ UNCHANGED <<bash, child, due, cancelled, result, background>>

\* cmdCtx.Err() is DeadlineExceeded when the timeout was the first.
Decide ==
  /\ at = "decide"
  /\ result' \in CASE due /\ cancelled  -> {"timed out", "output"}
                   [] due /\ ~cancelled -> {"timed out"}
                   [] ~due              -> {"output"}
  /\ at' = "returned"
  /\ UNCHANGED <<bash, child, due, cancelled, background>>

-----------------------------------------------------------------------------
(* runInBackground and GetBackgroundTask                                    *)
StartJob ==
  /\ nextTaskId < MaxJobs /\ nextTaskId' = nextTaskId + 1
  /\ job' \in {[job EXCEPT ![nextTaskId'] = "starting"],
               [job EXCEPT ![nextTaskId'] = "failed"]}
  /\ UNCHANGED <<foreground, listed, waited, done>>

ListJob(j) ==
  /\ job[j] = "starting"
  /\ job' = [job EXCEPT ![j] = "alive"]
  /\ listed' = listed \cup {j}
  /\ UNCHANGED <<foreground, nextTaskId, waited, done>>

\* The goroutine; the process may have ended before it was listed.
WaitReturns(j) ==
  /\ job[j] = "alive"
  /\ job' = [job EXCEPT ![j] = "ended"]
  /\ waited' = waited \cup {j}
  /\ UNCHANGED <<foreground, nextTaskId, listed, done>>

Waited(j) == j \in waited

CloseDone(j) ==
  /\ job[j] \in {"alive", "ended"} /\ Waited(j) /\ j \notin done
  /\ done' = done \cup {j}
  /\ UNCHANGED <<foreground, nextTaskId, job, listed, waited>>

Over == at = "returned" /\ UNCHANGED vars

Next ==
  \/ Start \/ BashStartsChild \/ BashEnds \/ ChildEnds \/ TimeoutPasses
  \/ CallerCancels \/ Kill \/ RunReturns \/ Decide \/ StartJob
  \/ \E j \in Jobs : ListJob(j) \/ WaitReturns(j) \/ CloseDone(j)
  \/ Over

\* The runtime and the operating system; commands owe nothing.
Fairness == WF_vars(Kill) /\ WF_vars(RunReturns) /\ WF_vars(Decide)

Spec == Init /\ [][Next]_vars /\ Fairness

-----------------------------------------------------------------------------
(***************************************************************************)
(* What the call returns is the whole output of a process that is gone, and *)
(* a command the timeout ended is never reported as one that finished,      *)
(* unless the caller had cancelled it as well; who finds Done of a          *)
(* background command closed finds its Err set.                             *)
(***************************************************************************)
ResultsFinal ==
  /\ at = "returned" => bash # "alive" /\ ~child
  /\ result = "output" /\ bash = "killed" => cancelled
  /\ done \subseteq waited \cap listed

(***************************************************************************)
(* A call whose context is done returns, whatever the command does, unless  *)
(* a child of the command holds the pipe for ever: cmd.Run waits for it     *)
(* without a limit.                                                         *)
(***************************************************************************)
CallReturns == <>[]~child => (ContextDone ~> at = "returned")
=============================================================================

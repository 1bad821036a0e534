------------------------------ MODULE Services ------------------------------
(***************************************************************************)
(* What a Run is made of and uses, one part at work at a time: its loop, a  *)
(* provider attempt, and the services around the runtime.  Seen from here   *)
(* they share no state, so that what one of them reaches is what it reaches *)
(* beside the others: a behaviour chooses the active one, whose steps are   *)
(* those of its own module, and the others stay as they were made.          *)
(***************************************************************************)
EXTENDS Naturals, Sequences, FiniteSets

CONSTANTS
  MaxEdits,                                                  \* ToolAdmission
  Connectors, Callers, Closers, MaxConnections, MaxAttempts, \* McpClient
  MaxRequests,                                               \* McpHandshake
  MaxSessions, MaxLines, MaxUUIDs, HeadLines, TailLines, Titles, Tags,
  Agents, MaxOps,                                            \* ToolStores
  Paths, MessageIds, MaxWrites, MaxCheckpoints,              \* Checkpoints
  Projects, Displays, MaxEntries,                            \* History
  Models, Savers, MaxSpent,                                  \* CostTracker
  Windows, MaxResponses,                                     \* RateLimit
  Runs, MaxContents, MaxTime,                                \* FileTools
  MaxJobs,                                                   \* Shell
  MaxMessages, MaxParts,                                     \* ProviderRequest
  Parent, Children, MaxTurns, Limit, ResponseCosts, HasFallback,
  Cap, MaxRetries, MaxBlocks, MaxFrags                       \* ProviderStream

ASSUME LoopAssumption ==
  /\ Parent \notin Children /\ IsFiniteSet(Children) /\ HasFallback \in BOOLEAN
  /\ MaxTurns \in Nat /\ Limit \in Nat /\ ResponseCosts \subseteq Nat
  /\ \E c \in ResponseCosts : Limit + c > 0 /\ \A d \in ResponseCosts : d <= c
ASSUME AttemptAssumption ==
  /\ Cap \in Nat \ {0} /\ MaxRetries \in Nat
  /\ MaxBlocks \in Nat /\ MaxFrags \in Nat \ {0}
ASSUME FileAssumption ==
  /\ HeadLines \in Nat /\ TailLines \in Nat /\ "none" \notin Titles
ASSUME RequestAssumption == MaxParts \in Nat
ASSUME TrackerAssumption == IsFiniteSet(Models) /\ IsFiniteSet(Callers) /\ Windows \in Nat

VARIABLES
  active,
  bound, hasHost, isEditTool, mode, allowRules, denyRules, edits, admissionAt,
  arg, snapshot, offered, denied, modes, allowed,
  connection, opened, live, clientAt, mine, attempt,
  glue, registered, requests, answers, handling, nextId, peerAt, taken,
  files, uuids, named, forked,
  items, made, boxes, plan, agentAt, target, ops, told, deletedTask, sent, read,
  disk, writes, tracked, checkpoints, checkpointAt, id, todo, states, disturbed, goal,
  buffer, log, flushers, writing, remover, readBack, added,
  total, models, costFile, saveAt, savedTotal, seen, left, frozen, restored, spent,
  running,
  current, parserAt, prev, next, responses, changes, events, worst,
  clock, contents, file, modTime, known, readAt, tool, toolAt, data,
  at, bash, child, due, cancelled, result, nextTaskId, job, listed, waited, done,
  keeper, history, step, parts, said, unanswered,
  loopPc, turn, messages, tools, usage, outcome, started, cost, runDone, billed, charged,
  provider, streaming, served, servedAll, producerPc, tries, outbox, textOpen, failed,
  eventCh, eventsClosed, errCh, errsClosed, attemptDone, errs, verdict, msg, blocks

Admission == INSTANCE ToolAdmission WITH at <- admissionAt, seen <- snapshot
Client    == INSTANCE McpClient     WITH at <- clientAt, current <- connection
Handshake == INSTANCE McpHandshake  WITH at <- peerAt
Sessions  == INSTANCE SessionStore
Stores    == INSTANCE ToolStores    WITH at <- agentAt
Rewinds   == INSTANCE Checkpoints   WITH at <- checkpointAt
Past      == INSTANCE History       WITH file <- log
Tracker   == INSTANCE CostTracker   WITH at <- saveAt, file <- costFile
Limits    == INSTANCE RateLimit     WITH at <- parserAt
Editing   == INSTANCE FileTools     WITH at <- toolAt
Commands  == INSTANCE Shell
Requests  == INSTANCE ProviderRequest
Loop      == INSTANCE RunLoop       WITH pc <- loopPc, ctxDone <- runDone,
                                         Costs <- ResponseCosts
Provider  == INSTANCE ProviderStream WITH said <- served, saidAll <- servedAll,
                                         pc <- producerPc, attempt <- tries,
                                         ctxDone <- attemptDone

admissionVars == <<bound, hasHost, isEditTool, mode, allowRules, denyRules, edits,
                   admissionAt, arg, snapshot, offered, denied, modes, allowed>>
clientVars    == <<connection, opened, live, clientAt, mine, attempt>>
handshakeVars == <<glue, registered, requests, answers, handling, nextId, peerAt, taken>>
sessionVars   == <<files, uuids, named, forked>>
storeVars     == <<items, made, boxes, plan, agentAt, target, ops, told, deletedTask,
                   sent, read>>
rewindVars    == <<disk, writes, tracked, checkpoints, checkpointAt, id, todo, states,
                   disturbed, goal>>
pastVars      == <<buffer, log, flushers, writing, remover, readBack, added>>
costVars      == <<total, models, costFile, saveAt, savedTotal, seen, left, frozen,
                   restored, spent, running>>
limitVars     == <<current, parserAt, prev, next, responses, changes, events, worst>>
editingVars   == <<clock, contents, file, modTime, known, readAt, tool, toolAt, data>>
commandVars   == <<at, bash, child, due, cancelled, result, nextTaskId, job, listed,
                   waited, done>>
requestVars   == <<keeper, history, step, parts, said, unanswered>>
loopVars      == <<loopPc, turn, messages, tools, usage, outcome, started, cost, runDone,
                   billed, charged>>
providerVars  == <<provider, streaming, served, servedAll, producerPc, tries, outbox,
                   textOpen, failed, eventCh, eventsClosed, errCh, errsClosed,
                   attemptDone, errs, verdict, msg, blocks>>
vars == <<active, admissionVars, clientVars, handshakeVars, sessionVars, storeVars,
          rewindVars, pastVars, costVars, limitVars, editingVars, commandVars, requestVars,
          loopVars, providerVars>>

-----------------------------------------------------------------------------
\* The initial states that differ matter for the active service only.
Init ==
  /\ active \in {"admission", "client", "handshake", "sessions", "stores",
                 "rewinds", "past", "costs", "limits", "editing", "commands",
                 "requests", "loop", "provider"}
  /\ IF active = "admission" THEN TRUE ELSE
       /\ bound = "none" /\ hasHost = FALSE /\ isEditTool = FALSE
       /\ mode = "default" /\ allowRules = {} /\ denyRules = {} /\ arg = "read"
  /\ IF active = "handshake" THEN TRUE ELSE glue = "all"
  /\ IF active = "rewinds" THEN TRUE ELSE
       disk = [p \in Paths |-> 1] /\ id = CHOOSE m \in MessageIds : TRUE
  /\ IF active = "costs" THEN TRUE ELSE costFile = Tracker!Broken(Tracker!NoFile)
  /\ IF active = "editing" THEN TRUE ELSE file = 1
  /\ IF active = "requests" THEN TRUE ELSE keeper = "host"
  /\ IF active = "provider" THEN TRUE ELSE provider = "openai" /\ streaming = FALSE
  /\ Admission!Init /\ Client!Init /\ Handshake!Init /\ Sessions!Init /\ Stores!Init
  /\ Rewinds!Init /\ Past!Init /\ Tracker!Init /\ Limits!Init /\ Editing!Init
  /\ Commands!Init /\ Requests!Init /\ Loop!Init /\ Provider!Init

\* The step is one of the active service s, and leaves the others alone.
Only(s) ==
  /\ active = s /\ UNCHANGED active
  /\ IF s = "admission" THEN TRUE ELSE UNCHANGED admissionVars
  /\ IF s = "client"    THEN TRUE ELSE UNCHANGED clientVars
  /\ IF s = "handshake" THEN TRUE ELSE UNCHANGED handshakeVars
  /\ IF s = "sessions"  THEN TRUE ELSE UNCHANGED sessionVars
  /\ IF s = "stores"    THEN TRUE ELSE UNCHANGED storeVars
  /\ IF s = "rewinds"   THEN TRUE ELSE UNCHANGED rewindVars
  /\ IF s = "past"      THEN TRUE ELSE UNCHANGED pastVars
  /\ IF s = "costs"     THEN TRUE ELSE UNCHANGED costVars
  /\ IF s = "limits"    THEN TRUE ELSE UNCHANGED limitVars
  /\ IF s = "editing"   THEN TRUE ELSE UNCHANGED editingVars
  /\ IF s = "commands"  THEN TRUE ELSE UNCHANGED commandVars
  /\ IF s = "requests"  THEN TRUE ELSE UNCHANGED requestVars
  /\ IF s = "loop"      THEN TRUE ELSE UNCHANGED loopVars
  /\ IF s = "provider"  THEN TRUE ELSE UNCHANGED providerVars

Next ==
  \/ Only("admission") /\ Admission!Next
  \/ Only("client")    /\ Client!Next
  \/ Only("handshake") /\ Handshake!Next
  \/ Only("sessions")  /\ Sessions!Next
  \/ Only("stores")    /\ Stores!Next
  \/ Only("rewinds")   /\ Rewinds!Next
  \/ Only("past")      /\ Past!Next
  \/ Only("costs")     /\ Tracker!Next
  \/ Only("limits")    /\ Limits!Next
  \/ Only("editing")   /\ Editing!Next
  \/ Only("commands")  /\ Commands!Next
  \/ Only("requests")  /\ Requests!Next
  \/ Only("loop")      /\ Loop!Next
  \/ Only("provider")  /\ Provider!Next

\* What these ask of a part is not enabled before its first step, so that they
\* ask nothing of a part that is not active.
Fairness == Commands!Fairness /\ Loop!Fairness /\ Provider!Fairness

Spec == Init /\ [][Next]_vars /\ Fairness

-----------------------------------------------------------------------------
(***************************************************************************)
(* In a history every response that asks for tools is followed by their     *)
(* results; only a cancelled Run, or one the budget stopped, leaves its     *)
(* last one open (RunLoop).                                                 *)
(***************************************************************************)
ResultsFollow == active = "loop" => Loop!ResultsFollow

(***************************************************************************)
(* No loop takes more turns than it may, and what a Run and its children    *)
(* spend passes the budget by one response for each of them at most.        *)
(***************************************************************************)
BudgetHolds == active = "loop" => Loop!TypeOK /\ Loop!OvershootBounded

(***************************************************************************)
(* When a Run's tools are done, its ledger holds every response of every    *)
(* child agent, whatever the end of that child was (RunLoop).               *)
(***************************************************************************)
ChildrenCharged == active = "loop" => Loop!ChildrenCharged

(***************************************************************************)
(* A cancelled Run ends, wherever it and its children were (RunLoop).       *)
(***************************************************************************)
CancelEndsRun == Loop!CancelEndsRun

(***************************************************************************)
(* No error of a producer is lost between its two channels: an attempt the  *)
(* reader takes for complete is one in which nothing failed.  (A read error *)
(* of the OpenAI scanner is no failure here: its producer reports none.)    *)
(***************************************************************************)
ErrorsReported == active = "provider" => Provider!ErrorsReported

(***************************************************************************)
(* What an accepted response says is in the assistant's message, every part *)
(* in its block; of the OpenAI adapter, for a single block.                 *)
(***************************************************************************)
AcceptedIsWhole == active = "provider" => Provider!AcceptedIsWhole

(***************************************************************************)
(* No producer of the Messages API stays behind when its reader has left.   *)
(***************************************************************************)
ProducerEnds == Provider!ProducerEnds

(***************************************************************************)
(* A tool call runs with an input that the bounds, the rules and the mode   *)
(* allow, whatever hooks, host and editor of the rules do (ToolAdmission).  *)
(***************************************************************************)
CallsAdmitted ==
  active = "admission" => Admission!WithinBounds /\ Admission!DontAskHolds

(***************************************************************************)
(* No MCP connection is lost in concurrent connects, reconnects and closes, *)
(* and only a Close makes the retry of a call crash (McpClient).  A client  *)
(* takes the answers to its own calls though it compares no ID, also from a *)
(* server that answers a notification (McpHandshake).                       *)
(***************************************************************************)
ConnectionsKept ==
  /\ active = "client" => Client!NoConnectionLost /\ Client!RetryFindsConnection
  /\ active = "handshake" => Handshake!CallsTakeOwnAnswers

(***************************************************************************)
(* The title shown is the last one given, unless it is between the head and *)
(* the tail that are read, and a fork has the conversation it was asked for *)
(* under UUIDs of its own (SessionStore).                                   *)
(***************************************************************************)
SessionFilesHold ==
  active = "sessions" => Sessions!LastTitleShown /\ Sessions!ForksApart

(***************************************************************************)
(* IDs given out keep naming their object, of tasks until one is deleted,   *)
(* and mail is delivered once and in order (ToolStores).                    *)
(***************************************************************************)
StoresHold == active = "stores" => Stores!IdsKeepTheirObject /\ Stores!MailKept

(***************************************************************************)
(* A rewind that nobody disturbs restores the latest snapshot; each history *)
(* entry is in one place at most, and the history is read from the end of   *)
(* the file without repetitions (Checkpoints, History).                     *)
(***************************************************************************)
RecordsHold ==
  /\ active = "rewinds" => Rewinds!RewindRestoresLatest
  /\ active = "past" => Past!EntriesOnce /\ Past!HistoryNewestFirst

(***************************************************************************)
(* The costs of the tracker and of its file are covered by what was spent;  *)
(* every change of the rate limit is told once, and a window that rejects   *)
(* wins (CostTracker, RateLimit).                                           *)
(***************************************************************************)
TrackersHold ==
  /\ active = "costs" => Tracker!CostsCovered
  /\ active = "limits" => Limits!ChangesReported /\ Limits!RejectedWindowWins

(***************************************************************************)
(* Edit and Write overwrite what their Run does not know only where their   *)
(* check is blind: in a file nobody read, in one whose modification time is *)
(* not after the read, and between check and write (FileTools).             *)
(***************************************************************************)
NoBlindOverwrite == Editing!NoBlindOverwrite

(***************************************************************************)
(* A command's result is final: its process is gone, its output complete, a *)
(* timeout told, the Err of a background command set (Shell).               *)
(***************************************************************************)
ResultsFinal == active = "commands" => Commands!ResultsFinal

(***************************************************************************)
(* The requests made of a history are such as a provider accepts, unless a  *)
(* Run was ended before its tools had run (ProviderRequest).                *)
(***************************************************************************)
RequestsHold ==
  active = "requests" => Requests!CallsAnswered /\ Requests!AnswersSentBack

(***************************************************************************)
(* A call of Bash whose context is done returns, unless a child of the      *)
(* command holds its output for ever (Shell).                               *)
(***************************************************************************)
CallReturns == Commands!CallReturns
=============================================================================

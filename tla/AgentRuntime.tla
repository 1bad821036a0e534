---------------------------- MODULE AgentRuntime ----------------------------
(***************************************************************************)
(* The lifecycle of an Agent, its Sessions and their Runs (agent/agent.go, *)
(* agent/session.go, agent/run.go).                                        *)
(*                                                                         *)
(* Every value of Sessions is one Session object, every value of Runs one  *)
(* call of Session.Start together with the Run it creates, every value of  *)
(* Closers one call of Session.Close made by the host, every value of      *)
(* Inits one call of Agent.Init.  Agent.Close is the process AgentCloser.  *)
(* Between two lock sections, channel operations or callbacks any other    *)
(* process may step; a lock section is one action.                         *)
(***************************************************************************)
EXTENDS Integers, FiniteSets, Sequences

CONSTANTS
  Sessions,            \* Session objects
  Ids,                 \* session IDs
  IdOf,                \* the ID each Session object is created with
  Runs,                \* calls of Session.Start
  Closers,             \* calls of Session.Close by the host
  AgentCloser,         \* the goroutine inside Agent.Close
  Inits,               \* calls of Agent.Init
  McpTools,            \* tools the configured MCP servers offer
  MaxConcurrentRuns,   \* capacity of runSlots
  MaxWrites,           \* bound: history messages one Run appends
  NoSession, NoRun, NoInit

ASSUME CapacityAssumption == MaxConcurrentRuns \in Nat \ {0}
ASSUME WritesAssumption   == MaxWrites \in Nat
ASSUME IdAssumption       == IdOf \in [Sessions -> Ids]
ASSUME NullAssumption     == /\ NoSession \notin Sessions
                             /\ NoRun \notin Runs
                             /\ NoInit \notin Inits
                             /\ AgentCloser \notin Closers
ASSUME FiniteAssumption   == IsFiniteSet(Runs)

VARIABLES
  \* Agent
  agentClosed,      \* Agent.closed
  lifetimeDone,     \* Agent.lifetime is cancelled
  sessions,         \* Agent.sessions: ID -> Session object
  runSlots,         \* tokens in Agent.runSlots
  agentPc,          \* Agent.Close
  agentSnapshot,    \* the sessions it found in the map
  agentTodo,        \* those its current loop has still to handle
  mcpClosed,        \* mcpClient.Close has run
  mcpTools,         \* Agent.mcpTools
  initSlot,         \* holder of Agent.initSlot
  initPc,           \* each Init call
  initTodo,         \* tools that Init call has still to connect
  \* Session
  startPc,          \* Fork and newSession of each object
  forkOf,           \* the Session it is being forked from
  startDone, startOK, closed, active,
  history,          \* Session.messages: the Run that appended each message
  registry,         \* MCP tools in Session.registry
  endOnce,          \* Session.endOnce: "unused", "running" or "done"
  \* Run
  runPc, runSession, hasCapacity, cancelled,
  written,          \* messages this Run has appended
  \* Session.Close
  closerPc, closerSession, closerRun

agentVars   == <<agentClosed, lifetimeDone, agentPc, agentSnapshot, agentTodo,
                 mcpClosed>>
initVars    == <<mcpTools, registry, initSlot, initPc, initTodo>>
startVars   == <<sessions, startPc, forkOf, startDone, startOK>>
runVars     == <<runPc, runSession, hasCapacity, written>>
closerVars  == <<closerPc, closerSession, closerRun>>
vars == <<agentVars, initVars, startVars, runVars, closerVars,
          runSlots, closed, active, history, endOnce, cancelled>>

AllClosers == Closers \cup {AgentCloser}

-----------------------------------------------------------------------------
\* Where the processes can be.
StartPcs  == {"new", "forking", "forked", "hook", "unregistered", "started", "failed"}
RunPcs    == {"idle", "rejected", "waiting", "recheck", "running",
              "completing", "published", "finished"}
CloserPcs == {"idle", "cancel", "joinRun", "joinStart", "ending", "done"}
AgentPcs  == {"open", "cancelLifetime", "requesting", "joining", "initWait",
              "closeMcp", "closed"}
InitPcs   == {"idle", "waiting", "connecting", "returned"}

\* The history-writing part of a Run, between admission and complete.
Executing(r) == runPc[r] = "running"
\* A Run that was reserved and whose done channel is not closed.
InFlight(r)  == runPc[r] \in {"waiting", "recheck", "running", "completing",
                              "published"}
\* A host holds a Session once newSession has registered it.
Known(s)      == startPc[s] \notin {"new", "forking", "forked"}
Registered(s) == sessions[IdOf[s]] = s

Init ==
  /\ agentClosed = FALSE /\ lifetimeDone = FALSE
  /\ sessions = [id \in Ids |-> NoSession]
  /\ runSlots = 0
  /\ agentPc = "open" /\ agentSnapshot = {} /\ agentTodo = {}
  /\ mcpClosed = FALSE /\ mcpTools = {}
  /\ initSlot = NoInit
  /\ initPc = [i \in Inits |-> "idle"]
  /\ initTodo = [i \in Inits |-> {}]
  /\ startPc = [s \in Sessions |-> "new"]
  /\ forkOf = [s \in Sessions |-> NoSession]
  /\ startDone = [s \in Sessions |-> FALSE]
  /\ startOK = [s \in Sessions |-> FALSE]
  /\ closed = [s \in Sessions |-> FALSE]
  /\ active = [s \in Sessions |-> NoRun]
  /\ history = [s \in Sessions |-> <<>>]
  /\ registry = [s \in Sessions |-> {}]
  /\ endOnce = [s \in Sessions |-> "unused"]
  /\ runPc = [r \in Runs |-> "idle"]
  /\ runSession = [r \in Runs |-> NoSession]
  /\ hasCapacity = [r \in Runs |-> FALSE]
  /\ cancelled = [r \in Runs |-> FALSE]
  /\ written = [r \in Runs |-> 0]
  /\ closerPc = [c \in AllClosers |-> "idle"]
  /\ closerSession = [c \in AllClosers |-> NoSession]
  /\ closerRun = [c \in AllClosers |-> NoRun]

-----------------------------------------------------------------------------
(***************************************************************************)
(* Faults.  Each operator is a wrong version of a guard or effect below;   *)
(* no action uses one.  Put in its place, it makes a property fail.        *)
(***************************************************************************)
MayRegisterLate(s)        == sessions[IdOf[s]] = NoSession
ForgetsTools(s)           == registry
RefusedUnlessClosed(r, s) == agentClosed \/ cancelled[r] \/ active[s] # NoRun
IgnoresContext(r)         == FALSE
ClosedMeanwhile(r)        == agentClosed \/ closed[runSession[r]]
AlwaysOneToken(r)         == 1
AnyTime(s)                == TRUE
SparesRun(r)              == UNCHANGED cancelled
StreamEnded(r)            == runPc[r] \in {"published", "finished"}
AlwaysWaits(i)            == "waiting"
FreesSlotOnly(i)          == initSlot' = NoInit /\ UNCHANGED initPc

-----------------------------------------------------------------------------
(***************************************************************************)
(* Session.Fork and newSession                                             *)
(***************************************************************************)
\* Fork refuses a closed parent, ...
ForkCheck(s, parent) ==
  /\ startPc[s] = "new"
  /\ Known(parent) /\ ~closed[parent]
  /\ startPc' = [startPc EXCEPT ![s] = "forking"]
  /\ forkOf' = [forkOf EXCEPT ![s] = parent]
  /\ UNCHANGED <<agentVars, initVars, sessions, startDone, startOK, runVars,
                 closerVars, runSlots, closed, active, history, endOnce,
                 cancelled>>

\* ... copies its history under historyMu, and goes on to NewSession.
ForkSnapshot(s) ==
  /\ startPc[s] = "forking"
  /\ history' = [history EXCEPT ![s] = history[forkOf[s]]]
  /\ startPc' = [startPc EXCEPT ![s] = "forked"]
  /\ UNCHANGED <<agentVars, initVars, sessions, forkOf, startDone, startOK,
                 runVars, closerVars, runSlots, closed, active, endOnce,
                 cancelled>>

\* newSession refuses a closed Agent and a taken ID.
MayRegister(s) == ~agentClosed /\ sessions[IdOf[s]] = NoSession

\* A new registry takes over the MCP tools known so far.
InheritsTools(s) == [registry EXCEPT ![s] = mcpTools]

\* Under sessionsMu: check, fill the registry and publish the Session.
Register(s) ==
  /\ startPc[s] \in {"new", "forked"}
  /\ MayRegister(s)
  /\ sessions' = [sessions EXCEPT ![IdOf[s]] = s]
  /\ registry' = InheritsTools(s)
  /\ startPc' = [startPc EXCEPT ![s] = "hook"]
  /\ UNCHANGED <<agentVars, mcpTools, initSlot, initPc, initTodo, forkOf,
                 startDone, startOK, runVars, closerVars, runSlots, closed,
                 active, history, endOnce, cancelled>>

\* close(startDone), which the closers of the Session wait for.
StartEnds(s) == startDone' = [startDone EXCEPT ![s] = TRUE]

\* The SessionStart hook returned without error or block.
StartHookPasses(s) ==
  /\ startPc[s] = "hook"
  /\ startPc' = [startPc EXCEPT ![s] = "started"]
  /\ startOK' = [startOK EXCEPT ![s] = TRUE]
  /\ StartEnds(s)
  /\ UNCHANGED <<agentVars, initVars, sessions, forkOf, runVars, closerVars, runSlots,
                 closed, active, history, endOnce, cancelled>>

\* It failed: the Session leaves the map, if the entry is still its own.
StartHookFails(s) ==
  /\ startPc[s] = "hook"
  /\ sessions' = IF Registered(s) THEN [sessions EXCEPT ![IdOf[s]] = NoSession]
                                  ELSE sessions
  /\ startPc' = [startPc EXCEPT ![s] = "unregistered"]
  /\ UNCHANGED <<agentVars, initVars, forkOf, startDone, startOK, runVars, closerVars,
                 runSlots, closed, active, history, endOnce, cancelled>>

\* Then, under runMu, it is closed, and startDone releases its closers.
MarkStartFailed(s) ==
  /\ startPc[s] = "unregistered"
  /\ closed' = [closed EXCEPT ![s] = TRUE]
  /\ startPc' = [startPc EXCEPT ![s] = "failed"]
  /\ StartEnds(s)
  /\ UNCHANGED <<agentVars, initVars, sessions, forkOf, startOK, runVars, closerVars,
                 runSlots, active, history, endOnce, cancelled>>

-----------------------------------------------------------------------------
(***************************************************************************)
(* Session.Start, the Run's goroutine and Run.complete                     *)
(***************************************************************************)
\* The conditions under which Start returns an error before reserving.
Refused(r, s) == agentClosed \/ closed[s] \/ cancelled[r] \/ active[s] # NoRun

StartRefused(r, s) ==
  /\ runPc[r] = "idle" /\ Known(s) /\ Refused(r, s)
  /\ runPc' = [runPc EXCEPT ![r] = "rejected"]
  /\ runSession' = [runSession EXCEPT ![r] = s]
  /\ UNCHANGED <<agentVars, initVars, startVars, closerVars, hasCapacity,
                 written, runSlots, closed, active, history, endOnce,
                 cancelled>>

StartReserves(r, s) ==
  /\ runPc[r] = "idle" /\ Known(s) /\ ~Refused(r, s)
  /\ runPc' = [runPc EXCEPT ![r] = "waiting"]
  /\ runSession' = [runSession EXCEPT ![r] = s]
  /\ active' = [active EXCEPT ![s] = r]
  /\ UNCHANGED <<agentVars, initVars, startVars, closerVars, hasCapacity,
                 written, runSlots, closed, history, endOnce, cancelled>>

\* select: a token of runSlots ...
TakeSlot(r) ==
  /\ runPc[r] = "waiting"
  /\ runSlots < MaxConcurrentRuns
  /\ runSlots' = runSlots + 1
  /\ hasCapacity' = [hasCapacity EXCEPT ![r] = TRUE]
  /\ runPc' = [runPc EXCEPT ![r] = "recheck"]
  /\ UNCHANGED <<agentVars, initVars, startVars, closerVars, runSession,
                 written, closed, active, history, endOnce, cancelled>>

\* ... or the Run's context is done.
ContextDone(r) == cancelled[r]

AbandonWait(r) ==
  /\ runPc[r] = "waiting"
  /\ ContextDone(r)
  /\ runPc' = [runPc EXCEPT ![r] = "recheck"]
  /\ UNCHANGED <<agentVars, initVars, startVars, closerVars, hasCapacity,
                 runSession, written, runSlots, closed, active, history,
                 endOnce, cancelled>>

\* Under runMu again: start the goroutine unless something ended meanwhile.
EndedMeanwhile(r) == agentClosed \/ closed[runSession[r]] \/ cancelled[r]

Recheck(r) ==
  /\ runPc[r] = "recheck"
  /\ runPc' = [runPc EXCEPT ![r] =
                 IF EndedMeanwhile(r) THEN "completing" ELSE "running"]
  /\ UNCHANGED <<agentVars, initVars, startVars, closerVars, hasCapacity,
                 runSession, written, runSlots, closed, active, history,
                 endOnce, cancelled>>

\* runLoop appends a user, assistant or tool-result message.
AppendMessage(r) ==
  /\ Executing(r)
  /\ written[r] < MaxWrites
  /\ history' = [history EXCEPT ![runSession[r]] = Append(@, r)]
  /\ written' = [written EXCEPT ![r] = @ + 1]
  /\ UNCHANGED <<agentVars, initVars, startVars, closerVars, runPc, runSession,
                 hasCapacity, runSlots, closed, active, endOnce, cancelled>>

\* runLoop returns, with a result or an error; complete begins.
LoopReturns(r) ==
  /\ Executing(r)
  /\ runPc' = [runPc EXCEPT ![r] = "completing"]
  /\ UNCHANGED <<agentVars, initVars, startVars, closerVars, runSession,
                 hasCapacity, written, runSlots, closed, active, history,
                 endOnce, cancelled>>

\* complete, up to close(errs): Stop hook, terminal event, cancel, closed
\* streams.
Publish(r) ==
  /\ runPc[r] = "completing"
  /\ cancelled' = [cancelled EXCEPT ![r] = TRUE]
  /\ runPc' = [runPc EXCEPT ![r] = "published"]
  /\ UNCHANGED <<agentVars, initVars, startVars, closerVars, runSession,
                 hasCapacity, written, runSlots, closed, active, history,
                 endOnce>>

\* The tokens of runSlots complete gives back.
HeldTokens(r) == IF hasCapacity[r] THEN 1 ELSE 0

\* The last lock section of complete: release, become idle, close done.
Finish(r) ==
  /\ runPc[r] = "published"
  /\ runSlots' = runSlots - HeldTokens(r)
  /\ active' = IF active[runSession[r]] = r
               THEN [active EXCEPT ![runSession[r]] = NoRun] ELSE active
  /\ runPc' = [runPc EXCEPT ![r] = "finished"]
  /\ UNCHANGED <<agentVars, initVars, startVars, closerVars, runSession,
                 hasCapacity, written, closed, history, endOnce, cancelled>>

\* The host cancels the context it gave Start, or calls Run.Cancel.
Cancel(r) ==
  /\ runPc[r] \notin {"rejected", "finished"}
  /\ ~cancelled[r]
  /\ cancelled' = [cancelled EXCEPT ![r] = TRUE]
  /\ UNCHANGED <<agentVars, initVars, startVars, runVars, closerVars, runSlots,
                 closed, active, history, endOnce>>

-----------------------------------------------------------------------------
(***************************************************************************)
(* Session.Clear                                                           *)
(***************************************************************************)
Idle(s) == active[s] = NoRun

Clear(s) ==
  /\ Known(s)
  /\ history' = IF Idle(s) THEN [history EXCEPT ![s] = <<>>]
                                     ELSE history
  /\ UNCHANGED <<agentVars, initVars, startVars, runVars, closerVars, runSlots,
                 closed, active, endOnce, cancelled>>

-----------------------------------------------------------------------------
(***************************************************************************)
(* Session.Close                                                           *)
(***************************************************************************)
\* requestClose, under runMu: closed, and the Run there is to cancel.
RequestClose(c, s) ==
  /\ closed' = [closed EXCEPT ![s] = TRUE]
  /\ closerSession' = [closerSession EXCEPT ![c] = s]
  /\ closerRun' = [closerRun EXCEPT ![c] = active[s]]
  /\ closerPc' = [closerPc EXCEPT ![c] =
                    IF active[s] = NoRun THEN "joinStart" ELSE "cancel"]

\* A host closes a Session it holds.
CloseSession(c, s) ==
  /\ closerPc[c] = "idle" /\ Known(s)
  /\ RequestClose(c, s)
  /\ UNCHANGED <<agentVars, initVars, startVars, runVars, runSlots, active,
                 history, endOnce, cancelled>>

\* Outside the lock: cancel that Run.
CancelsRun(r) == cancelled' = [cancelled EXCEPT ![r] = TRUE]

CloseCancelsRun(c) ==
  /\ closerPc[c] = "cancel"
  /\ CancelsRun(closerRun[c])
  /\ closerPc' = [closerPc EXCEPT ![c] = "joinRun"]
  /\ UNCHANGED <<agentVars, initVars, startVars, runVars, closerSession,
                 closerRun, runSlots, closed, active, history, endOnce>>

\* Agent.Close joins only in its second loop.
MayJoin(c) == c = AgentCloser => agentPc = "joining"

\* <-r.done
DoneClosed(r) == runPc[r] = "finished"

CloseJoinsRun(c) ==
  /\ MayJoin(c)
  /\ closerPc[c] = "joinRun"
  /\ DoneClosed(closerRun[c])
  /\ closerPc' = [closerPc EXCEPT ![c] = "joinStart"]
  /\ UNCHANGED <<agentVars, initVars, startVars, runVars, closerSession,
                 closerRun, runSlots, closed, active, history, endOnce,
                 cancelled>>

\* Whether this closer is the one to run the SessionEnd hook.
EndsSession(s) == startOK[s] /\ endOnce[s] = "unused"

\* <-s.startDone, then nothing more for a Session that never started, or when
\* endOnce has been done; otherwise this closer runs the SessionEnd hook.  A
\* closer that finds endOnce running waits for it.
CloseJoinsStart(c) ==
  LET s == closerSession[c] IN
  /\ MayJoin(c)
  /\ closerPc[c] = "joinStart"
  /\ startDone[s]
  /\ startOK[s] => endOnce[s] # "running"
  /\ IF EndsSession(s)
     THEN /\ endOnce' = [endOnce EXCEPT ![s] = "running"]
          /\ closerPc' = [closerPc EXCEPT ![c] = "ending"]
     ELSE /\ closerPc' = [closerPc EXCEPT ![c] = "done"]
          /\ UNCHANGED endOnce
  /\ UNCHANGED <<agentVars, initVars, startVars, runVars, closerSession,
                 closerRun, runSlots, closed, active, history, cancelled>>

\* The SessionEnd hook has returned.
CloseEndsSession(c) ==
  /\ closerPc[c] = "ending"
  /\ endOnce' = [endOnce EXCEPT ![closerSession[c]] = "done"]
  /\ closerPc' = [closerPc EXCEPT ![c] = "done"]
  /\ UNCHANGED <<agentVars, initVars, startVars, runVars, closerSession,
                 closerRun, runSlots, closed, active, history, cancelled>>

-----------------------------------------------------------------------------
(***************************************************************************)
(* Agent.Close                                                             *)
(***************************************************************************)
\* Under sessionsMu: closed, and a snapshot of the sessions.
AgentCloseBegins ==
  /\ agentPc = "open"
  /\ agentClosed' = TRUE
  /\ agentSnapshot' = {s \in Sessions : Registered(s)}
  /\ agentPc' = "cancelLifetime"
  /\ UNCHANGED <<lifetimeDone, agentTodo, mcpClosed, initVars, startVars, runVars,
                 closerVars, runSlots, closed, active, history, endOnce,
                 cancelled>>

AgentCancelsLifetime ==
  /\ agentPc = "cancelLifetime"
  /\ lifetimeDone' = TRUE
  /\ agentPc' = "requesting"
  /\ agentTodo' = agentSnapshot
  /\ UNCHANGED <<agentClosed, agentSnapshot, mcpClosed, initVars, startVars,
                 runVars, closerVars, runSlots, closed, active, history,
                 endOnce, cancelled>>

\* The first loop calls requestClose for each session: its lock section is the
\* first action, its Cancel the second.
AgentRequestsClose(s) ==
  /\ agentPc = "requesting" /\ s \in agentTodo
  /\ closerPc[AgentCloser] # "cancel"
  /\ RequestClose(AgentCloser, s)
  /\ agentTodo' = agentTodo \ {s}
  /\ UNCHANGED <<agentClosed, lifetimeDone, agentPc, agentSnapshot, mcpClosed,
                 initVars, startVars, runVars, runSlots, active, history,
                 endOnce, cancelled>>

\* All sessions are cancelled; the second loop closes each of them.
AgentBeginsJoining ==
  /\ agentPc = "requesting" /\ agentTodo = {}
  /\ closerPc[AgentCloser] # "cancel"
  /\ agentPc' = "joining"
  /\ agentTodo' = agentSnapshot
  /\ closerPc' = [closerPc EXCEPT ![AgentCloser] = "done"]
  /\ UNCHANGED <<agentClosed, lifetimeDone, agentSnapshot, mcpClosed, initVars,
                 startVars, runVars, closerSession, closerRun, runSlots, closed,
                 active, history, endOnce, cancelled>>

AgentClosesSession(s) ==
  /\ agentPc = "joining" /\ s \in agentTodo
  /\ closerPc[AgentCloser] = "done"
  /\ RequestClose(AgentCloser, s)
  /\ agentTodo' = agentTodo \ {s}
  /\ UNCHANGED <<agentClosed, lifetimeDone, agentPc, agentSnapshot, mcpClosed,
                 initVars, startVars, runVars, runSlots, active, history,
                 endOnce, cancelled>>

AgentJoinedSessions ==
  /\ agentPc = "joining" /\ agentTodo = {}
  /\ closerPc[AgentCloser] = "done"
  /\ agentPc' = "initWait"
  /\ UNCHANGED <<agentClosed, lifetimeDone, agentSnapshot, agentTodo, mcpClosed,
                 initVars, startVars, runVars, closerVars, runSlots, closed,
                 active, history, endOnce, cancelled>>

\* The Init calls counted by initWG.
InitBusy(i) == initPc[i] \in {"waiting", "connecting"}

AgentWaitsForInit ==
  /\ agentPc = "initWait"
  /\ \A i \in Inits : ~InitBusy(i)
  /\ agentPc' = "closeMcp"
  /\ UNCHANGED <<agentClosed, lifetimeDone, agentSnapshot, agentTodo, mcpClosed,
                 initVars, startVars, runVars, closerVars, runSlots, closed,
                 active, history, endOnce, cancelled>>

AgentClosesMcp ==
  /\ agentPc = "closeMcp"
  /\ mcpClosed' = TRUE
  /\ agentPc' = "closed"
  /\ UNCHANGED <<agentClosed, lifetimeDone, agentSnapshot, agentTodo, initVars,
                 startVars, runVars, closerVars, runSlots, closed, active,
                 history, endOnce, cancelled>>

-----------------------------------------------------------------------------
(***************************************************************************)
(* Agent.Init                                                              *)
(***************************************************************************)
notInitVars == <<agentVars, startVars, runVars, closerVars, runSlots, closed,
                 active, history, endOnce, cancelled>>

\* Under sessionsMu: refuse a closed Agent or join initWG.
WaitsUnlessClosed(i) == IF agentClosed THEN "returned" ELSE "waiting"

InitBegins(i) ==
  /\ initPc[i] = "idle"
  /\ initPc' = [initPc EXCEPT ![i] = WaitsUnlessClosed(i)]
  /\ UNCHANGED <<notInitVars, mcpTools, registry, initSlot, initTodo>>

\* One Init at a time connects.
InitTakesSlot(i) ==
  /\ initPc[i] = "waiting" /\ initSlot = NoInit
  /\ initSlot' = i
  /\ initPc' = [initPc EXCEPT ![i] = "connecting"]
  /\ initTodo' = [initTodo EXCEPT ![i] = McpTools]
  /\ UNCHANGED <<notInitVars, mcpTools, registry>>

\* Its own context or the Agent's lifetime ended while it waited, or was found
\* ended when it had the slot.
InitGivesUp(i) ==
  /\ initPc[i] = "waiting" \/ (initPc[i] = "connecting" /\ initTodo[i] = McpTools)
  /\ initPc' = [initPc EXCEPT ![i] = "returned"]
  /\ initSlot' = IF initSlot = i THEN NoInit ELSE initSlot
  /\ initTodo' = [initTodo EXCEPT ![i] = {}]
  /\ UNCHANGED <<notInitVars, mcpTools, registry>>

\* A server answered: under sessionsMu its tool becomes one of mcpTools and of
\* every registered Session.
InitConnects(i, t) ==
  /\ initPc[i] = "connecting" /\ t \in initTodo[i]
  /\ initTodo' = [initTodo EXCEPT ![i] = @ \ {t}]
  /\ mcpTools' = mcpTools \cup {t}
  /\ registry' = [s \in Sessions |-> IF Registered(s) THEN registry[s] \cup {t}
                                                      ELSE registry[s]]
  /\ UNCHANGED <<notInitVars, initSlot, initPc>>

\* A server could not be reached: logged and skipped.
InitSkips(i, t) ==
  /\ initPc[i] = "connecting" /\ t \in initTodo[i]
  /\ initTodo' = [initTodo EXCEPT ![i] = @ \ {t}]
  /\ UNCHANGED <<notInitVars, mcpTools, registry, initSlot, initPc>>

\* The deferred calls: free initSlot, leave initWG.
FreesSlotAndLeaves(i) ==
  initSlot' = NoInit /\ initPc' = [initPc EXCEPT ![i] = "returned"]

InitReturns(i) ==
  /\ initPc[i] = "connecting" /\ initTodo[i] = {}
  /\ FreesSlotAndLeaves(i)
  /\ UNCHANGED <<notInitVars, mcpTools, registry, initTodo>>

-----------------------------------------------------------------------------
SessionNext(s) ==
  \/ \E p \in Sessions : ForkCheck(s, p)
  \/ ForkSnapshot(s) \/ Register(s)
  \/ StartHookPasses(s) \/ StartHookFails(s) \/ MarkStartFailed(s)
  \/ Clear(s)

RunNext(r) ==
  \/ \E s \in Sessions : StartRefused(r, s) \/ StartReserves(r, s)
  \/ TakeSlot(r) \/ AbandonWait(r) \/ Recheck(r)
  \/ AppendMessage(r) \/ LoopReturns(r) \/ Publish(r) \/ Finish(r)
  \/ Cancel(r)

CloserNext(c) ==
  \/ CloseCancelsRun(c) \/ CloseJoinsRun(c) \/ CloseJoinsStart(c)
  \/ CloseEndsSession(c)

AgentNext ==
  \/ AgentCloseBegins \/ AgentCancelsLifetime
  \/ \E s \in Sessions : AgentRequestsClose(s) \/ AgentClosesSession(s)
  \/ AgentBeginsJoining \/ AgentJoinedSessions
  \/ AgentWaitsForInit \/ AgentClosesMcp

InitNext(i) ==
  \/ InitBegins(i) \/ InitTakesSlot(i) \/ InitGivesUp(i) \/ InitReturns(i)
  \/ \E t \in McpTools : InitConnects(i, t) \/ InitSkips(i, t)

Next ==
  \/ \E s \in Sessions : SessionNext(s)
  \/ \E r \in Runs : RunNext(r)
  \/ \E c \in Closers, s \in Sessions : CloseSession(c, s)
  \/ \E c \in AllClosers : CloserNext(c)
  \/ AgentNext
  \/ \E i \in Inits : InitNext(i)

Spec == Init /\ [][Next]_vars

-----------------------------------------------------------------------------
(***************************************************************************)
(* Fairness.  The Go scheduler runs every goroutine that can step.  Code   *)
(* of the host (SessionStart hooks, providers, tools, MCP servers) is only *)
(* assumed to return once its context is cancelled: the lifetime for hooks *)
(* and Init, the Run's context for runLoop.  Stop and SessionEnd hooks run *)
(* under a two second timeout.                                             *)
(***************************************************************************)
SessionFairness(s) ==
  /\ WF_vars(lifetimeDone /\ (StartHookPasses(s) \/ StartHookFails(s)))
  /\ WF_vars(MarkStartFailed(s))

RunFairness(r) ==
  /\ WF_vars(TakeSlot(r) \/ AbandonWait(r))
  /\ WF_vars(Recheck(r))
  /\ WF_vars(cancelled[r] /\ LoopReturns(r))
  /\ WF_vars(Publish(r))
  /\ WF_vars(Finish(r))

AgentFairness ==
  /\ WF_vars(AgentCancelsLifetime)
  /\ WF_vars(\E s \in Sessions : AgentRequestsClose(s))
  /\ WF_vars(\E s \in Sessions : AgentClosesSession(s))
  /\ WF_vars(AgentBeginsJoining)
  /\ WF_vars(AgentJoinedSessions)
  /\ WF_vars(AgentWaitsForInit)
  /\ WF_vars(AgentClosesMcp)

InitFairness(i) ==
  /\ WF_vars(lifetimeDone /\ InitGivesUp(i))
  /\ WF_vars(lifetimeDone /\ \E t \in McpTools : InitConnects(i, t)
                                             \/ InitSkips(i, t))
  /\ WF_vars(InitReturns(i))

FairSpec ==
  /\ Spec
  /\ \A s \in Sessions : SessionFairness(s)
  /\ \A r \in Runs : RunFairness(r)
  /\ \A c \in AllClosers : WF_vars(CloserNext(c))
  /\ AgentFairness
  /\ \A i \in Inits : InitFairness(i)

-----------------------------------------------------------------------------
(***************************************************************************)
(* Properties                                                              *)
(***************************************************************************)
\* Every variable but runSlots has its type.
ShapeOK ==
  /\ agentClosed \in BOOLEAN /\ lifetimeDone \in BOOLEAN
  /\ sessions \in [Ids -> Sessions \cup {NoSession}]
  /\ agentPc \in AgentPcs
  /\ agentSnapshot \in SUBSET Sessions /\ agentTodo \in SUBSET Sessions
  /\ mcpClosed \in BOOLEAN
  /\ mcpTools \in SUBSET McpTools
  /\ initSlot \in Inits \cup {NoInit}
  /\ initPc \in [Inits -> InitPcs]
  /\ initTodo \in [Inits -> SUBSET McpTools]
  /\ startPc \in [Sessions -> StartPcs]
  /\ forkOf \in [Sessions -> Sessions \cup {NoSession}]
  /\ startDone \in [Sessions -> BOOLEAN]
  /\ startOK \in [Sessions -> BOOLEAN]
  /\ closed \in [Sessions -> BOOLEAN]
  /\ active \in [Sessions -> Runs \cup {NoRun}]
  /\ history \in [Sessions -> Seq(Runs)]
  /\ registry \in [Sessions -> SUBSET McpTools]
  /\ endOnce \in [Sessions -> {"unused", "running", "done"}]
  /\ runPc \in [Runs -> RunPcs]
  /\ runSession \in [Runs -> Sessions \cup {NoSession}]
  /\ hasCapacity \in [Runs -> BOOLEAN]
  /\ cancelled \in [Runs -> BOOLEAN]
  /\ written \in [Runs -> 0 .. MaxWrites]
  /\ closerPc \in [AllClosers -> CloserPcs]
  /\ closerSession \in [AllClosers -> Sessions \cup {NoSession}]
  /\ closerRun \in [AllClosers -> Runs \cup {NoRun}]

\* ... and runSlots is the length of a channel: complete never takes a token
\* back that is not there, which would block it for ever under runMu.
TypeOK == ShapeOK /\ runSlots \in 0 .. MaxConcurrentRuns

\* The tokens in runSlots are those of the Runs that took one and have not
\* finished: no outcome of Start or complete leaks or returns one twice.
SlotAccounting ==
  runSlots = Cardinality({r \in Runs : hasCapacity[r] /\ InFlight(r)})

\* At most MaxConcurrentRuns Runs execute, over all Sessions, although a Start
\* whose context ends passes the capacity select without a token.
CapacityBound ==
  Cardinality({r \in Runs : Executing(r)}) <= MaxConcurrentRuns

\* A reserved Run is its Session's active one until its done channel closes, so
\* a Session never has two of them, not even one waiting and one executing.
OneActiveRun ==
  \A r \in Runs : InFlight(r) => active[runSession[r]] = r

\* What an unfinished Run has appended is still the end of its Session's
\* history: no Clear, other Run or failed Start came between.
HistoryIntact ==
  \A r \in Runs : InFlight(r) =>
    LET h == history[runSession[r]] IN
    /\ Len(h) >= written[r]
    /\ \A k \in 0 .. MaxWrites : k < written[r] => h[Len(h) - k] = r

\* Once some Close has set closed, the Session's Run is cancelled or the closer
\* that saw it is about to: a Start racing with Close cannot slip through.
ClosedRunIsCancelled ==
  \A s \in Sessions :
    closed[s] /\ startPc[s] # "failed" /\ active[s] # NoRun =>
      \/ cancelled[active[s]]
      \/ \E c \in AllClosers : closerPc[c] = "cancel" /\ closerRun[c] = active[s]

\* When Session.Close returns, to any of its callers, the Session has no Run,
\* and its SessionEnd hook has returned if its SessionStart hook succeeded.
CloseJoins ==
  \A c \in Closers : closerPc[c] = "done" =>
    LET s == closerSession[c] IN
    active[s] = NoRun /\ (startOK[s] => endOnce[s] = "done")

\* SessionEnd hooks run only for Sessions whose SessionStart hook succeeded,
\* and only after the last Run of the Session.
SessionEndIsLast ==
  \A s \in Sessions : endOnce[s] # "unused" => startOK[s] /\ active[s] = NoRun

\* Agent.Close closes the MCP client only when every Session in the map has
\* ended: no Run, SessionStart returned, SessionEnd hook done.
McpClosedAfterSessions ==
  agentPc \in {"initWait", "closeMcp", "closed"} =>
    \A s \in Sessions : Registered(s) =>
      startDone[s] /\ active[s] = NoRun /\ (startOK[s] => endOnce[s] = "done")

\* ... and no Init is, or will be, connecting servers to the closed client.
McpClosedAfterInit ==
  agentPc \in {"closeMcp", "closed"} => \A i \in Inits : ~InitBusy(i)

\* A Session in the map has every MCP tool connected so far, whether it was
\* registered before, between or after the registrations of Init.
ToolsReachSessions ==
  \A s \in Sessions : Registered(s) => mcpTools \subseteq registry[s]

\* Agent.Close returns, past the Inits that wait for the slot and for each other.
AgentCloseReturns == agentPc # "open" ~> agentPc = "closed"

\* Session.Close returns once the SessionStart hook has.
CloseReturns ==
  \A c \in Closers :
    closerPc[c] # "idle" /\ startDone[closerSession[c]] ~> closerPc[c] = "done"

\* Session.Close and Agent.Close both return when they meet each other, Runs and
\* the hooks: the one that closes second waits for the first one's SessionEnd.
EveryCloseReturns == CloseReturns /\ AgentCloseReturns

\* A cancelled Run finishes, and a Start waiting for capacity with it.
CancelledRunFinishes ==
  \A r \in Runs : InFlight(r) /\ cancelled[r] ~> runPc[r] = "finished"

\* "Agent.Close first cancels all Sessions and then joins them before closing
\* shared MCP resources" (docs/runtime-concurrency.md): no Run executes then.
NoRunAfterMcpClose == mcpClosed => \A r \in Runs : ~Executing(r)
=============================================================================

------------------------- MODULE AgentRuntimeProofs -------------------------
(***************************************************************************)
(* Proofs of the safety properties of AgentRuntime for all values of its   *)
(* constants.  The inductive invariant has one part per group of           *)
(* variables: Runs, Session start, closers, Agent.Close, Init, history.    *)
(***************************************************************************)
EXTENDS AgentRuntime, FiniteSetTheorems, TLAPS

-----------------------------------------------------------------------------
(***************************************************************************)
(* The inductive invariant                                                 *)
(***************************************************************************)
Holders == {r \in Runs : hasCapacity[r] /\ InFlight(r)}

\* What a Run's location says of its Session, its token and its context.
RunInv ==
  /\ \A r \in Runs : runPc[r] # "idle" => /\ runSession[r] \in Sessions
                                          /\ Known(runSession[r])
  /\ \A r \in Runs : hasCapacity[r] => runPc[r] \notin {"idle", "rejected", "waiting"}
  /\ \A r \in Runs : runPc[r] = "recheck" => hasCapacity[r] \/ cancelled[r]
  /\ \A r \in Runs : Executing(r) => hasCapacity[r]

\* active and the unfinished Runs are each other's inverse.
ActiveInv ==
  /\ OneActiveRun
  /\ \A s \in Sessions : active[s] # NoRun =>
       /\ InFlight(active[s])
       /\ runSession[active[s]] = s

SlotInv == SlotAccounting /\ runSlots <= MaxConcurrentRuns

\* newSession: its outcome, the map entry, and the closed flag of a failure.
StartInv ==
  /\ \A s \in Sessions : startDone[s] <=> startPc[s] \in {"started", "failed"}
  /\ \A s \in Sessions : startOK[s] <=> startPc[s] = "started"
  /\ \A s \in Sessions : startPc[s] = "forking" => forkOf[s] \in Sessions
  /\ \A s \in Sessions : Registered(s) => startPc[s] \in {"hook", "started"}
  /\ \A s \in Sessions : startPc[s] = "failed" => closed[s]

\* The Session, and the Run, a closer is at work on.
CloserInv ==
  /\ \A c \in AllClosers : closerPc[c] \in {"cancel", "joinRun", "joinStart", "ending"} =>
       closerSession[c] \in Sessions /\ closed[closerSession[c]]
  /\ \A c \in AllClosers : closerPc[c] \in {"cancel", "joinRun"} =>
       /\ closerRun[c] \in Runs
       /\ runPc[closerRun[c]] # "idle"
       /\ active[closerSession[c]] \in {closerRun[c], NoRun}
  /\ \A c \in AllClosers : closerPc[c] \in {"joinStart", "ending"} =>
       active[closerSession[c]] = NoRun
  /\ \A c \in AllClosers : closerPc[c] = "ending" => startOK[closerSession[c]]

\* A Session a closer is done with.
Ended(s) ==
  /\ closed[s] /\ startDone[s]
  /\ active[s] = NoRun
  /\ startOK[s] => endOnce[s] = "done"

\* What a closer that is done has achieved.
EndInv ==
  /\ \A s \in Sessions : endOnce[s] # "unused" =>
       startOK[s] /\ closed[s] /\ active[s] = NoRun
  /\ \A c \in Closers : closerPc[c] = "done" =>
       closerSession[c] \in Sessions /\ Ended(closerSession[c])

\* The progress of Agent.Close over its snapshot.
AgentInv ==
  /\ agentClosed <=> agentPc # "open"
  /\ agentClosed => \A s \in Sessions : Registered(s) => s \in agentSnapshot
  /\ agentPc = "joining" =>
       \A s \in agentSnapshot \ agentTodo :
         Ended(s) \/ (closerSession[AgentCloser] = s /\ closerPc[AgentCloser] # "done")
  /\ agentPc \in {"initWait", "closeMcp", "closed"} =>
       \A s \in agentSnapshot : Ended(s)

\* A Run that has not been reserved has written nothing.
HistoryInv ==
  /\ HistoryIntact
  /\ \A r \in Runs : runPc[r] = "idle" => written[r] = 0

IInv ==
  /\ ShapeOK /\ RunInv /\ ActiveInv /\ SlotInv /\ StartInv /\ CloserInv
  /\ ClosedRunIsCancelled /\ EndInv /\ AgentInv
  /\ McpClosedAfterInit /\ ToolsReachSessions /\ HistoryInv

-----------------------------------------------------------------------------
(***************************************************************************)
(* Frames: what each group of actions leaves alone                         *)
(***************************************************************************)
\* Fork, newSession and Clear change the start of a Session, its history and
\* registry, and in MarkStartFailed its closed flag.
LEMMA SessionFrame ==
  ASSUME NEW s \in Sessions, SessionNext(s)
  PROVE  UNCHANGED <<agentVars, mcpTools, initSlot, initPc, initTodo, runVars,
                     closerVars, runSlots, active, endOnce, cancelled>>
<1> USE DEF agentVars, initVars, startVars, runVars, closerVars
<1>1. CASE \E q \in Sessions : ForkCheck(s, q)
  BY <1>1 DEF ForkCheck
<1>2. CASE ForkSnapshot(s)      BY <1>2 DEF ForkSnapshot
<1>3. CASE Register(s)          BY <1>3 DEF Register
<1>4. CASE StartHookPasses(s)   BY <1>4 DEF StartHookPasses
<1>5. CASE StartHookFails(s)    BY <1>5 DEF StartHookFails
<1>6. CASE MarkStartFailed(s)   BY <1>6 DEF MarkStartFailed
<1>7. CASE Clear(s)             BY <1>7 DEF Clear
<1>8. QED
  BY <1>1, <1>2, <1>3, <1>4, <1>5, <1>6, <1>7 DEF SessionNext

\* Start, the Run and complete change neither the Agent, its Sessions' closed
\* flags, nor closers.
LEMMA RunFrame ==
  ASSUME NEW r \in Runs, RunNext(r)
  PROVE  UNCHANGED <<agentVars, initVars, startVars, closerVars, closed, endOnce>>
<1> USE DEF agentVars, initVars, startVars, runVars, closerVars
<1>1. CASE \E s \in Sessions : StartRefused(r, s)  BY <1>1 DEF StartRefused
<1>2. CASE \E s \in Sessions : StartReserves(r, s) BY <1>2 DEF StartReserves
<1>3. CASE TakeSlot(r)       BY <1>3 DEF TakeSlot
<1>4. CASE AbandonWait(r)    BY <1>4 DEF AbandonWait
<1>5. CASE Recheck(r)        BY <1>5 DEF Recheck
<1>6. CASE AppendMessage(r)  BY <1>6 DEF AppendMessage
<1>7. CASE LoopReturns(r)    BY <1>7 DEF LoopReturns
<1>8. CASE Publish(r)        BY <1>8 DEF Publish
<1>9. CASE Finish(r)         BY <1>9 DEF Finish
<1>10. CASE Cancel(r)        BY <1>10 DEF Cancel
<1>11. QED
  BY <1>1, <1>2, <1>3, <1>4, <1>5, <1>6, <1>7, <1>8, <1>9, <1>10 DEF RunNext

\* Closers change only what they record, closed, endOnce and cancelled.
LEMMA CloserFrame ==
  ASSUME \/ \E c \in Closers, s \in Sessions : CloseSession(c, s)
         \/ \E c \in AllClosers : CloserNext(c)
  PROVE  UNCHANGED <<agentVars, initVars, startVars, runVars, runSlots, active,
                     history>>
<1> USE DEF agentVars, initVars, startVars, runVars, closerVars
<1>1. CASE \E c \in Closers, s \in Sessions : CloseSession(c, s)
  BY <1>1 DEF CloseSession
<1>2. ASSUME NEW c \in AllClosers, CloserNext(c)
      PROVE  UNCHANGED <<agentVars, initVars, startVars, runVars, runSlots,
                         active, history>>
  <2>1. CASE CloseCancelsRun(c)  BY <2>1 DEF CloseCancelsRun
  <2>2. CASE CloseJoinsRun(c)    BY <2>2 DEF CloseJoinsRun
  <2>3. CASE CloseJoinsStart(c)  BY <2>3 DEF CloseJoinsStart
  <2>4. CASE CloseEndsSession(c) BY <2>4 DEF CloseEndsSession
  <2>5. QED BY <1>2, <2>1, <2>2, <2>3, <2>4 DEF CloserNext
<1>3. QED BY <1>1, <1>2

\* Agent.Close changes its own variables, its closer and closed.
LEMMA AgentFrame ==
  ASSUME AgentNext
  PROVE  UNCHANGED <<initVars, startVars, runVars, runSlots, active, history,
                     endOnce, cancelled>>
<1> USE DEF agentVars, initVars, startVars, runVars, closerVars
<1>1. CASE AgentCloseBegins      BY <1>1 DEF AgentCloseBegins
<1>2. CASE AgentCancelsLifetime  BY <1>2 DEF AgentCancelsLifetime
<1>3. CASE \E s \in Sessions : AgentRequestsClose(s)
  BY <1>3 DEF AgentRequestsClose
<1>4. CASE \E s \in Sessions : AgentClosesSession(s)
  BY <1>4 DEF AgentClosesSession
<1>5. CASE AgentBeginsJoining    BY <1>5 DEF AgentBeginsJoining
<1>6. CASE AgentJoinedSessions   BY <1>6 DEF AgentJoinedSessions
<1>7. CASE AgentWaitsForInit     BY <1>7 DEF AgentWaitsForInit
<1>8. CASE AgentClosesMcp        BY <1>8 DEF AgentClosesMcp
<1>9. QED
  BY <1>1, <1>2, <1>3, <1>4, <1>5, <1>6, <1>7, <1>8 DEF AgentNext

\* Init changes only its own variables.
LEMMA InitFrame ==
  ASSUME NEW i \in Inits, InitNext(i)
  PROVE  UNCHANGED notInitVars
<1>1. CASE InitBegins(i)    BY <1>1 DEF InitBegins
<1>2. CASE InitTakesSlot(i) BY <1>2 DEF InitTakesSlot
<1>3. CASE InitGivesUp(i)   BY <1>3 DEF InitGivesUp
<1>4. CASE InitReturns(i)   BY <1>4 DEF InitReturns
<1>5. CASE \E t \in McpTools : InitConnects(i, t) BY <1>5 DEF InitConnects
<1>6. CASE \E t \in McpTools : InitSkips(i, t)    BY <1>6 DEF InitSkips
<1>7. QED BY <1>1, <1>2, <1>3, <1>4, <1>5, <1>6 DEF InitNext

-----------------------------------------------------------------------------
(***************************************************************************)
(* Types                                                                   *)
(***************************************************************************)
\* The initial state has the types.
LEMMA ShapeInit == Init => ShapeOK
<1> SUFFICES ASSUME Init PROVE ShapeOK
  OBVIOUS
<1>1. /\ history \in [Sessions -> Seq(Runs)]
      /\ written \in [Runs -> 0 .. MaxWrites]
  <2>1. <<>> \in Seq(Runs) /\ 0 \in 0 .. MaxWrites
    BY WritesAssumption
  <2>2. QED
    BY <2>1 DEF Init
<1>2. QED
  BY <1>1, IdAssumption
  DEF Init, ShapeOK, AgentPcs, InitPcs, StartPcs, RunPcs, CloserPcs, AllClosers

\* Every action keeps the types; ForkSnapshot needs to know its parent.
LEMMA ShapeStep ==
  ASSUME ShapeOK, StartInv, [Next]_vars
  PROVE  ShapeOK'
<1> USE IdAssumption, WritesAssumption
    DEF ShapeOK, AgentPcs, InitPcs, StartPcs, RunPcs, CloserPcs, AllClosers,
        agentVars, initVars, startVars, runVars, closerVars, notInitVars
<1>1. CASE UNCHANGED vars
  BY <1>1 DEF vars
<1>2. ASSUME NEW s \in Sessions, SessionNext(s)
      PROVE  ShapeOK'
  <2>1. CASE \E q \in Sessions : ForkCheck(s, q)
    BY <2>1 DEF ForkCheck
  <2>2. CASE ForkSnapshot(s)
    BY <2>2 DEF ForkSnapshot, StartInv
  <2>3. CASE Register(s)
    BY <2>3 DEF Register, InheritsTools
  <2>4. CASE StartHookPasses(s)
    BY <2>4 DEF StartHookPasses, StartEnds
  <2>5. CASE StartHookFails(s)
    BY <2>5 DEF StartHookFails
  <2>6. CASE MarkStartFailed(s)
    BY <2>6 DEF MarkStartFailed, StartEnds
  <2>7. CASE Clear(s)
    BY <2>7 DEF Clear
  <2>8. QED
    BY <1>2, <2>1, <2>2, <2>3, <2>4, <2>5, <2>6, <2>7 DEF SessionNext
<1>3. ASSUME NEW r \in Runs, RunNext(r)
      PROVE  ShapeOK'
  <2>1. CASE \E s \in Sessions : StartRefused(r, s)
    BY <2>1 DEF StartRefused
  <2>2. CASE \E s \in Sessions : StartReserves(r, s)
    BY <2>2 DEF StartReserves
  <2>3. CASE TakeSlot(r)
    BY <2>3 DEF TakeSlot
  <2>4. CASE AbandonWait(r)
    BY <2>4 DEF AbandonWait
  <2>5. CASE Recheck(r)
    BY <2>5 DEF Recheck
  <2>6. CASE AppendMessage(r)
    <3>1. history' \in [Sessions -> Seq(Runs)]
      <4>1. \A h \in Seq(Runs) : Append(h, r) \in Seq(Runs)
        OBVIOUS
      <4>2. \A s \in Sessions : history'[s] \in Seq(Runs)
        BY <2>6, <4>1 DEF AppendMessage
      <4>3. QED
        BY <2>6, <4>2 DEF AppendMessage
    <3>2. written' \in [Runs -> 0 .. MaxWrites]
      BY <2>6 DEF AppendMessage
    <3>3. QED
      BY <2>6, <3>1, <3>2 DEF AppendMessage
  <2>7. CASE LoopReturns(r)
    BY <2>7 DEF LoopReturns
  <2>8. CASE Publish(r)
    BY <2>8 DEF Publish
  <2>9. CASE Finish(r)
    BY <2>9 DEF Finish
  <2>10. CASE Cancel(r)
    BY <2>10 DEF Cancel
  <2>11. QED
    BY <1>3, <2>1, <2>2, <2>3, <2>4, <2>5, <2>6, <2>7, <2>8, <2>9, <2>10 DEF RunNext
<1>4. CASE \E c \in Closers, s \in Sessions : CloseSession(c, s)
  BY <1>4 DEF CloseSession, RequestClose
<1>5. ASSUME NEW c \in AllClosers, CloserNext(c)
      PROVE  ShapeOK'
  <2>1. CASE CloseCancelsRun(c)
    BY <2>1 DEF CloseCancelsRun, CancelsRun
  <2>2. CASE CloseJoinsRun(c)
    BY <2>2 DEF CloseJoinsRun
  <2>3. CASE CloseJoinsStart(c)
    <3>1. \E l \in {"ending", "done"} : closerPc' = [closerPc EXCEPT ![c] = l]
      BY <2>3 DEF CloseJoinsStart
    <3>2. endOnce' = endOnce \/ endOnce' = [endOnce EXCEPT ![closerSession[c]] = "running"]
      BY <2>3 DEF CloseJoinsStart
    <3>3. UNCHANGED <<agentVars, initVars, startVars, runVars, closerSession,
                      closerRun, runSlots, closed, active, history, cancelled>>
      BY <2>3 DEF CloseJoinsStart
    <3>4. QED
      BY <3>1, <3>2, <3>3
  <2>4. CASE CloseEndsSession(c)
    BY <2>4 DEF CloseEndsSession
  <2>5. QED
    BY <1>5, <2>1, <2>2, <2>3, <2>4 DEF CloserNext
<1>6. CASE AgentNext
  <2>1. CASE AgentCloseBegins
    BY <2>1 DEF AgentCloseBegins
  <2>2. CASE AgentCancelsLifetime
    BY <2>2 DEF AgentCancelsLifetime
  <2>3. CASE \E s \in Sessions : AgentRequestsClose(s)
    BY <2>3 DEF AgentRequestsClose, RequestClose
  <2>4. CASE \E s \in Sessions : AgentClosesSession(s)
    BY <2>4 DEF AgentClosesSession, RequestClose
  <2>5. CASE AgentBeginsJoining
    BY <2>5 DEF AgentBeginsJoining
  <2>6. CASE AgentJoinedSessions
    BY <2>6 DEF AgentJoinedSessions
  <2>7. CASE AgentWaitsForInit
    BY <2>7 DEF AgentWaitsForInit
  <2>8. CASE AgentClosesMcp
    BY <2>8 DEF AgentClosesMcp
  <2>9. QED
    BY <1>6, <2>1, <2>2, <2>3, <2>4, <2>5, <2>6, <2>7, <2>8 DEF AgentNext
<1>7. ASSUME NEW i \in Inits, InitNext(i)
      PROVE  ShapeOK'
  <2>1. CASE InitBegins(i)
    BY <2>1 DEF InitBegins, WaitsUnlessClosed
  <2>2. CASE InitTakesSlot(i)
    BY <2>2 DEF InitTakesSlot
  <2>3. CASE InitGivesUp(i)
    BY <2>3 DEF InitGivesUp
  <2>4. CASE InitReturns(i)
    BY <2>4 DEF InitReturns, FreesSlotAndLeaves
  <2>5. CASE \E t \in McpTools : InitConnects(i, t)
    BY <2>5 DEF InitConnects
  <2>6. CASE \E t \in McpTools : InitSkips(i, t)
    BY <2>6 DEF InitSkips
  <2>7. QED
    BY <1>7, <2>1, <2>2, <2>3, <2>4, <2>5, <2>6 DEF InitNext
<1>8. QED
  BY <1>1, <1>2, <1>3, <1>4, <1>5, <1>6, <1>7 DEF Next

-----------------------------------------------------------------------------
(***************************************************************************)
(* What never goes back                                                    *)
(***************************************************************************)
\* Contexts stay cancelled, Sessions stay registered, closed and started.
LEMMA CancelStays ==
  ASSUME ShapeOK, [Next]_vars, NEW r \in Runs, cancelled[r]
  PROVE  cancelled'[r]
<1> USE DEF ShapeOK
<1>1. CASE UNCHANGED vars
  BY <1>1 DEF vars
<1>2. CASE \E s \in Sessions : SessionNext(s)
  BY <1>2, SessionFrame
<1>3. ASSUME NEW q \in Runs, RunNext(q)
      PROVE  cancelled'[r]
  BY <1>3 DEF RunNext, StartRefused, StartReserves, TakeSlot, AbandonWait,
    Recheck, AppendMessage, LoopReturns, Publish, Finish, Cancel
<1>4. CASE \E c \in Closers, s \in Sessions : CloseSession(c, s)
  BY <1>4 DEF CloseSession
<1>5. ASSUME NEW c \in AllClosers, CloserNext(c)
      PROVE  cancelled'[r]
  BY <1>5 DEF CloserNext, CloseCancelsRun, CancelsRun, CloseJoinsRun,
    CloseJoinsStart, CloseEndsSession
<1>6. CASE AgentNext
  BY <1>6, AgentFrame
<1>7. CASE \E i \in Inits : InitNext(i)
  BY <1>7, InitFrame DEF notInitVars
<1>8. QED
  BY <1>1, <1>2, <1>3, <1>4, <1>5, <1>6, <1>7 DEF Next

\* A Session once registered stays so, and so do its flags once set.
LEMMA StartStays ==
  ASSUME ShapeOK, [Next]_vars, NEW s \in Sessions
  PROVE  /\ Known(s) => Known(s)'
         /\ closed[s] => closed'[s]
         /\ startDone[s] => startDone'[s]
         /\ startOK[s] => startOK'[s]
<1> USE DEF ShapeOK, Known, startVars
<1>1. CASE UNCHANGED vars
  BY <1>1 DEF vars
<1>2. ASSUME NEW q \in Sessions, SessionNext(q)
      PROVE  /\ Known(s) => Known(s)'
             /\ closed[s] => closed'[s]
             /\ startDone[s] => startDone'[s]
             /\ startOK[s] => startOK'[s]
  BY <1>2 DEF SessionNext, ForkCheck, ForkSnapshot, Register, StartHookPasses,
    StartHookFails, MarkStartFailed, Clear, StartEnds
<1>3. CASE \E r \in Runs : RunNext(r)
  BY <1>3, RunFrame
<1>4. CASE \E c \in Closers, q \in Sessions : CloseSession(c, q)
  BY <1>4 DEF CloseSession, RequestClose
<1>5. ASSUME NEW c \in AllClosers, CloserNext(c)
      PROVE  UNCHANGED <<startVars, closed>>
  BY <1>5 DEF CloserNext, CloseCancelsRun, CloseJoinsRun, CloseJoinsStart,
    CloseEndsSession
<1>6. CASE AgentNext
  <2>1. UNCHANGED startVars
    BY <1>6, AgentFrame
  <2>2. closed[s] => closed'[s]
    BY <1>6 DEF AgentNext, AgentCloseBegins, AgentCancelsLifetime,
      AgentRequestsClose, AgentClosesSession, RequestClose, AgentBeginsJoining,
      AgentJoinedSessions, AgentWaitsForInit, AgentClosesMcp
  <2>3. QED
    BY <2>1, <2>2
<1>7. CASE \E i \in Inits : InitNext(i)
  BY <1>7, InitFrame DEF notInitVars
<1>8. QED
  BY <1>1, <1>2, <1>3, <1>4, <1>5, <1>6, <1>7 DEF Next

-----------------------------------------------------------------------------
(***************************************************************************)
(* Runs                                                                    *)
(***************************************************************************)
\* The steps that move a Run, and the frame of all others.
MovesRun(r) ==
  \/ \E s \in Sessions : StartRefused(r, s) \/ StartReserves(r, s)
  \/ TakeSlot(r) \/ AbandonWait(r) \/ Recheck(r)
  \/ LoopReturns(r) \/ Publish(r) \/ Finish(r)

runState == <<runPc, runSession, hasCapacity, active, runSlots>>

\* Only Start, TakeSlot, AbandonWait, Recheck, LoopReturns, Publish and Finish
\* change where a Run is and what it holds.
LEMMA RunMoves ==
  ASSUME [Next]_vars
  PROVE  UNCHANGED runState \/ \E r \in Runs : MovesRun(r)
<1> USE DEF runState, runVars
<1>1. CASE UNCHANGED vars
  BY <1>1 DEF vars
<1>2. CASE \E s \in Sessions : SessionNext(s)
  BY <1>2, SessionFrame
<1>3. ASSUME NEW r \in Runs, RunNext(r)
      PROVE  UNCHANGED runState \/ MovesRun(r)
  <2>1. CASE AppendMessage(r) BY <2>1 DEF AppendMessage
  <2>2. CASE Cancel(r)        BY <2>2 DEF Cancel
  <2>3. QED BY <1>3, <2>1, <2>2 DEF RunNext, MovesRun
<1>4. CASE \/ \E c \in Closers, s \in Sessions : CloseSession(c, s)
           \/ \E c \in AllClosers : CloserNext(c)
  BY <1>4, CloserFrame
<1>5. CASE AgentNext
  BY <1>5, AgentFrame
<1>6. CASE \E i \in Inits : InitNext(i)
  BY <1>6, InitFrame DEF notInitVars
<1>7. QED
  BY <1>1, <1>2, <1>3, <1>4, <1>5, <1>6 DEF Next

\* What a Run is known to hold and to belong to survives every step.
LEMMA RunStep ==
  ASSUME ShapeOK, RunInv, [Next]_vars
  PROVE  RunInv'
<1> USE NullAssumption DEF ShapeOK, RunPcs
<1>1. \A s \in Sessions : Known(s) => Known(s)'
  BY StartStays
<1>2. \A r \in Runs : cancelled[r] => cancelled'[r]
  BY CancelStays
<1>3. CASE UNCHANGED runState
  BY <1>1, <1>2, <1>3 DEF runState, RunInv, Executing
<1>4. ASSUME NEW r \in Runs, MovesRun(r)
      PROVE  RunInv'
  <2> USE DEF RunInv, Executing, runVars, startVars
  <2>1. ASSUME NEW s \in Sessions, StartRefused(r, s) PROVE RunInv'
    BY <1>1, <1>2, <2>1 DEF StartRefused
  <2>2. ASSUME NEW s \in Sessions, StartReserves(r, s) PROVE RunInv'
    BY <1>1, <1>2, <2>2 DEF StartReserves
  <2>3. CASE TakeSlot(r)
    BY <1>1, <1>2, <2>3 DEF TakeSlot
  <2>4. CASE AbandonWait(r)
    BY <1>1, <1>2, <2>4 DEF AbandonWait, ContextDone
  <2>5. CASE Recheck(r)
    BY <1>1, <1>2, <2>5 DEF Recheck, EndedMeanwhile
  <2>6. CASE LoopReturns(r)
    BY <1>1, <1>2, <2>6 DEF LoopReturns
  <2>7. CASE Publish(r)
    BY <1>1, <1>2, <2>7 DEF Publish
  <2>8. CASE Finish(r)
    BY <1>1, <1>2, <2>8 DEF Finish
  <2>9. QED
    BY <1>4, <2>1, <2>2, <2>3, <2>4, <2>5, <2>6, <2>7, <2>8 DEF MovesRun
<1>5. QED
  BY <1>3, <1>4, RunMoves

\* A reservation needs an idle Session; only Finish makes one idle again.
LEMMA ActiveStep ==
  ASSUME ShapeOK, RunInv, ActiveInv, [Next]_vars
  PROVE  ActiveInv'
<1> USE NullAssumption DEF ShapeOK, RunPcs, InFlight
<1>1. CASE UNCHANGED runState
  BY <1>1 DEF runState, ActiveInv, OneActiveRun
<1>2. ASSUME NEW r \in Runs, MovesRun(r)
      PROVE  ActiveInv'
  <2> USE DEF ActiveInv, OneActiveRun, RunInv, Executing, runVars
  <2>1. ASSUME NEW s \in Sessions, StartRefused(r, s) PROVE ActiveInv'
    BY <2>1 DEF StartRefused
  <2>2. ASSUME NEW s \in Sessions, StartReserves(r, s) PROVE ActiveInv'
    BY <2>2 DEF StartReserves, Refused
  <2>3. CASE TakeSlot(r)    BY <2>3 DEF TakeSlot
  <2>4. CASE AbandonWait(r) BY <2>4 DEF AbandonWait
  <2>5. CASE Recheck(r)     BY <2>5 DEF Recheck
  <2>6. CASE LoopReturns(r) BY <2>6 DEF LoopReturns
  <2>7. CASE Publish(r)     BY <2>7 DEF Publish
  <2>8. CASE Finish(r)      BY <2>8 DEF Finish
  <2>9. QED
    BY <1>2, <2>1, <2>2, <2>3, <2>4, <2>5, <2>6, <2>7, <2>8 DEF MovesRun
<1>3. QED
  BY <1>1, <1>2, RunMoves

-----------------------------------------------------------------------------
(***************************************************************************)
(* Capacity                                                                *)
(***************************************************************************)
\* runSlots counts the holders: TakeSlot adds one, Finish removes itself if it
\* is one, every other step keeps the set.
LEMMA SlotStep ==
  ASSUME ShapeOK, RunInv, SlotInv, [Next]_vars
  PROVE  SlotInv'
<1> USE CapacityAssumption, FiniteAssumption DEF ShapeOK, SlotInv, RunPcs
<1>1. /\ IsFiniteSet(Holders)
      /\ Cardinality(Holders) \in Nat
      /\ runSlots = Cardinality(Holders)
  <2>1. IsFiniteSet(Holders)
    BY FS_Subset DEF Holders
  <2>2. QED
    BY <2>1, FS_CardinalityType DEF SlotAccounting, Holders
<1>2. SUFFICES /\ runSlots' = Cardinality(Holders')
               /\ runSlots' <= MaxConcurrentRuns
  BY DEF SlotAccounting, Holders
<1>3. CASE UNCHANGED runState
  <2>1. Holders' = Holders
    BY <1>3 DEF runState, Holders, InFlight
  <2>2. QED
    BY <1>1, <1>3, <2>1 DEF runState
<1>4. ASSUME NEW r \in Runs, MovesRun(r)
      PROVE  /\ runSlots' = Cardinality(Holders')
             /\ runSlots' <= MaxConcurrentRuns
  <2> USE DEF runVars
  <2>1. CASE TakeSlot(r)
    <3>1. r \notin Holders /\ Holders' = Holders \cup {r}
      BY <2>1 DEF TakeSlot, Holders, InFlight, RunInv
    <3>2. Cardinality(Holders') = Cardinality(Holders) + 1
      BY <1>1, <3>1, FS_AddElement
    <3>3. QED
      BY <1>1, <2>1, <3>2 DEF TakeSlot
  <2>2. CASE Finish(r)
    <3>1. CASE hasCapacity[r]
      <4>1. r \in Holders /\ Holders' = Holders \ {r}
        BY <2>2, <3>1 DEF Finish, Holders, InFlight
      <4>2. Cardinality(Holders') = Cardinality(Holders) - 1
        BY <1>1, <4>1, FS_RemoveElement
      <4>3. QED
        BY <1>1, <2>2, <3>1, <4>2 DEF Finish, HeldTokens
    <3>2. CASE ~hasCapacity[r]
      <4>1. Holders' = Holders
        BY <2>2, <3>2 DEF Finish, Holders, InFlight
      <4>2. QED
        BY <1>1, <2>2, <3>2, <4>1 DEF Finish, HeldTokens
    <3>3. QED
      BY <3>1, <3>2
  <2>3. CASE ~TakeSlot(r) /\ ~Finish(r)
    <3>1. Holders' = Holders /\ runSlots' = runSlots
      <4>1. ASSUME NEW s \in Sessions, StartRefused(r, s)
            PROVE  Holders' = Holders /\ runSlots' = runSlots
        BY <4>1 DEF StartRefused, Holders, InFlight, RunInv
      <4>2. ASSUME NEW s \in Sessions, StartReserves(r, s)
            PROVE  Holders' = Holders /\ runSlots' = runSlots
        BY <4>2 DEF StartReserves, Holders, InFlight, RunInv
      <4>3. CASE AbandonWait(r)
        BY <4>3 DEF AbandonWait, Holders, InFlight
      <4>4. CASE Recheck(r)
        BY <4>4 DEF Recheck, Holders, InFlight
      <4>5. CASE LoopReturns(r)
        BY <4>5 DEF LoopReturns, Holders, InFlight, Executing
      <4>6. CASE Publish(r)
        BY <4>6 DEF Publish, Holders, InFlight
      <4>7. QED
        BY <1>4, <2>3, <4>1, <4>2, <4>3, <4>4, <4>5, <4>6 DEF MovesRun
    <3>2. QED
      BY <1>1, <3>1
  <2>4. QED
    BY <2>1, <2>2, <2>3
<1>5. QED
  BY <1>3, <1>4, RunMoves

\* The executing Runs are among the holders.
LEMMA SlotBound ==
  ASSUME ShapeOK, RunInv, SlotInv
  PROVE  CapacityBound /\ runSlots \in 0 .. MaxConcurrentRuns
<1> DEFINE E == {r \in Runs : Executing(r)}
<1>1. IsFiniteSet(Holders)
  BY FiniteAssumption, FS_Subset DEF Holders
<1>2. E \subseteq Holders
  BY DEF Holders, RunInv, Executing, InFlight
<1>3. /\ Cardinality(E) <= Cardinality(Holders)
      /\ Cardinality(E) \in Nat /\ Cardinality(Holders) \in Nat
  BY <1>1, <1>2, FS_Subset, FS_CardinalityType
<1>4. runSlots = Cardinality(Holders)
  BY DEF SlotInv, SlotAccounting, Holders
<1>5. QED
  BY <1>3, <1>4, CapacityAssumption DEF SlotInv, CapacityBound

-----------------------------------------------------------------------------
(***************************************************************************)
(* Session start and Close                                                 *)
(***************************************************************************)
\* The facts about Sessions that start or fail to start survive every step.
LEMMA StartStep ==
  ASSUME ShapeOK, StartInv, [Next]_vars
  PROVE  StartInv'
<1> USE IdAssumption, NullAssumption DEF ShapeOK, StartPcs, StartInv, Registered
<1>1. \A s \in Sessions : closed[s] => closed'[s]
  BY StartStays
<1>2. CASE UNCHANGED startVars
  BY <1>1, <1>2 DEF startVars
<1>3. ASSUME NEW s \in Sessions, SessionNext(s)
      PROVE  StartInv'
  <2>1. CASE \E q \in Sessions : ForkCheck(s, q) BY <1>1, <2>1 DEF ForkCheck
  <2>2. CASE ForkSnapshot(s)    BY <1>1, <2>2 DEF ForkSnapshot
  <2>3. CASE Register(s)        BY <1>1, <2>3 DEF Register, MayRegister
  <2>4. CASE StartHookPasses(s) BY <1>1, <2>4 DEF StartHookPasses, StartEnds
  <2>5. CASE StartHookFails(s)  BY <1>1, <2>5 DEF StartHookFails
  <2>6. CASE MarkStartFailed(s) BY <1>1, <2>6 DEF MarkStartFailed, StartEnds
  <2>7. CASE Clear(s)           BY <1>2, <2>7 DEF Clear, startVars
  <2>8. QED
    BY <1>3, <2>1, <2>2, <2>3, <2>4, <2>5, <2>6, <2>7 DEF SessionNext
<1>4. CASE UNCHANGED vars
  BY <1>2, <1>4 DEF vars
<1>5. CASE \E r \in Runs : RunNext(r)
  BY <1>2, <1>5, RunFrame
<1>6. CASE \/ \E c \in Closers, s \in Sessions : CloseSession(c, s)
           \/ \E c \in AllClosers : CloserNext(c)
  BY <1>2, <1>6, CloserFrame
<1>7. CASE AgentNext
  BY <1>2, <1>7, AgentFrame
<1>8. CASE \E i \in Inits : InitNext(i)
  BY <1>2, <1>8, InitFrame DEF notInitVars
<1>9. QED
  BY <1>3, <1>4, <1>5, <1>6, <1>7, <1>8 DEF Next

\* A closed Session gets no new Run, so an active one either stays or ends.
LEMMA ClosedIdleStays ==
  ASSUME ShapeOK, RunInv, ActiveInv, [Next]_vars,
         NEW s \in Sessions, closed[s]
  PROVE  active'[s] \in {active[s], NoRun}
<1> USE DEF ShapeOK, runVars
<1>1. CASE UNCHANGED runState
  BY <1>1 DEF runState
<1>2. ASSUME NEW r \in Runs, MovesRun(r)
      PROVE  active'[s] \in {active[s], NoRun}
  BY <1>2 DEF MovesRun, StartRefused, StartReserves, Refused, TakeSlot,
    AbandonWait, Recheck, LoopReturns, Publish, Finish
<1>3. QED
  BY <1>1, <1>2, RunMoves

\* A Run does not become idle again.
LEMMA RunNotIdle ==
  ASSUME ShapeOK, [Next]_vars, NEW r \in Runs, runPc[r] # "idle"
  PROVE  runPc'[r] # "idle" /\ runSession'[r] = runSession[r]
<1> USE DEF ShapeOK, runVars
<1>1. CASE UNCHANGED runState
  BY <1>1 DEF runState
<1>2. ASSUME NEW q \in Runs, MovesRun(q)
      PROVE  runPc'[r] # "idle" /\ runSession'[r] = runSession[r]
  BY <1>2 DEF MovesRun, StartRefused, StartReserves, TakeSlot, AbandonWait,
    Recheck, LoopReturns, Publish, Finish
<1>3. QED
  BY <1>1, <1>2, RunMoves

\* The steps that move a closer.
MovesCloser ==
  \/ \E c \in Closers, s \in Sessions : CloseSession(c, s)
  \/ \E c \in AllClosers : CloserNext(c)
  \/ \E s \in Sessions : AgentRequestsClose(s) \/ AgentClosesSession(s)
  \/ AgentBeginsJoining

closerState == <<closerVars, endOnce>>

\* Only the five closer steps change what closers and endOnce record.
LEMMA CloserMoves ==
  ASSUME [Next]_vars
  PROVE  UNCHANGED closerState \/ MovesCloser
<1> USE DEF closerState, closerVars
<1>1. CASE UNCHANGED vars
  BY <1>1 DEF vars
<1>2. CASE \E s \in Sessions : SessionNext(s)
  BY <1>2, SessionFrame
<1>3. CASE \E r \in Runs : RunNext(r)
  BY <1>3, RunFrame
<1>4. CASE AgentNext
  BY <1>4 DEF AgentNext, MovesCloser, AgentCloseBegins, AgentCancelsLifetime,
    AgentJoinedSessions, AgentWaitsForInit, AgentClosesMcp
<1>5. CASE \E i \in Inits : InitNext(i)
  BY <1>5, InitFrame DEF notInitVars
<1>6. QED
  BY <1>1, <1>2, <1>3, <1>4, <1>5 DEF Next, MovesCloser

\* The facts about where closers are survive every step.
LEMMA CloserStep ==
  ASSUME ShapeOK, RunInv, ActiveInv, StartInv, CloserInv, [Next]_vars
  PROVE  CloserInv'
<1> USE NullAssumption DEF ShapeOK, CloserPcs, AllClosers
<1>1. /\ \A s \in Sessions : closed[s] => closed'[s]
      /\ \A s \in Sessions : startOK[s] => startOK'[s]
  BY StartStays
<1>2. \A s \in Sessions : closed[s] => active'[s] \in {active[s], NoRun}
  BY ClosedIdleStays
<1>3. \A r \in Runs : runPc[r] # "idle" => runPc'[r] # "idle"
  BY RunNotIdle
<1>4. CASE UNCHANGED closerState
  <2>1. UNCHANGED <<closerPc, closerSession, closerRun>>
    BY <1>4 DEF closerState, closerVars
  <2>2. \A c \in AllClosers :
          closerPc[c] \in {"cancel", "joinRun", "joinStart", "ending"} =>
            closerSession[c] \in Sessions /\ closed[closerSession[c]]
    BY DEF CloserInv
  <2>3. \A c \in AllClosers :
          closerPc[c] \in {"cancel", "joinRun", "joinStart", "ending"} =>
            /\ closed'[closerSession[c]]
            /\ active'[closerSession[c]] \in {active[closerSession[c]], NoRun}
    BY <1>1, <1>2, <2>2
  <2>4. \A c \in AllClosers : closerPc[c] \in {"cancel", "joinRun"} =>
          /\ closerRun[c] \in Runs
          /\ runPc'[closerRun[c]] # "idle"
          /\ active'[closerSession[c]] \in {closerRun[c], NoRun}
    <3>1. ASSUME NEW c \in AllClosers, closerPc[c] \in {"cancel", "joinRun"}
          PROVE  /\ closerRun[c] \in Runs
                 /\ runPc[closerRun[c]] # "idle"
                 /\ active[closerSession[c]] \in {closerRun[c], NoRun}
      BY <3>1 DEF CloserInv
    <3>2. QED
      BY <1>3, <2>3, <3>1
  <2>5. \A c \in AllClosers : closerPc[c] \in {"joinStart", "ending"} =>
          active'[closerSession[c]] = NoRun
    BY <2>3 DEF CloserInv
  <2>6. \A c \in AllClosers : closerPc[c] = "ending" =>
          startOK'[closerSession[c]]
    BY <1>1, <2>2 DEF CloserInv
  <2>7. QED
    BY <2>1, <2>2, <2>3, <2>4, <2>5, <2>6 DEF CloserInv
<1>5. CASE MovesCloser
  <2>1. \A s \in Sessions : active[s] # NoRun =>
          active[s] \in Runs /\ runPc[active[s]] # "idle"
    <3>1. ASSUME NEW s \in Sessions, active[s] # NoRun
          PROVE  InFlight(active[s]) /\ active[s] \in Runs
      BY <3>1 DEF ActiveInv
    <3>2. QED
      BY <3>1 DEF InFlight
  <2>2. ASSUME NEW c \in AllClosers, NEW s \in Sessions, RequestClose(c, s),
               UNCHANGED <<active, runVars, startVars>>
        PROVE  CloserInv'
    BY <1>1, <2>1, <2>2 DEF CloserInv, RequestClose, runVars, startVars
  <2>3. CASE \E c \in Closers, s \in Sessions : CloseSession(c, s)
    BY <2>2, <2>3 DEF CloseSession, AllClosers
  <2>4. CASE \E s \in Sessions : AgentRequestsClose(s) \/ AgentClosesSession(s)
    BY <2>2, <2>4 DEF AgentRequestsClose, AgentClosesSession, AllClosers
  <2>5. CASE AgentBeginsJoining
    BY <1>1, <2>5 DEF AgentBeginsJoining, CloserInv, runVars, startVars
  <2>6. ASSUME NEW c \in AllClosers, CloserNext(c)
        PROVE  CloserInv'
    <3> USE DEF runVars, startVars
    <3>1. CASE CloseCancelsRun(c)
      BY <3>1 DEF CloseCancelsRun, CloserInv
    <3>2. CASE CloseJoinsRun(c)
      <4>1. active[closerSession[c]] = NoRun
        BY <3>2 DEF CloseJoinsRun, DoneClosed, CloserInv, ActiveInv, InFlight
      <4>2. QED
        BY <3>2, <4>1 DEF CloseJoinsRun, CloserInv
    <3>3. CASE CloseJoinsStart(c)
      BY <3>3 DEF CloseJoinsStart, EndsSession, CloserInv
    <3>4. CASE CloseEndsSession(c)
      BY <3>4 DEF CloseEndsSession, CloserInv
    <3>5. QED
      BY <2>6, <3>1, <3>2, <3>3, <3>4 DEF CloserNext
  <2>7. QED
    BY <1>5, <2>3, <2>4, <2>5, <2>6 DEF MovesCloser
<1>6. QED
  BY <1>4, <1>5, CloserMoves

\* A started Session stays started, a failed one failed.
LEMMA OutcomeStays ==
  ASSUME ShapeOK, [Next]_vars, NEW s \in Sessions,
         startPc[s] \in {"started", "failed"}
  PROVE  startPc'[s] = startPc[s]
<1> USE DEF ShapeOK, startVars
<1>1. CASE UNCHANGED vars
  BY <1>1 DEF vars
<1>2. ASSUME NEW q \in Sessions, SessionNext(q)
      PROVE  startPc'[s] = startPc[s]
  BY <1>2 DEF SessionNext, ForkCheck, ForkSnapshot, Register, StartHookPasses,
    StartHookFails, MarkStartFailed, Clear
<1>3. CASE \E r \in Runs : RunNext(r)
  BY <1>3, RunFrame
<1>4. CASE \/ \E c \in Closers, q \in Sessions : CloseSession(c, q)
           \/ \E c \in AllClosers : CloserNext(c)
  BY <1>4, CloserFrame
<1>5. CASE AgentNext
  BY <1>5, AgentFrame
<1>6. CASE \E i \in Inits : InitNext(i)
  BY <1>6, InitFrame DEF notInitVars
<1>7. QED
  BY <1>1, <1>2, <1>3, <1>4, <1>5, <1>6 DEF Next

\* A Session becomes closed by a failed start or by a requestClose.
LEMMA Closing ==
  ASSUME ShapeOK, [Next]_vars, NEW s \in Sessions, ~closed[s], closed'[s]
  PROVE  \/ startPc'[s] = "failed"
         \/ /\ \E c \in AllClosers : RequestClose(c, s)
            /\ UNCHANGED active
<1> USE DEF ShapeOK, startVars
<1>1. CASE UNCHANGED vars
  BY <1>1 DEF vars
<1>2. ASSUME NEW q \in Sessions, SessionNext(q)
      PROVE  startPc'[s] = "failed"
  BY <1>2 DEF SessionNext, ForkCheck, ForkSnapshot, Register, StartHookPasses,
    StartHookFails, MarkStartFailed, Clear
<1>3. CASE \E r \in Runs : RunNext(r)
  BY <1>3, RunFrame
<1>4. ASSUME NEW c \in AllClosers, NEW q \in Sessions, RequestClose(c, q),
             UNCHANGED active
      PROVE  RequestClose(c, s)
  BY <1>4 DEF RequestClose
<1>5. CASE \E c \in Closers, q \in Sessions : CloseSession(c, q)
  BY <1>4, <1>5 DEF CloseSession, AllClosers
<1>6. ASSUME NEW c \in AllClosers, CloserNext(c)
      PROVE  FALSE
  BY <1>6 DEF CloserNext, CloseCancelsRun, CloseJoinsRun, CloseJoinsStart,
    CloseEndsSession
<1>7. CASE \E q \in Sessions : AgentRequestsClose(q) \/ AgentClosesSession(q)
  BY <1>4, <1>7 DEF AgentRequestsClose, AgentClosesSession, AllClosers
<1>8. CASE \/ AgentCloseBegins \/ AgentCancelsLifetime \/ AgentBeginsJoining
           \/ AgentJoinedSessions \/ AgentWaitsForInit \/ AgentClosesMcp
  BY <1>8 DEF AgentCloseBegins, AgentCancelsLifetime, AgentBeginsJoining,
    AgentJoinedSessions, AgentWaitsForInit, AgentClosesMcp
<1>9. CASE \E i \in Inits : InitNext(i)
  BY <1>9, InitFrame DEF notInitVars
<1>10. QED
  BY <1>1, <1>2, <1>3, <1>5, <1>6, <1>7, <1>8, <1>9 DEF Next, AgentNext

\* A closer about to cancel keeps its Run until it has cancelled it.
LEMMA PendingCancel ==
  ASSUME ShapeOK, CloserInv, [Next]_vars,
         NEW c \in AllClosers, closerPc[c] = "cancel"
  PROVE  \/ closerPc'[c] = "cancel" /\ closerRun'[c] = closerRun[c]
         \/ cancelled'[closerRun[c]]
<1> USE DEF ShapeOK
<1>1. CASE UNCHANGED closerState
  BY <1>1 DEF closerState, closerVars
<1>2. CASE \E b \in Closers, s \in Sessions : CloseSession(b, s)
  BY <1>2 DEF CloseSession, RequestClose
<1>3. ASSUME NEW b \in AllClosers, CloserNext(b)
      PROVE  \/ closerPc'[c] = "cancel" /\ closerRun'[c] = closerRun[c]
             \/ cancelled'[closerRun[c]]
  <2>1. closerRun[c] \in Runs
    BY DEF CloserInv
  <2>2. QED
    BY <1>3, <2>1 DEF CloserNext, CloseCancelsRun, CancelsRun, CloseJoinsRun,
      CloseJoinsStart, CloseEndsSession
<1>4. CASE \E s \in Sessions : AgentRequestsClose(s) \/ AgentClosesSession(s)
  BY <1>4 DEF AgentRequestsClose, AgentClosesSession, RequestClose
<1>5. CASE AgentBeginsJoining
  BY <1>5 DEF AgentBeginsJoining
<1>6. QED
  BY <1>1, <1>2, <1>3, <1>4, <1>5, CloserMoves DEF MovesCloser

\* A closed Session keeps having a cancelled Run, or none, or a closer about
\* to cancel it.
LEMMA ClosedRunStep ==
  ASSUME ShapeOK, RunInv, ActiveInv, StartInv, CloserInv, ClosedRunIsCancelled,
         [Next]_vars, ShapeOK'
  PROVE  ClosedRunIsCancelled'
<1>1. SUFFICES ASSUME NEW s \in Sessions,
                      closed'[s], startPc'[s] # "failed", active'[s] # NoRun
               PROVE  \/ cancelled'[active'[s]]
                      \/ \E c \in AllClosers : /\ closerPc'[c] = "cancel"
                                               /\ closerRun'[c] = active'[s]
  BY DEF ClosedRunIsCancelled
<1>2. CASE closed[s]
  <2>1. active'[s] = active[s] /\ active[s] \in Runs
    BY <1>1, <1>2, ClosedIdleStays DEF ShapeOK
  <2>2. startPc[s] # "failed"
    BY <1>1, OutcomeStays
  <2>3. CASE cancelled[active[s]]
    BY <2>1, <2>3, CancelStays
  <2>4. CASE \E c \in AllClosers : closerPc[c] = "cancel" /\ closerRun[c] = active[s]
    BY <2>1, <2>4, PendingCancel
  <2>5. QED
    BY <1>1, <1>2, <2>1, <2>2, <2>3, <2>4 DEF ClosedRunIsCancelled
<1>3. CASE ~closed[s]
  <2>1. PICK c \in AllClosers : RequestClose(c, s) /\ UNCHANGED active
    BY <1>1, <1>3, Closing
  <2>2. closerPc'[c] = "cancel" /\ closerRun'[c] = active'[s]
    BY <1>1, <2>1 DEF RequestClose, ShapeOK
  <2>3. QED
    BY <2>2
<1>4. QED
  BY <1>2, <1>3

-----------------------------------------------------------------------------
(***************************************************************************)
(* SessionEnd                                                              *)
(***************************************************************************)
\* The only steps that touch endOnce.
LEMMA EndOnceMoves ==
  ASSUME [Next]_vars
  PROVE  \/ UNCHANGED endOnce
         \/ \E c \in AllClosers : CloseJoinsStart(c) \/ CloseEndsSession(c)
<1>1. CASE UNCHANGED vars
  BY <1>1 DEF vars
<1>2. CASE \E s \in Sessions : SessionNext(s)
  BY <1>2, SessionFrame
<1>3. CASE \E r \in Runs : RunNext(r)
  BY <1>3, RunFrame
<1>4. CASE \E c \in Closers, s \in Sessions : CloseSession(c, s)
  BY <1>4 DEF CloseSession
<1>5. CASE \E c \in AllClosers : CloserNext(c)
  BY <1>5 DEF CloserNext, CloseCancelsRun, CloseJoinsRun
<1>6. CASE AgentNext
  BY <1>6, AgentFrame
<1>7. CASE \E i \in Inits : InitNext(i)
  BY <1>7, InitFrame DEF notInitVars
<1>8. QED
  BY <1>1, <1>2, <1>3, <1>4, <1>5, <1>6, <1>7 DEF Next

\* What a closer has achieved lasts.
LEMMA EndedStays ==
  ASSUME ShapeOK, RunInv, ActiveInv, StartInv, CloserInv, [Next]_vars,
         NEW s \in Sessions, Ended(s)
  PROVE  Ended(s)'
<1> USE DEF ShapeOK
<1>1. closed'[s] /\ startDone'[s]
  BY StartStays DEF Ended
<1>2. active'[s] = NoRun
  BY ClosedIdleStays DEF Ended
<1>3. startOK'[s] => startOK[s]
  <2>1. startPc[s] \in {"started", "failed"} /\ startPc'[s] = startPc[s]
    BY OutcomeStays DEF Ended, StartInv
  <2>2. StartInv'
    BY StartStep
  <2>3. QED
    BY <2>1, <2>2 DEF StartInv
<1>4. endOnce[s] = "done" => endOnce'[s] = "done"
  BY EndOnceMoves DEF CloseJoinsStart, EndsSession, CloseEndsSession
<1>5. QED
  BY <1>1, <1>2, <1>3, <1>4 DEF Ended

\* A closer that becomes done leaves its Session ended.
LEMMA BecomesDone ==
  ASSUME ShapeOK, RunInv, ActiveInv, StartInv, CloserInv, EndInv, [Next]_vars,
         NEW c \in AllClosers,
         CloseJoinsStart(c) \/ CloseEndsSession(c), closerPc'[c] = "done"
  PROVE  Ended(closerSession[c])'
<1> DEFINE s == closerSession[c]
<1> USE DEF ShapeOK
<1>1. s \in Sessions /\ closed[s] /\ active[s] = NoRun
  BY DEF CloserInv, CloseJoinsStart, CloseEndsSession
<1>2. closerSession' = closerSession /\ startOK' = startOK /\ startDone' = startDone
  BY DEF CloseJoinsStart, CloseEndsSession, startVars
<1>3. closed'[s] /\ active'[s] = NoRun
  BY <1>1, StartStays, ClosedIdleStays
<1>4. CASE CloseJoinsStart(c)
  <2>1. startDone[s] /\ (startOK[s] => endOnce[s] = "done") /\ endOnce' = endOnce
    BY <1>1, <1>4 DEF CloseJoinsStart, EndsSession
  <2>2. QED
    BY <1>2, <1>3, <2>1 DEF Ended
<1>5. CASE CloseEndsSession(c)
  <2>1. endOnce'[s] = "done"
    BY <1>1, <1>5 DEF CloseEndsSession
  <2>2. startDone[s]
    BY <1>1, <1>5 DEF CloseEndsSession, CloserInv, StartInv
  <2>3. QED
    BY <1>2, <1>3, <2>1, <2>2 DEF Ended
<1>6. QED
  BY <1>4, <1>5

\* SessionEnd stays the last thing of a Session, and what Close has joined
\* stays joined.
LEMMA EndStep ==
  ASSUME ShapeOK, RunInv, ActiveInv, StartInv, CloserInv, EndInv, [Next]_vars
  PROVE  EndInv'
<1> USE NullAssumption DEF ShapeOK, AllClosers
<1>1. ASSUME NEW s \in Sessions, endOnce'[s] # "unused"
      PROVE  startOK'[s] /\ closed'[s] /\ active'[s] = NoRun
  <2>1. startOK[s] /\ closed[s] /\ active[s] = NoRun
    <3>1. CASE endOnce[s] # "unused"
      BY <3>1 DEF EndInv
    <3>2. CASE endOnce[s] = "unused"
      BY <1>1, <3>2, EndOnceMoves
      DEF CloseJoinsStart, EndsSession, CloseEndsSession, CloserInv
    <3>3. QED
      BY <3>1, <3>2
  <2>2. QED
    BY <2>1, StartStays, ClosedIdleStays
<1>2. ASSUME NEW c \in Closers, closerPc'[c] = "done"
      PROVE  closerSession'[c] \in Sessions /\ Ended(closerSession[c])'
  <2>1. CASE closerPc[c] = "done"
    <3>1. closerSession'[c] = closerSession[c]
      <4>1. CASE UNCHANGED closerState
        BY <4>1 DEF closerState, closerVars
      <4>2. CASE \E b \in Closers, s \in Sessions : CloseSession(b, s)
        BY <2>1, <4>2 DEF CloseSession, RequestClose
      <4>3. CASE \E b \in AllClosers : CloserNext(b)
        BY <4>3 DEF CloserNext, CloseCancelsRun, CloseJoinsRun,
          CloseJoinsStart, CloseEndsSession
      <4>4. CASE \E s \in Sessions : AgentRequestsClose(s) \/ AgentClosesSession(s)
        BY <4>4 DEF AgentRequestsClose, AgentClosesSession, RequestClose
      <4>5. CASE AgentBeginsJoining
        BY <4>5 DEF AgentBeginsJoining
      <4>6. QED
        BY <4>1, <4>2, <4>3, <4>4, <4>5, CloserMoves DEF MovesCloser
    <3>2. closerSession[c] \in Sessions /\ Ended(closerSession[c])
      BY <2>1 DEF EndInv
    <3>3. \A s \in Sessions : Ended(s) => Ended(s)'
      BY EndedStays
    <3>4. QED
      BY <3>1, <3>2, <3>3 DEF Ended
  <2>2. CASE closerPc[c] # "done"
    <3>1. CloseJoinsStart(c) \/ CloseEndsSession(c)
      <4>1. CASE UNCHANGED closerState
        BY <1>2, <2>2, <4>1 DEF closerState, closerVars
      <4>2. CASE \E b \in Closers, s \in Sessions : CloseSession(b, s)
        BY <1>2, <2>2, <4>2 DEF CloseSession, RequestClose
      <4>3. CASE \E b \in AllClosers : CloserNext(b)
        BY <1>2, <2>2, <4>3 DEF CloserNext, CloseCancelsRun, CloseJoinsRun,
          CloseJoinsStart, CloseEndsSession
      <4>4. CASE \E s \in Sessions : AgentRequestsClose(s) \/ AgentClosesSession(s)
        BY <1>2, <2>2, <4>4 DEF AgentRequestsClose, AgentClosesSession, RequestClose
      <4>5. CASE AgentBeginsJoining
        BY <1>2, <2>2, <4>5 DEF AgentBeginsJoining
      <4>6. QED
        BY <4>1, <4>2, <4>3, <4>4, <4>5, CloserMoves DEF MovesCloser
    <3>2. closerSession[c] \in Sessions /\ closerSession'[c] = closerSession[c]
      BY <3>1 DEF CloserInv, CloseJoinsStart, CloseEndsSession
    <3>3. QED
      BY <1>2, <3>1, <3>2, BecomesDone
  <2>3. QED
    BY <2>1, <2>2
<1>3. QED
  BY <1>1, <1>2 DEF EndInv

-----------------------------------------------------------------------------
(***************************************************************************)
(* Agent.Close and Init                                                    *)
(***************************************************************************)
\* agentClosed, the snapshot and the closer's todo belong to Agent.Close.
LEMMA AgentMoves ==
  ASSUME [Next]_vars
  PROVE  UNCHANGED agentVars \/ AgentNext
<1> USE DEF agentVars
<1>1. CASE UNCHANGED vars
  BY <1>1 DEF vars
<1>2. CASE \E s \in Sessions : SessionNext(s)
  BY <1>2, SessionFrame
<1>3. CASE \E r \in Runs : RunNext(r)
  BY <1>3, RunFrame
<1>4. CASE \/ \E c \in Closers, s \in Sessions : CloseSession(c, s)
           \/ \E c \in AllClosers : CloserNext(c)
  BY <1>4, CloserFrame
<1>5. CASE \E i \in Inits : InitNext(i)
  BY <1>5, InitFrame DEF notInitVars
<1>6. QED
  BY <1>1, <1>2, <1>3, <1>4, <1>5 DEF Next

\* Once the Agent is closed no Session enters the map.
LEMMA NoLateRegistration ==
  ASSUME ShapeOK, [Next]_vars, agentClosed, NEW s \in Sessions, Registered(s)'
  PROVE  Registered(s)
<1> USE IdAssumption, NullAssumption DEF ShapeOK, Registered, startVars
<1>1. CASE UNCHANGED vars
  BY <1>1 DEF vars
<1>2. ASSUME NEW q \in Sessions, SessionNext(q)
      PROVE  Registered(s)
  BY <1>2 DEF SessionNext, ForkCheck, ForkSnapshot, Register, MayRegister,
    StartHookPasses, StartHookFails, MarkStartFailed, Clear
<1>3. CASE \E r \in Runs : RunNext(r)
  BY <1>3, RunFrame
<1>4. CASE \/ \E c \in Closers, q \in Sessions : CloseSession(c, q)
           \/ \E c \in AllClosers : CloserNext(c)
  BY <1>4, CloserFrame
<1>5. CASE AgentNext
  BY <1>5, AgentFrame
<1>6. CASE \E i \in Inits : InitNext(i)
  BY <1>6, InitFrame DEF notInitVars
<1>7. QED
  BY <1>1, <1>2, <1>3, <1>4, <1>5, <1>6 DEF Next

\* The Session AgentCloser is working on is ended when it becomes done.
LEMMA AgentCloserStep ==
  ASSUME ShapeOK, RunInv, ActiveInv, StartInv, CloserInv, EndInv, [Next]_vars,
         UNCHANGED agentVars, closerPc[AgentCloser] # "done"
  PROVE  /\ closerSession'[AgentCloser] = closerSession[AgentCloser]
         /\ closerPc'[AgentCloser] = "done" => Ended(closerSession[AgentCloser])'
<1> USE NullAssumption DEF ShapeOK, AllClosers, CloserPcs
<1>1. CASE UNCHANGED closerState
  BY <1>1 DEF closerState, closerVars
<1>2. CASE \E b \in Closers, s \in Sessions : CloseSession(b, s)
  BY <1>2 DEF CloseSession, RequestClose
<1>3. ASSUME NEW b \in AllClosers, CloserNext(b)
      PROVE  /\ closerSession'[AgentCloser] = closerSession[AgentCloser]
             /\ closerPc'[AgentCloser] = "done" =>
                  Ended(closerSession[AgentCloser])'
  <2>1. closerSession' = closerSession
    BY <1>3 DEF CloserNext, CloseCancelsRun, CloseJoinsRun, CloseJoinsStart,
      CloseEndsSession
  <2>2. closerPc'[AgentCloser] = "done" =>
          CloseJoinsStart(AgentCloser) \/ CloseEndsSession(AgentCloser)
    BY <1>3 DEF CloserNext, CloseCancelsRun, CloseJoinsRun, CloseJoinsStart,
      CloseEndsSession
  <2>3. QED
    BY <2>1, <2>2, BecomesDone
<1>4. CASE \/ \E s \in Sessions : AgentRequestsClose(s) \/ AgentClosesSession(s)
           \/ AgentBeginsJoining
  <2>1. agentTodo' = agentTodo /\ agentPc' = agentPc
    BY DEF agentVars
  <2>2. QED
    BY <1>4, <2>1 DEF AgentRequestsClose, AgentClosesSession, AgentBeginsJoining
<1>5. QED
  BY <1>1, <1>2, <1>3, <1>4, CloserMoves DEF MovesCloser

\* Where Agent.Close is tells which Sessions have ended.
LEMMA AgentStep ==
  ASSUME ShapeOK, RunInv, ActiveInv, StartInv, CloserInv, EndInv, AgentInv,
         [Next]_vars
  PROVE  AgentInv'
<1> USE NullAssumption DEF AgentPcs
<1>1. \A s \in Sessions : Ended(s) => Ended(s)'
  BY EndedStays
<1>2. \A s \in Sessions : agentClosed /\ Registered(s)' => Registered(s)
  BY NoLateRegistration
<1>3. agentSnapshot \subseteq Sessions /\ agentTodo \subseteq Sessions
  BY DEF ShapeOK
<1>4. CASE UNCHANGED agentVars
  <2>1. UNCHANGED <<agentClosed, agentPc, agentSnapshot, agentTodo>>
    BY <1>4 DEF agentVars
  <2>2. ASSUME agentPc = "joining", NEW s \in agentSnapshot \ agentTodo
        PROVE  \/ Ended(s)'
               \/ closerSession'[AgentCloser] = s /\ closerPc'[AgentCloser] # "done"
    <3>1. CASE Ended(s)
      BY <1>1, <1>3, <3>1
    <3>2. CASE closerSession[AgentCloser] = s /\ closerPc[AgentCloser] # "done"
      BY <1>4, <3>2, AgentCloserStep DEF Ended
    <3>3. QED
      BY <2>2, <3>1, <3>2 DEF AgentInv
  <2>3. QED
    BY <1>1, <1>2, <1>3, <2>1, <2>2 DEF AgentInv
<1>5. CASE AgentNext
  <2> USE <1>5, AgentFrame DEF startVars
  <2>1. \A s \in Sessions : Registered(s)' <=> Registered(s)
    BY DEF Registered
  <2>2. CASE AgentCloseBegins
    BY <2>1, <2>2 DEF AgentCloseBegins, AgentInv
  <2>3. CASE AgentCancelsLifetime
    BY <2>1, <2>3 DEF AgentCancelsLifetime, AgentInv
  <2>4. ASSUME NEW s \in Sessions, AgentRequestsClose(s) PROVE AgentInv'
    BY <2>1, <2>4 DEF AgentRequestsClose, AgentInv
  <2>5. ASSUME NEW s \in Sessions, AgentClosesSession(s) PROVE AgentInv'
    <3>1. closerSession'[AgentCloser] = s /\ closerPc'[AgentCloser] # "done"
      BY <2>5 DEF AgentClosesSession, RequestClose, ShapeOK, AllClosers
    <3>2. \A q \in agentSnapshot \ agentTodo : Ended(q)
      BY <2>5 DEF AgentClosesSession, AgentInv
    <3>3. QED
      BY <1>1, <1>3, <2>1, <2>5, <3>1, <3>2 DEF AgentClosesSession, AgentInv
  <2>6. CASE AgentBeginsJoining
    BY <2>1, <2>6 DEF AgentBeginsJoining, AgentInv
  <2>7. CASE AgentJoinedSessions
    <3>1. \A q \in agentSnapshot : Ended(q)
      BY <2>7 DEF AgentJoinedSessions, AgentInv
    <3>2. QED
      BY <1>1, <1>3, <2>1, <2>7, <3>1 DEF AgentJoinedSessions, AgentInv
  <2>8. CASE AgentWaitsForInit
    BY <1>1, <1>3, <2>1, <2>8 DEF AgentWaitsForInit, AgentInv
  <2>9. CASE AgentClosesMcp
    BY <1>1, <1>3, <2>1, <2>9 DEF AgentClosesMcp, AgentInv
  <2>10. QED
    BY <2>2, <2>3, <2>4, <2>5, <2>6, <2>7, <2>8, <2>9 DEF AgentNext
<1>6. QED
  BY <1>4, <1>5, AgentMoves

\* After initWG.Wait no Init is busy, and a closed Agent admits none.
LEMMA InitBusyStep ==
  ASSUME ShapeOK, AgentInv, McpClosedAfterInit, [Next]_vars
  PROVE  McpClosedAfterInit'
<1> USE DEF ShapeOK, McpClosedAfterInit, InitBusy
<1>1. CASE UNCHANGED <<agentPc, initPc>>
  BY <1>1
<1>2. CASE AgentNext
  <2>1. UNCHANGED initPc
    BY <1>2, AgentFrame DEF initVars
  <2>2. CASE AgentWaitsForInit
    BY <2>1, <2>2 DEF AgentWaitsForInit
  <2>3. CASE AgentClosesMcp
    BY <2>1, <2>3 DEF AgentClosesMcp
  <2>4. CASE \E s \in Sessions : AgentRequestsClose(s) \/ AgentClosesSession(s)
    BY <2>1, <2>4 DEF AgentRequestsClose, AgentClosesSession
  <2>5. CASE AgentCloseBegins \/ AgentCancelsLifetime \/ AgentBeginsJoining
             \/ AgentJoinedSessions
    BY <2>1, <2>5 DEF AgentCloseBegins, AgentCancelsLifetime,
      AgentBeginsJoining, AgentJoinedSessions
  <2>6. QED
    BY <1>2, <2>2, <2>3, <2>4, <2>5 DEF AgentNext
<1>3. ASSUME NEW i \in Inits, InitNext(i)
      PROVE  McpClosedAfterInit'
  <2>1. UNCHANGED <<agentPc, agentClosed>>
    BY <1>3, InitFrame DEF notInitVars, agentVars
  <2>2. agentPc \in {"closeMcp", "closed"} => agentClosed
    BY DEF AgentInv
  <2>3. QED
    BY <1>3, <2>1, <2>2 DEF InitNext, InitBegins, WaitsUnlessClosed,
      InitTakesSlot, InitGivesUp, InitReturns, FreesSlotAndLeaves,
      InitConnects, InitSkips
<1>4. CASE UNCHANGED vars
  BY <1>1, <1>4 DEF vars, agentVars, initVars
<1>5. CASE \E s \in Sessions : SessionNext(s)
  BY <1>1, <1>5, SessionFrame DEF agentVars
<1>6. CASE \E r \in Runs : RunNext(r)
  BY <1>1, <1>6, RunFrame DEF agentVars, initVars
<1>7. CASE \/ \E c \in Closers, s \in Sessions : CloseSession(c, s)
           \/ \E c \in AllClosers : CloserNext(c)
  BY <1>1, <1>7, CloserFrame DEF agentVars, initVars
<1>8. QED
  BY <1>2, <1>3, <1>4, <1>5, <1>6, <1>7 DEF Next

\* Every registered Session keeps having all connected MCP tools.
LEMMA ToolsStep ==
  ASSUME ShapeOK, ToolsReachSessions, [Next]_vars
  PROVE  ToolsReachSessions'
<1> USE IdAssumption, NullAssumption
    DEF ShapeOK, ToolsReachSessions, Registered
<1>1. CASE UNCHANGED <<sessions, mcpTools, registry>>
  BY <1>1
<1>2. ASSUME NEW s \in Sessions, SessionNext(s)
      PROVE  ToolsReachSessions'
  <2>1. CASE Register(s)
    BY <2>1 DEF Register, MayRegister, InheritsTools
  <2>2. CASE StartHookFails(s)
    BY <2>2 DEF StartHookFails, initVars
  <2>3. CASE \/ \E q \in Sessions : ForkCheck(s, q)
             \/ ForkSnapshot(s) \/ StartHookPasses(s) \/ MarkStartFailed(s)
             \/ Clear(s)
    BY <1>1, <2>3 DEF ForkCheck, ForkSnapshot, StartHookPasses, MarkStartFailed,
      Clear, initVars, startVars
  <2>4. QED
    BY <1>2, <2>1, <2>2, <2>3 DEF SessionNext
<1>3. ASSUME NEW i \in Inits, InitNext(i)
      PROVE  ToolsReachSessions'
  <2>1. UNCHANGED sessions
    BY <1>3, InitFrame DEF notInitVars, startVars
  <2>2. QED
    BY <1>3, <2>1 DEF InitNext, InitBegins, InitTakesSlot, InitGivesUp,
      InitReturns, InitConnects, InitSkips
<1>4. CASE UNCHANGED vars
  BY <1>1, <1>4 DEF vars, startVars, initVars
<1>5. CASE \E r \in Runs : RunNext(r)
  BY <1>1, <1>5, RunFrame DEF startVars, initVars
<1>6. CASE \/ \E c \in Closers, s \in Sessions : CloseSession(c, s)
           \/ \E c \in AllClosers : CloserNext(c)
  BY <1>1, <1>6, CloserFrame DEF startVars, initVars
<1>7. CASE AgentNext
  BY <1>1, <1>7, AgentFrame DEF startVars, initVars
<1>8. QED
  BY <1>2, <1>3, <1>4, <1>5, <1>6, <1>7 DEF Next

-----------------------------------------------------------------------------
(***************************************************************************)
(* History                                                                 *)
(***************************************************************************)
\* The tail of a history that belongs to Run r.
OwnTail(r, h, n) ==
  Len(h) >= n /\ \A k \in 0 .. MaxWrites : k < n => h[Len(h) - k] = r

\* Appending one's own message extends the tail by one.
LEMMA TailAppend ==
  ASSUME NEW r \in Runs, NEW h \in Seq(Runs), NEW n \in 0 .. MaxWrites,
         OwnTail(r, h, n)
  PROVE  OwnTail(r, Append(h, r), n + 1)
<1> USE WritesAssumption
<1>1. Len(Append(h, r)) = Len(h) + 1 /\ Len(h) \in Nat
  OBVIOUS
<1>2. ASSUME NEW k \in 0 .. MaxWrites, k < n + 1
      PROVE  Append(h, r)[Len(h) + 1 - k] = r
  <2>1. CASE k = 0
    BY <2>1
  <2>2. CASE k # 0
    <3>1. k - 1 \in 0 .. MaxWrites /\ k - 1 < n
      BY <1>2, <2>2
    <3>2. h[Len(h) - (k - 1)] = r
      BY <3>1 DEF OwnTail
    <3>3. Len(h) - (k - 1) \in 1 .. Len(h)
      BY <1>1, <3>1 DEF OwnTail
    <3>4. Append(h, r)[Len(h) - (k - 1)] = h[Len(h) - (k - 1)]
      BY <3>3
    <3>5. Len(h) - (k - 1) = Len(h) + 1 - k
      BY <1>1
    <3>6. QED
      BY <3>2, <3>4, <3>5
  <2>3. QED
    BY <2>1, <2>2
<1>3. QED
  BY <1>1, <1>2 DEF OwnTail

\* What an unfinished Run has written stays the end of its history.
LEMMA HistoryStep ==
  ASSUME ShapeOK, RunInv, ActiveInv, StartInv, HistoryInv, [Next]_vars
  PROVE  HistoryInv'
<1> USE NullAssumption, WritesAssumption DEF ShapeOK
<1>1. \A r \in Runs : InFlight(r) =>
        /\ runSession[r] \in Sessions /\ active[runSession[r]] = r
        /\ Known(runSession[r])
        /\ OwnTail(r, history[runSession[r]], written[r])
  BY DEF HistoryInv, HistoryIntact, OwnTail, RunInv, ActiveInv, OneActiveRun, InFlight
<1>2. SUFFICES ASSUME NEW r \in Runs
               PROVE  /\ InFlight(r)' => OwnTail(r, history'[runSession'[r]], written'[r])
                      /\ runPc'[r] = "idle" => written'[r] = 0
  BY DEF HistoryInv, HistoryIntact, OwnTail
<1>3. runPc[r] = "idle" => written[r] = 0
  BY DEF HistoryInv
<1>4. CASE UNCHANGED <<runPc, runSession, written, history>>
  BY <1>1, <1>3, <1>4 DEF InFlight
<1>5. ASSUME NEW s \in Sessions, SessionNext(s)
      PROVE  /\ InFlight(r)' => OwnTail(r, history'[runSession'[r]], written'[r])
             /\ runPc'[r] = "idle" => written'[r] = 0
  <2>1. UNCHANGED <<runPc, runSession, written>>
    BY <1>5, SessionFrame DEF runVars
  <2>2. InFlight(r) => history'[runSession[r]] = history[runSession[r]]
    <3>1. CASE ForkSnapshot(s)
      BY <1>1, <3>1 DEF ForkSnapshot, Known
    <3>2. CASE Clear(s)
      BY <1>1, <3>2 DEF Clear, Idle
    <3>3. CASE \/ \E q \in Sessions : ForkCheck(s, q)
               \/ Register(s) \/ StartHookPasses(s) \/ StartHookFails(s)
               \/ MarkStartFailed(s)
      BY <3>3 DEF ForkCheck, Register, StartHookPasses, StartHookFails,
        MarkStartFailed
    <3>4. QED
      BY <1>5, <3>1, <3>2, <3>3 DEF SessionNext
  <2>3. QED
    BY <1>1, <1>3, <2>1, <2>2 DEF InFlight
<1>6. ASSUME NEW q \in Runs, RunNext(q)
      PROVE  /\ InFlight(r)' => OwnTail(r, history'[runSession'[r]], written'[r])
             /\ runPc'[r] = "idle" => written'[r] = 0
  <2>1. CASE AppendMessage(q)
    <3>1. UNCHANGED <<runPc, runSession>> /\ InFlight(q)
      BY <2>1 DEF AppendMessage, Executing, InFlight
    <3>2. CASE r = q
      <4>1. OwnTail(r, Append(history[runSession[r]], r), written[r] + 1)
        BY <1>1, <3>1, <3>2, TailAppend
      <4>2. /\ history'[runSession[r]] = Append(history[runSession[r]], r)
            /\ written'[r] = written[r] + 1
        BY <1>1, <2>1, <3>1, <3>2 DEF AppendMessage
      <4>3. QED
        BY <3>1, <3>2, <4>1, <4>2 DEF InFlight
    <3>3. CASE r # q
      <4>1. written'[r] = written[r]
        BY <2>1, <3>3 DEF AppendMessage
      <4>2. InFlight(r) => history'[runSession[r]] = history[runSession[r]]
        BY <1>1, <2>1, <3>1, <3>3 DEF AppendMessage
      <4>3. QED
        BY <1>1, <1>3, <3>1, <4>1, <4>2 DEF InFlight
    <3>4. QED
      BY <3>2, <3>3
  <2>2. CASE ~AppendMessage(q)
    <3>1. UNCHANGED <<history, written>>
      BY <1>6, <2>2 DEF RunNext, StartRefused, StartReserves, TakeSlot,
        AbandonWait, Recheck, LoopReturns, Publish, Finish, Cancel, runVars
    <3>2. \/ InFlight(r) /\ runSession'[r] = runSession[r]
          \/ ~InFlight(r)'
          \/ runPc[r] = "idle" /\ runSession'[r] \in Sessions
      BY <1>6, <2>2 DEF RunNext, StartRefused, StartReserves, TakeSlot,
        AbandonWait, Recheck, LoopReturns, Publish, Finish, Cancel, runVars,
        InFlight, Executing
    <3>3. runPc'[r] = "idle" => runPc[r] = "idle"
      BY RunNotIdle
    <3>4. CASE runPc[r] = "idle" /\ runSession'[r] \in Sessions
      BY <1>3, <3>1, <3>4 DEF OwnTail
    <3>5. QED
      BY <1>1, <1>3, <3>1, <3>2, <3>3, <3>4
  <2>3. QED
    BY <2>1, <2>2
<1>7. CASE UNCHANGED vars
  BY <1>4, <1>7 DEF vars, runVars
<1>8. CASE \/ \E c \in Closers, s \in Sessions : CloseSession(c, s)
           \/ \E c \in AllClosers : CloserNext(c)
  BY <1>4, <1>8, CloserFrame DEF runVars
<1>9. CASE AgentNext
  BY <1>4, <1>9, AgentFrame DEF runVars
<1>10. CASE \E i \in Inits : InitNext(i)
  BY <1>4, <1>10, InitFrame DEF notInitVars, runVars
<1>11. QED
  BY <1>5, <1>6, <1>7, <1>8, <1>9, <1>10 DEF Next

-----------------------------------------------------------------------------
(***************************************************************************)
(* Theorems                                                                *)
(***************************************************************************)
\* The inductive invariant holds initially.
LEMMA IInvInit == Init => IInv
<1> SUFFICES ASSUME Init PROVE IInv
  OBVIOUS
<1>1. ShapeOK
  BY ShapeInit
<1>2. SlotInv
  <2>1. {r \in Runs : hasCapacity[r] /\ InFlight(r)} = {}
    BY DEF Init, InFlight
  <2>2. Cardinality({r \in Runs : hasCapacity[r] /\ InFlight(r)}) = 0
    BY <2>1, FS_EmptySet
  <2>3. runSlots = 0
    BY DEF Init
  <2>4. QED
    BY <2>2, <2>3, CapacityAssumption DEF SlotInv, SlotAccounting
<1>3. /\ RunInv /\ ActiveInv /\ StartInv /\ HistoryInv
  BY IdAssumption, NullAssumption
  DEF Init, RunInv, ActiveInv, OneActiveRun, StartInv, HistoryInv, HistoryIntact,
    InFlight, Executing, Registered
<1>4. CloserInv /\ EndInv
  BY NullAssumption DEF Init, CloserInv, EndInv, AllClosers
<1>5. ClosedRunIsCancelled /\ AgentInv /\ McpClosedAfterInit /\ ToolsReachSessions
  BY IdAssumption DEF Init, ClosedRunIsCancelled, AgentInv, McpClosedAfterInit,
    InitBusy, ToolsReachSessions
<1>6. QED
  BY <1>1, <1>2, <1>3, <1>4, <1>5 DEF IInv

\* Every step preserves it.
LEMMA IInvStep == IInv /\ [Next]_vars => IInv'
<1> SUFFICES ASSUME IInv, [Next]_vars PROVE IInv'
  OBVIOUS
<1> USE DEF IInv
<1>1. ShapeOK'               BY ShapeStep
<1>2. RunInv'                BY RunStep
<1>3. ActiveInv'             BY ActiveStep
<1>4. SlotInv'               BY SlotStep
<1>5. StartInv'              BY StartStep
<1>6. CloserInv'             BY CloserStep
<1>7. ClosedRunIsCancelled'  BY <1>1, ClosedRunStep
<1>8. EndInv'                BY EndStep
<1>9. AgentInv'              BY AgentStep
<1>10. McpClosedAfterInit'   BY InitBusyStep
<1>11. ToolsReachSessions'   BY ToolsStep
<1>12. HistoryInv'           BY HistoryStep
<1>13. QED
  BY <1>1, <1>2, <1>3, <1>4, <1>5, <1>6, <1>7, <1>8, <1>9, <1>10, <1>11, <1>12

\* Every reachable state satisfies the inductive invariant.
THEOREM Invariance == Spec => []IInv
BY IInvInit, IInvStep, PTL DEF Spec

\* All variables keep their types, and complete never takes a token back that
\* is not in runSlots.
THEOREM TypeCorrect == Spec => []TypeOK
<1>1. IInv => TypeOK
  BY SlotBound DEF IInv, TypeOK
<1>2. QED
  BY <1>1, Invariance, PTL

\* Tokens are neither leaked nor duplicated, and at most MaxConcurrentRuns Runs
\* execute, for any number of Sessions, Runs and closers.
THEOREM CapacityCorrect == Spec => [](SlotAccounting /\ CapacityBound)
<1>1. IInv => SlotAccounting /\ CapacityBound
  BY SlotBound DEF IInv, SlotInv
<1>2. QED
  BY <1>1, Invariance, PTL

\* A Session has one unfinished Run at most, and nobody else touches the history
\* that Run is writing.
THEOREM SessionSerial == Spec => [](OneActiveRun /\ HistoryIntact)
<1>1. IInv => OneActiveRun /\ HistoryIntact
  BY DEF IInv, ActiveInv, HistoryInv
<1>2. QED
  BY <1>1, Invariance, PTL

\* Once a Session is closed its Run is cancelled, or the closer that saw it is
\* about to cancel it, whatever Start, Close and the SessionStart hook do.
THEOREM CancelCorrect == Spec => []ClosedRunIsCancelled
<1>1. IInv => ClosedRunIsCancelled
  BY DEF IInv
<1>2. QED
  BY <1>1, Invariance, PTL

\* Close returns only when the Run and the SessionEnd hook are over, and that
\* hook runs after every Run of its Session.
THEOREM CloseCorrect == Spec => [](CloseJoins /\ SessionEndIsLast)
<1>1. IInv => CloseJoins /\ SessionEndIsLast
  BY DEF IInv, EndInv, Ended, CloseJoins, SessionEndIsLast
<1>2. QED
  BY <1>1, Invariance, PTL

\* Agent.Close closes the MCP client after every Session in the map has ended.
THEOREM AgentCloseCorrect == Spec => []McpClosedAfterSessions
<1>1. IInv => McpClosedAfterSessions
  <2> SUFFICES ASSUME IInv PROVE McpClosedAfterSessions
    OBVIOUS
  <2>1. ASSUME agentPc \in {"initWait", "closeMcp", "closed"},
               NEW s \in Sessions, Registered(s)
        PROVE  Ended(s)
    BY <2>1 DEF IInv, AgentInv
  <2>2. QED
    BY <2>1 DEF McpClosedAfterSessions, Ended
<1>2. QED
  BY <1>1, Invariance, PTL

\* ... and after every Init has returned: no server is connected to the closed
\* client.
THEOREM InitCorrect == Spec => []McpClosedAfterInit
<1>1. IInv => McpClosedAfterInit
  BY DEF IInv
<1>2. QED
  BY <1>1, Invariance, PTL

\* A registered Session has every MCP tool that Init has connected.
THEOREM ToolsCorrect == Spec => []ToolsReachSessions
<1>1. IInv => ToolsReachSessions
  BY DEF IInv
<1>2. QED
  BY <1>1, Invariance, PTL
=============================================================================

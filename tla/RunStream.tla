------------------------------ MODULE RunStream ------------------------------
(***************************************************************************)
(* The channels of one Run (agent/run.go): the producer that emits events  *)
(* and completes, the callers of Events (or Query) that read them, the     *)
(* callers of Wait, and the host that may cancel.  A progress event is its *)
(* number; a Run's error is the set of error kinds errors.Join holds.      *)
(***************************************************************************)
EXTENDS Integers, Sequences, FiniteSets

CONSTANTS
  EventCap,    \* capacity of Run.events (64 in the code)
  MaxEvents,   \* bound: progress events runLoop emits
  Readers,     \* callers of Events or Query
  Waiters,     \* callers of Wait
  Terminal     \* the terminal result event

ASSUME CapAssumption == EventCap \in Nat \ {0} /\ MaxEvents \in Nat
ASSUME TerminalAssumption == Terminal \notin 1 .. MaxEvents

VARIABLES
  pc,            \* the producer, in runLoop, emit and complete
  emitted,       \* progress events sent so far
  runErr,        \* error kinds of Run.err
  outcome,       \* Run.result.Subtype, "none" until decided
  buffer,        \* Run.events
  eventsClosed,
  errs,          \* Run.errs
  errsClosed,
  done,          \* Run.done is closed
  busy,          \* Session.active is this Run
  kept,          \* Session.messages is not empty
  ctxDone,       \* Run.ctx is cancelled
  owner,         \* Run.eventOwner: 0 unclaimed, 1 Events, 2 Wait
  dropped,       \* progress events discarded by emitTerminal
  readerPc, errSeen, waiterPc, result,
  received       \* what each reader or draining Wait took from events

producerVars == <<emitted, runErr, outcome, dropped>>
channelVars  == <<eventsClosed, errsClosed, done>>
sessionVars  == <<busy, kept>>
readerVars   == <<readerPc, errSeen, received>>
waiterVars   == <<waiterPc, result>>
vars == <<pc, producerVars, buffer, errs, channelVars, sessionVars, ctxDone,
          owner, readerVars, waiterVars>>

Event      == (1 .. MaxEvents) \cup {Terminal}
\* "limit" stands for ErrMaxTurns and ErrMaxBudget, "error" for any other.
ErrorKinds == {"cancelled", "limit", "error"}
Outcomes   == ErrorKinds \cup {"success"}
NotSeen    == {"not seen"}

ProducerPcs == {"loop", "sending", "complete", "terminal", "drop", "cancelCtx",
                "closeEvents", "sendErr", "closeErrs", "release", "finished"}

\* The kind resultStatus names when errors.Join holds several.
ResultStatus(E) == IF E = {} THEN "success"
                   ELSE IF "cancelled" \in E THEN "cancelled"
                   ELSE IF "limit" \in E THEN "limit" ELSE "error"

Init ==
  /\ pc = "loop" /\ emitted = 0 /\ runErr = {} /\ outcome = "none"
  /\ buffer = <<>> /\ eventsClosed = FALSE
  /\ errs = <<>> /\ errsClosed = FALSE
  /\ done = FALSE /\ busy = TRUE /\ kept = TRUE
  /\ ctxDone = FALSE /\ owner = 0 /\ dropped = 0
  /\ readerPc = [r \in Readers |-> "idle"]
  /\ received = [x \in Readers \cup Waiters |-> <<>>]
  /\ errSeen = [r \in Readers |-> NotSeen]
  /\ waiterPc = [w \in Waiters |-> "idle"]
  /\ result = [w \in Waiters |-> "none"]

-----------------------------------------------------------------------------
(***************************************************************************)
(* Faults: wrong versions of guards and effects below; no action uses one. *)
(***************************************************************************)
SendsNoError(E)    == <<>>
StaysOpen          == UNCHANGED eventsClosed
EventsClosedJoins  == eventsClosed
TerminalUnlessCancelled ==
  /\ pc = "terminal"
  /\ IF Len(buffer) < EventCap /\ ~ctxDone
     THEN buffer' = Append(buffer, Terminal) /\ pc' = "cancelCtx"
     ELSE pc' = (IF ctxDone THEN "cancelCtx" ELSE "drop") /\ UNCHANGED buffer
  /\ UNCHANGED <<producerVars, errs, channelVars, sessionVars, ctxDone, owner,
                 readerVars, waiterVars>>

-----------------------------------------------------------------------------
(***************************************************************************)
(* The producer: runLoop and emit                                          *)
(***************************************************************************)
\* A select on the Run's context.
ContextDone == ctxDone
\* emit's and checkAdmission's look at ctx.Err().
ContextErr  == ctxDone
\* A send on Run.events goes through while the buffer has room.
HasRoom == Len(buffer) < EventCap

\* emit begins with a look at the context.
EmitChecks ==
  /\ pc = "loop" /\ emitted < MaxEvents
  /\ IF ContextErr
     THEN pc' = "complete" /\ runErr' = {"cancelled"}
     ELSE pc' = "sending" /\ UNCHANGED runErr
  /\ UNCHANGED <<emitted, outcome, dropped, buffer, errs, channelVars,
                 sessionVars, ctxDone, owner, readerVars, waiterVars>>

\* Its select: the buffer takes the event, ...
EmitSends ==
  /\ pc = "sending" /\ HasRoom
  /\ emitted' = emitted + 1
  /\ buffer' = Append(buffer, emitted + 1)
  /\ pc' = "loop"
  /\ UNCHANGED <<runErr, outcome, dropped, errs, channelVars, sessionVars,
                 ctxDone, owner, readerVars, waiterVars>>

\* ... or the context is done and runLoop returns its error.
EmitCancelled ==
  /\ pc = "sending" /\ ContextDone
  /\ runErr' = {"cancelled"}
  /\ pc' = "complete"
  /\ UNCHANGED <<emitted, outcome, dropped, buffer, errs, channelVars,
                 sessionVars, ctxDone, owner, readerVars, waiterVars>>

\* runLoop returns: an answer without tools, some error, or the context's.
LoopReturns(E) ==
  /\ pc = "loop"
  /\ E \in {{}, {"error"}, {"limit"}} \/ (E = {"cancelled"} /\ ctxDone)
  /\ runErr' = E
  /\ pc' = "complete"
  /\ UNCHANGED <<emitted, outcome, dropped, buffer, errs, channelVars,
                 sessionVars, ctxDone, owner, readerVars, waiterVars>>

-----------------------------------------------------------------------------
(***************************************************************************)
(* The producer: complete and emitTerminal                                 *)
(***************************************************************************)
\* The Stop hook passes (H empty), fails or blocks ("error"), or runs into its
\* timeout ("cancelled"); its error joins the Run's and the result is cached.
StopHook(H) ==
  /\ pc = "complete"
  /\ H \in {{}, {"error"}, {"cancelled"}}
  /\ runErr' = runErr \cup H
  /\ outcome' = ResultStatus(runErr')
  /\ pc' = "terminal"
  /\ UNCHANGED <<emitted, dropped, buffer, errs, channelVars, sessionVars,
                 ctxDone, owner, readerVars, waiterVars>>

\* First select of emitTerminal.
SendTerminal ==
  /\ pc = "terminal"
  /\ IF HasRoom
     THEN buffer' = Append(buffer, Terminal) /\ pc' = "cancelCtx"
     ELSE pc' = "drop" /\ UNCHANGED buffer
  /\ UNCHANGED <<producerVars, errs, channelVars, sessionVars, ctxDone, owner,
                 readerVars, waiterVars>>

\* Second select: discard the oldest event, unless a reader has emptied the
\* buffer meanwhile.
DropsOldest(b) == IF b = <<>> THEN b ELSE Tail(b)

DropOldest ==
  /\ pc = "drop"
  /\ buffer' = DropsOldest(buffer)
  /\ dropped' = dropped + Len(buffer) - Len(buffer')
  /\ pc' = "terminal"
  /\ UNCHANGED <<emitted, runErr, outcome, errs, channelVars, sessionVars,
                 ctxDone, owner, readerVars, waiterVars>>

CancelContext ==
  /\ pc = "cancelCtx"
  /\ ctxDone' = TRUE
  /\ pc' = "closeEvents"
  /\ UNCHANGED <<producerVars, buffer, errs, channelVars, sessionVars, owner,
                 readerVars, waiterVars>>

ClosesEvents == eventsClosed' = TRUE

CloseEvents ==
  /\ pc = "closeEvents"
  /\ ClosesEvents
  /\ pc' = "sendErr"
  /\ UNCHANGED <<producerVars, buffer, errs, errsClosed, done, sessionVars,
                 ctxDone, owner, readerVars, waiterVars>>

\* At most one error goes to errs, which has room for it.
SendsError(E) == IF E = {} THEN <<>> ELSE <<E>>

SendErr ==
  /\ pc = "sendErr"
  /\ errs' = SendsError(runErr)
  /\ pc' = "closeErrs"
  /\ UNCHANGED <<producerVars, buffer, channelVars, sessionVars, ctxDone, owner,
                 readerVars, waiterVars>>

CloseErrs ==
  /\ pc = "closeErrs"
  /\ errsClosed' = TRUE
  /\ pc' = "release"
  /\ UNCHANGED <<producerVars, buffer, errs, eventsClosed, done, sessionVars,
                 ctxDone, owner, readerVars, waiterVars>>

\* Under runMu: the Session is idle again and done is closed.
Release ==
  /\ pc = "release"
  /\ busy' = FALSE
  /\ done' = TRUE
  /\ pc' = "finished"
  /\ UNCHANGED <<producerVars, buffer, errs, eventsClosed, errsClosed, kept,
                 ctxDone, owner, readerVars, waiterVars>>

\* Run.Cancel, Session.Close or the caller's own context.
Cancel ==
  /\ ~ctxDone
  /\ ctxDone' = TRUE
  /\ UNCHANGED <<pc, producerVars, buffer, errs, channelVars, sessionVars,
                 owner, readerVars, waiterVars>>

-----------------------------------------------------------------------------
(***************************************************************************)
(* Readers                                                                 *)
(***************************************************************************)
\* The sessionVars and channels only the producer writes.
producerState == <<pc, producerVars, channelVars>>

\* Events claims the stream unless it is claimed; a stream Wait has claimed is
\* replaced by a closed one.
CallEvents(r) ==
  /\ readerPc[r] = "idle"
  /\ owner' = IF owner = 0 THEN 1 ELSE owner
  /\ readerPc' = [readerPc EXCEPT ![r] = IF owner = 2 THEN "closedStream"
                                                      ELSE "reading"]
  /\ UNCHANGED <<producerState, buffer, errs, sessionVars, ctxDone, received,
                 errSeen, waiterVars>>

\* Some taker receives the oldest event.
Takes(x) ==
  /\ buffer # <<>>
  /\ received' = [received EXCEPT ![x] = Append(@, Head(buffer))]
  /\ buffer' = Tail(buffer)

Receive(r) ==
  /\ readerPc[r] = "reading"
  /\ Takes(r)
  /\ UNCHANGED <<producerState, errs, sessionVars, ctxDone, owner, readerPc,
                 errSeen, waiterVars>>

\* The range over events ends.
SeeEnd(r) ==
  /\ readerPc[r] = "reading" /\ buffer = <<>> /\ eventsClosed
  /\ readerPc' = [readerPc EXCEPT ![r] = "drained"]
  /\ UNCHANGED <<producerState, buffer, errs, sessionVars, ctxDone, owner,
                 received, errSeen, waiterVars>>

\* A reader that does not drain must cancel.
Quit(r) ==
  /\ readerPc[r] = "reading"
  /\ ctxDone' = TRUE
  /\ readerPc' = [readerPc EXCEPT ![r] = "quit"]
  /\ UNCHANGED <<producerState, buffer, errs, sessionVars, owner, received,
                 errSeen, waiterVars>>

\* Having drained events, it receives from errs: an error or its end.
ReceiveErr(r) ==
  /\ readerPc[r] = "drained"
  /\ errs # <<>> \/ errsClosed
  /\ errSeen' = [errSeen EXCEPT ![r] = IF errs = <<>> THEN {} ELSE Head(errs)]
  /\ errs' = IF errs = <<>> THEN errs ELSE Tail(errs)
  /\ readerPc' = [readerPc EXCEPT ![r] = "ended"]
  /\ UNCHANGED <<producerState, buffer, sessionVars, ctxDone, owner, received,
                 waiterVars>>

\* It then calls Session.Clear, a no-op while the Session is busy.
ClearAfterwards(r) ==
  /\ readerPc[r] = "ended"
  /\ kept' = (kept /\ busy)
  /\ readerPc' = [readerPc EXCEPT ![r] = "cleared"]
  /\ UNCHANGED <<producerState, buffer, errs, busy, ctxDone, owner, received,
                 errSeen, waiterVars>>

-----------------------------------------------------------------------------
(***************************************************************************)
(* Wait                                                                    *)
(***************************************************************************)
\* CompareAndSwap(0, 2): the first Wait drains if nobody has claimed events.
Unclaimed == owner = 0

CallWait(w) ==
  /\ waiterPc[w] = "idle"
  /\ IF Unclaimed
     THEN owner' = 2 /\ waiterPc' = [waiterPc EXCEPT ![w] = "draining"]
     ELSE waiterPc' = [waiterPc EXCEPT ![w] = "joining"] /\ UNCHANGED owner
  /\ UNCHANGED <<producerState, buffer, errs, sessionVars, ctxDone, readerVars,
                 result>>

Drain(w) ==
  /\ waiterPc[w] = "draining"
  /\ Takes(w)
  /\ UNCHANGED <<producerState, errs, sessionVars, ctxDone, owner, readerPc,
                 errSeen, waiterVars>>

DrainEnds(w) ==
  /\ waiterPc[w] = "draining" /\ buffer = <<>> /\ eventsClosed
  /\ waiterPc' = [waiterPc EXCEPT ![w] = "joining"]
  /\ UNCHANGED <<producerState, buffer, errs, sessionVars, ctxDone, owner,
                 readerVars, result>>

\* <-r.done, then a copy of the cached result.
DoneJoins == done

WaitReturns(w) ==
  /\ waiterPc[w] = "joining" /\ DoneJoins
  /\ result' = [result EXCEPT ![w] = outcome]
  /\ waiterPc' = [waiterPc EXCEPT ![w] = "returned"]
  /\ UNCHANGED <<producerState, buffer, errs, sessionVars, ctxDone, owner,
                 readerVars>>

-----------------------------------------------------------------------------
Produce ==
  \/ EmitChecks \/ EmitSends \/ EmitCancelled
  \/ \E E \in SUBSET ErrorKinds : LoopReturns(E) \/ StopHook(E)
  \/ SendTerminal \/ DropOldest \/ CancelContext \/ CloseEvents
  \/ SendErr \/ CloseErrs \/ Release

ReaderNext(r) ==
  \/ Receive(r) \/ SeeEnd(r) \/ Quit(r) \/ ReceiveErr(r) \/ ClearAfterwards(r)

WaiterNext(w) == Drain(w) \/ DrainEnds(w) \/ WaitReturns(w)

Next ==
  \/ Produce
  \/ Cancel
  \/ \E r \in Readers : CallEvents(r) \/ ReaderNext(r)
  \/ \E w \in Waiters : CallWait(w) \/ WaiterNext(w)

Spec == Init /\ [][Next]_vars

\* The producer steps (runLoop returns within its turns) and a Wait goes on.
\* Nobody needs to call Events, Wait or Cancel, and a reader that has claimed the
\* stream may stop reading.
FairSpec ==
  /\ Spec
  /\ WF_vars(Produce)
  /\ \A w \in Waiters : WF_vars(WaiterNext(w))

-----------------------------------------------------------------------------
(***************************************************************************)
(* Properties                                                              *)
(***************************************************************************)
Takers    == Readers \cup Waiters
ReaderPcs == {"idle", "closedStream", "reading", "drained", "quit", "ended",
              "cleared"}
WaiterPcs == {"idle", "draining", "joining", "returned"}

\* Every variable has its type; the channels hold no more than their capacity.
TypeOK ==
  /\ pc \in ProducerPcs
  /\ emitted \in 0 .. MaxEvents /\ dropped \in Nat
  /\ runErr \in SUBSET ErrorKinds
  /\ outcome \in Outcomes \cup {"none"}
  /\ buffer \in Seq(Event) /\ Len(buffer) <= EventCap
  /\ errs \in Seq(SUBSET ErrorKinds) /\ Len(errs) <= 1
  /\ eventsClosed \in BOOLEAN /\ errsClosed \in BOOLEAN /\ done \in BOOLEAN
  /\ busy \in BOOLEAN /\ kept \in BOOLEAN /\ ctxDone \in BOOLEAN
  /\ owner \in 0 .. 2
  /\ readerPc \in [Readers -> ReaderPcs]
  /\ waiterPc \in [Waiters -> WaiterPcs]
  /\ received \in [Takers -> Seq(Event)]
  /\ errSeen \in [Readers -> (SUBSET ErrorKinds) \cup {NotSeen}]
  /\ result \in [Waiters -> Outcomes \cup {"none"}]

\* The positions of Terminal in a sequence of events.
TerminalsIn(s) == {k \in DOMAIN s : s[k] = Terminal}

Ended(s) == TerminalsIn(s) # {}

\* The places an event can be: the channel or what a taker took.
Places == {buffer} \cup {received[x] : x \in Takers}

\* No cancellation, full buffer or slow reader loses the terminal event
\* (emitTerminal): once events is closed exactly one place holds it or took it,
\* once, and no event follows it there.
TerminalDelivered ==
  /\ \A s \in Places : TerminalsIn(s) \subseteq {Len(s)}
  /\ \A x, y \in Takers : Ended(received[x]) /\ Ended(received[y]) => x = y
  /\ Ended(buffer) => \A x \in Takers : ~Ended(received[x])
  /\ eventsClosed => \E s \in Places : Ended(s)

\* A full buffer costs a consumer one progress event, never more.
AtMostOneDropped == dropped <= 1

\* Wait does not take events from a caller of Events, and only one Wait drains.
OneDrainOwner ==
  /\ \A r \in Readers, w \in Waiters :
       ~(readerPc[r] \in {"reading", "drained", "ended"} /\ waiterPc[w] = "draining")
  /\ \A v, w \in Waiters : waiterPc[v] = "draining" /\ waiterPc[w] = "draining" => v = w

\* The channel of errors agrees with the result (complete sends to errs after
\* the Stop hook's error joined the Run's): once a reader of errs got an answer,
\* one of them got the error whose status is the outcome.
ErrorAgrees ==
  LET told == {r \in Readers : errSeen[r] # NotSeen}
  IN  told # {} => \E r \in told : ResultStatus(errSeen[r]) = outcome

\* The Run keeps its contract: Wait returns (to every caller) the one outcome
\* complete decided, and not before the Session is idle again, so that its
\* caller can start the next Run.
Contract == INSTANCE RunContract
              WITH Callers <- Waiters, Undecided <- "none",
                   idle <- ~busy, answer <- result

ImplementsContract == Contract!Spec

\* Every Wait returns, whether it drains itself or a reader does who goes on
\* reading until the end.
ReadersGoOn == \A r \in Readers : WF_vars(ReaderNext(r))
EveryWaitReturns ==
  ReadersGoOn =>
    \A w \in Waiters : waiterPc[w] # "idle" ~> waiterPc[w] = "returned"

\* A cancelled Run completes even if whoever claimed its events reads nothing.
CancelCompletes == ctxDone ~> done

\* Nobody waits for ever: Wait returns when the readers go on, and complete
\* closes done after a cancellation even when they do not.
WaitsEnd == EveryWaitReturns /\ CancelCompletes

\* TestLegacyAgentUsesDefaultSession: after reading both channels of Query to
\* the end, Clear empties the history.
DrainedCallerClears ==
  \A r \in Readers : readerPc[r] = "cleared" => ~kept
=============================================================================

-------------------------- MODULE RunStreamProofs --------------------------
(***************************************************************************)
(* TLAPS proofs about RunStream, for any buffer capacity, any number of    *)
(* readers and Waits and any number of events: its types, the delivery of  *)
(* the terminal event, the agreement of its two channels, and that it      *)
(* implements the safety of RunContract.                                   *)
(***************************************************************************)
EXTENDS RunStream, SequenceTheorems, TLAPS

Early         == {"loop", "sending", "complete"}
AfterSend     == {"closeErrs", "release", "finished"}
Closing       == {"sendErr"} \cup AfterSend
AfterTerminal == {"cancelCtx", "closeEvents"} \cup Closing

Clean(s)          == \A k \in DOMAIN s : s[k] # Terminal
EndsInTerminal(s) == /\ s # <<>>
                     /\ s[Len(s)] = Terminal
                     /\ \A k \in DOMAIN s : k # Len(s) => s[k] # Terminal

\* What the producer has done is told by its location.
PhaseInv ==
  /\ (outcome = "none") <=> (pc \in Early)
  /\ outcome # "none" => outcome = ResultStatus(runErr)
  /\ busy <=> (pc # "finished")
  /\ done <=> (pc = "finished")
  /\ eventsClosed <=> (pc \in Closing)
  /\ errsClosed => pc \in {"release", "finished"}
  /\ pc = "sending" => emitted < MaxEvents

\* A Wait has an answer exactly when it has returned, after done was closed.
WaiterInv ==
  \A w \in Waiters :
    /\ (result[w] = "none") <=> (waiterPc[w] # "returned")
    /\ waiterPc[w] = "returned" => done

\* The owner is who reads; at most one Wait drains.
OwnerInv ==
  /\ \A r \in Readers :
       /\ readerPc[r] \notin {"idle", "closedStream"} => owner = 1
  /\ \A w \in Waiters : waiterPc[w] = "draining" => owner = 2
  /\ \A v, w \in Waiters :
       waiterPc[v] = "draining" /\ waiterPc[w] = "draining" => v = w

\* emitTerminal drops nothing before it found the buffer full, and has room
\* once it dropped an event.
DropInv ==
  /\ dropped \in {0, 1}
  /\ pc \in Early \cup {"drop"} => dropped = 0
  /\ pc = "terminal" /\ dropped = 1 => Len(buffer) < EventCap

\* The terminal event is nowhere before emitTerminal has sent it, and then
\* last in exactly one place, after which the channel stays empty.
TermInv ==
  /\ pc \notin AfterTerminal =>
       Clean(buffer) /\ \A x \in Takers : Clean(received[x])
  /\ pc \in AfterTerminal =>
       \/ EndsInTerminal(buffer) /\ \A x \in Takers : Clean(received[x])
       \/ /\ buffer = <<>>
          /\ \E x \in Takers :
               /\ EndsInTerminal(received[x])
               /\ \A y \in Takers \ {x} : Clean(received[y])

\* errs holds the Run's error from complete's send until one reader has it.
ErrInv ==
  /\ \A r \in Readers :
       readerPc[r] \notin {"ended", "cleared"} => errSeen[r] = NotSeen
  /\ pc \notin AfterSend =>
       errs = <<>> /\ \A r \in Readers : errSeen[r] = NotSeen
  /\ pc \in AfterSend =>
       \/ /\ runErr = {} /\ errs = <<>>
          /\ \A r \in Readers : errSeen[r] \in {NotSeen, {}}
       \/ /\ runErr # {} /\ errs = <<runErr>>
          /\ \A r \in Readers : errSeen[r] = NotSeen
       \/ /\ runErr # {} /\ errs = <<>>
          /\ \E r \in Readers : errSeen[r] = runErr

IInv == /\ TypeOK /\ PhaseInv /\ WaiterInv /\ OwnerInv /\ DropInv /\ TermInv
        /\ ErrInv


-----------------------------------------------------------------------------
(***************************************************************************)
(* Sequences of events                                                     *)
(***************************************************************************)
\* Appending a progress event keeps a sequence clear of the terminal event.
LEMMA AppendClean ==
  ASSUME NEW s \in Seq(Event), NEW e \in Event, Clean(s), e # Terminal
  PROVE  Clean(Append(s, e))
  BY DEF Clean

\* Appending the terminal event ends a sequence without one in it.
LEMMA AppendTerminal ==
  ASSUME NEW s \in Seq(Event), Clean(s)
  PROVE  EndsInTerminal(Append(s, Terminal))
  BY DEF Clean, EndsInTerminal, Event

\* Taking the oldest event of a channel without the terminal one.
LEMMA TakeClean ==
  ASSUME NEW s \in Seq(Event), Clean(s), s # <<>>
  PROVE  Clean(Tail(s)) /\ Head(s) # Terminal
  BY DEF Clean

\* Taking the oldest event of a channel that ends in the terminal one takes
\* that one only when no other is left.
LEMMA TakeFromEnding ==
  ASSUME NEW s \in Seq(Event), EndsInTerminal(s)
  PROVE  \/ Head(s) = Terminal /\ Tail(s) = <<>>
         \/ Head(s) # Terminal /\ EndsInTerminal(Tail(s))
  <1> s # <<>> /\ Len(s) \in Nat /\ Len(s) > 0 /\ Head(s) = s[1]
    BY DEF EndsInTerminal
  <1> Tail(s) \in Seq(Event) /\ Len(Tail(s)) = Len(s) - 1
    BY HeadTailProperties
  <1>1. CASE Len(s) = 1
    <2>1. Tail(s) = <<>>
      <3>1. Len(Tail(s)) = 0
        BY <1>1
      <3> QED BY <3>1, EmptySeq
    <2> QED BY <2>1, <1>1 DEF EndsInTerminal
  <1>2. CASE Len(s) > 1
    <2>1. 1 # Len(s) /\ 1 \in DOMAIN s
      BY <1>2
    <2>2. Tail(s) # <<>>
      <3>1. Len(Tail(s)) # 0
        BY <1>2
      <3>2. Len(<<>>) = 0
        BY EmptySeq
      <3> QED BY <3>1, <3>2
    <2>3. \A k \in DOMAIN Tail(s) : Tail(s)[k] = s[k + 1] /\ k + 1 \in DOMAIN s
      BY <1>2
    <2> QED BY <2>1, <2>2, <2>3, <1>2 DEF EndsInTerminal
  <1> QED BY <1>1, <1>2

\* An event appended to a channel is counted.
LEMMA AppendEvent ==
  ASSUME NEW s \in Seq(Event), NEW e \in Event
  PROVE  Append(s, e) \in Seq(Event) /\ Len(Append(s, e)) = Len(s) + 1
  OBVIOUS

\* What the bounds on EventCap give: the buffer is never full when empty.
LEMMA CapFacts == EventCap \in Nat /\ EventCap >= 1 /\ MaxEvents \in Nat
  BY CapAssumption

-----------------------------------------------------------------------------
(***************************************************************************)
(* Types                                                                   *)
(***************************************************************************)
\* The initial state satisfies the inductive invariant.
LEMMA InitIInv == Init => IInv
  <1> SUFFICES ASSUME Init PROVE IInv
    OBVIOUS
  <1>1. TypeOK
    <2>1. <<>> \in Seq(Event) /\ <<>> \in Seq(SUBSET ErrorKinds) /\ Len(<<>>) = 0
      OBVIOUS
    <2>2. /\ pc \in ProducerPcs /\ emitted \in 0 .. MaxEvents /\ dropped \in Nat
          /\ outcome = "none" /\ runErr = {} /\ owner \in 0 .. 2
          /\ Len(buffer) <= EventCap /\ Len(errs) <= 1
      BY <2>1, CapFacts DEF Init, ProducerPcs
    <2>3. /\ readerPc \in [Readers -> ReaderPcs]
          /\ waiterPc \in [Waiters -> WaiterPcs]
      BY DEF Init, ReaderPcs, WaiterPcs
    <2>4. received \in [Takers -> Seq(Event)]
      BY <2>1 DEF Init, Takers
    <2>5. /\ errSeen \in [Readers -> (SUBSET ErrorKinds) \cup {NotSeen}]
          /\ result \in [Waiters -> Outcomes \cup {"none"}]
      BY DEF Init
    <2> QED BY <2>1, <2>2, <2>3, <2>4, <2>5 DEF Init, TypeOK
  <1>2. PhaseInv /\ WaiterInv /\ OwnerInv /\ DropInv
    BY DEF Init, PhaseInv, WaiterInv, OwnerInv, DropInv, Early, Closing, AfterSend
  <1>3. TermInv
    BY DEF Init, TermInv, AfterTerminal, Closing, AfterSend, Clean, Takers
  <1>4. ErrInv
    BY DEF Init, ErrInv, AfterSend
  <1> QED BY <1>1, <1>2, <1>3, <1>4 DEF IInv

\* Steps of the producer keep the types.
LEMMA TypeProduce ==
  ASSUME TypeOK, PhaseInv, Produce
  PROVE  TypeOK'
  <1> USE CapFacts DEF TypeOK, producerVars, channelVars, sessionVars,
          readerVars, waiterVars
  <1>1. CASE EmitChecks
    BY <1>1 DEF EmitChecks, ProducerPcs, ErrorKinds
  <1>2. CASE EmitSends
    <2>1. emitted + 1 \in 1 .. MaxEvents
      BY <1>2 DEF EmitSends, PhaseInv
    <2>2. buffer' \in Seq(Event) /\ Len(buffer') <= EventCap
      BY <1>2, <2>1, AppendEvent DEF EmitSends, HasRoom, Event
    <2> QED BY <1>2, <2>1, <2>2 DEF EmitSends, ProducerPcs
  <1>3. CASE EmitCancelled
    BY <1>3 DEF EmitCancelled, ProducerPcs, ErrorKinds
  <1>4. ASSUME NEW E \in SUBSET ErrorKinds, LoopReturns(E)
        PROVE  TypeOK'
    BY <1>4 DEF LoopReturns, ProducerPcs
  <1>5. ASSUME NEW E \in SUBSET ErrorKinds, StopHook(E)
        PROVE  TypeOK'
    BY <1>5 DEF StopHook, ProducerPcs, ResultStatus, Outcomes, ErrorKinds
  <1>6. CASE SendTerminal
    <2>1. Terminal \in Event
      BY DEF Event
    <2>2. buffer' \in Seq(Event) /\ Len(buffer') <= EventCap
      <3>1. Append(buffer, Terminal) \in Seq(Event)
            /\ Len(Append(buffer, Terminal)) = Len(buffer) + 1
        BY ONLY TypeOK, <2>1, AppendEvent DEF TypeOK
      <3>2. CASE HasRoom
        <4>1. buffer' = Append(buffer, Terminal)
          BY ONLY <1>6, <3>2 DEF SendTerminal
        <4>2. Len(buffer) \in Nat /\ Len(buffer) < EventCap
          BY ONLY TypeOK, <3>2 DEF TypeOK, HasRoom
        <4> QED BY ONLY <3>1, <4>1, <4>2, CapFacts
      <3>3. CASE ~HasRoom
        BY <1>6, <3>3 DEF SendTerminal
      <3> QED BY <3>2, <3>3
    <2> QED BY <1>6, <2>2 DEF SendTerminal, ProducerPcs
  <1>7. CASE DropOldest
    <2>1. buffer' \in Seq(Event) /\ Len(buffer') <= Len(buffer)
      BY <1>7 DEF DropOldest, DropsOldest
    <2>2. dropped' \in Nat
      BY <1>7, <2>1 DEF DropOldest
    <2> QED BY <1>7, <2>1, <2>2 DEF DropOldest, ProducerPcs
  <1>8. CASE CancelContext \/ CloseEvents \/ CloseErrs \/ Release
    BY <1>8 DEF CancelContext, CloseEvents, ClosesEvents, CloseErrs, Release,
       ProducerPcs
  <1>9. CASE SendErr
    <2>1. errs' \in Seq(SUBSET ErrorKinds) /\ Len(errs') <= 1
      <3>1. \A E \in SUBSET ErrorKinds :
              <<E>> \in Seq(SUBSET ErrorKinds) /\ Len(<<E>>) = 1
        OBVIOUS
      <3>2. <<>> \in Seq(SUBSET ErrorKinds) /\ Len(<<>>) = 0
        OBVIOUS
      <3>3. errs' = <<>> \/ errs' = <<runErr>>
        BY <1>9 DEF SendErr, SendsError
      <3>4. runErr \in SUBSET ErrorKinds
        BY DEF TypeOK
      <3>5. CASE errs' = <<>>
        BY ONLY <3>2, <3>5
      <3>6. CASE errs' = <<runErr>>
        BY ONLY <3>1, <3>4, <3>6
      <3> QED BY ONLY <3>3, <3>5, <3>6
    <2> QED BY <1>9, <2>1 DEF SendErr, ProducerPcs
  <1> QED BY <1>1, <1>2, <1>3, <1>4, <1>5, <1>6, <1>7, <1>8, <1>9 DEF Produce

\* Taking an event keeps the types of the channel and of the taker.
LEMMA TypeTakes ==
  ASSUME TypeOK, NEW x \in Takers, Takes(x)
  PROVE  /\ buffer' \in Seq(Event) /\ Len(buffer') <= EventCap
         /\ received' \in [Takers -> Seq(Event)]
  <1>1. Head(buffer) \in Event /\ Tail(buffer) \in Seq(Event)
        /\ Len(Tail(buffer)) <= Len(buffer)
    BY DEF TypeOK, Takes
  <1>2. received[x] \in Seq(Event)
    BY DEF TypeOK
  <1>3. Append(received[x], Head(buffer)) \in Seq(Event)
    BY <1>1, <1>2
  <1> QED BY <1>1, <1>3, CapFacts DEF TypeOK, Takes

\* Steps of a reader, and the host's cancellation, keep the types.
LEMMA TypeReader ==
  ASSUME TypeOK, NEW r \in Readers, CallEvents(r) \/ ReaderNext(r) \/ Cancel
  PROVE  TypeOK'
  <1> USE DEF TypeOK, producerState, producerVars, channelVars, sessionVars,
          readerVars, waiterVars, ReaderPcs
  <1>1. CASE CallEvents(r)
    BY <1>1 DEF CallEvents
  <1>2. CASE Receive(r)
    <2>1. r \in Takers
      BY DEF Takers
    <2> QED BY <1>2, <2>1, TypeTakes DEF Receive
  <1>3. CASE SeeEnd(r) \/ Quit(r) \/ ClearAfterwards(r) \/ Cancel
    BY <1>3 DEF SeeEnd, Quit, ClearAfterwards, Cancel
  <1>4. CASE ReceiveErr(r)
    <2>1. errs' \in Seq(SUBSET ErrorKinds) /\ Len(errs') <= 1
      BY <1>4 DEF ReceiveErr
    <2>2. errSeen' \in [Readers -> (SUBSET ErrorKinds) \cup {NotSeen}]
      BY <1>4 DEF ReceiveErr
    <2> QED BY <1>4, <2>1, <2>2 DEF ReceiveErr
  <1> QED BY <1>1, <1>2, <1>3, <1>4 DEF ReaderNext

\* Steps of a caller of Wait keep the types.
LEMMA TypeWaiter ==
  ASSUME TypeOK, NEW w \in Waiters, CallWait(w) \/ WaiterNext(w)
  PROVE  TypeOK'
  <1> USE DEF TypeOK, producerState, producerVars, channelVars, sessionVars,
          readerVars, waiterVars, WaiterPcs
  <1>1. CASE CallWait(w)
    BY <1>1 DEF CallWait
  <1>2. CASE Drain(w)
    <2>1. w \in Takers
      BY DEF Takers
    <2> QED BY <1>2, <2>1, TypeTakes DEF Drain
  <1>3. CASE DrainEnds(w) \/ WaitReturns(w)
    BY <1>3 DEF DrainEnds, WaitReturns
  <1> QED BY <1>1, <1>2, <1>3 DEF WaiterNext

\* Every step keeps the types.
LEMMA TypeStep ==
  ASSUME TypeOK, PhaseInv, [Next]_vars
  PROVE  TypeOK'
  <1>1. CASE UNCHANGED vars
    BY <1>1 DEF vars, TypeOK, producerVars, channelVars, sessionVars,
       readerVars, waiterVars
  <1>2. CASE Cancel
    BY <1>2 DEF Cancel, TypeOK, producerVars, channelVars, sessionVars,
       readerVars, waiterVars
  <1> QED BY <1>1, <1>2, TypeProduce, TypeReader, TypeWaiter DEF Next


-----------------------------------------------------------------------------
(***************************************************************************)
(* The control of producer, readers and Waits                              *)
(***************************************************************************)
\* The producer's location goes on telling what it has done.
LEMMA PhaseStep ==
  ASSUME TypeOK, PhaseInv, [Next]_vars
  PROVE  PhaseInv'
  <1> USE DEF PhaseInv, Early, Closing, AfterSend, vars, producerState,
          producerVars, channelVars, sessionVars, readerVars, waiterVars
  <1>1. CASE UNCHANGED vars
    BY <1>1 DEF ResultStatus
  <1>2. CASE EmitChecks \/ EmitSends \/ EmitCancelled
    BY <1>2 DEF EmitChecks, EmitSends, EmitCancelled
  <1>3. ASSUME NEW E \in SUBSET ErrorKinds, LoopReturns(E)
        PROVE  PhaseInv'
    BY <1>3 DEF LoopReturns
  <1>4. ASSUME NEW E \in SUBSET ErrorKinds, StopHook(E)
        PROVE  PhaseInv'
    <2>1. outcome' = ResultStatus(runErr') /\ outcome' # "none"
      BY <1>4 DEF StopHook, ResultStatus
    <2> QED BY <1>4, <2>1 DEF StopHook
  <1>5. CASE SendTerminal \/ DropOldest \/ CancelContext \/ CloseEvents
    BY <1>5 DEF SendTerminal, DropOldest, CancelContext, CloseEvents,
       ClosesEvents, ResultStatus
  <1>6. CASE SendErr \/ CloseErrs \/ Release \/ Cancel
    BY <1>6 DEF SendErr, CloseErrs, Release, Cancel, ResultStatus
  <1>7. ASSUME NEW r \in Readers, CallEvents(r) \/ ReaderNext(r)
        PROVE  PhaseInv'
    BY <1>7 DEF CallEvents, ReaderNext, Receive, SeeEnd, Quit, ReceiveErr,
       ClearAfterwards, ResultStatus
  <1>8. ASSUME NEW w \in Waiters, CallWait(w) \/ WaiterNext(w)
        PROVE  PhaseInv'
    BY <1>8 DEF CallWait, WaiterNext, Drain, DrainEnds, WaitReturns, ResultStatus
  <1> QED BY <1>1, <1>2, <1>3, <1>4, <1>5, <1>6, <1>7, <1>8 DEF Next, Produce

\* The producer does not touch what belongs to readers and Waits.
LEMMA ProduceFrame ==
  ASSUME Produce
  PROVE  UNCHANGED <<owner, readerPc, errSeen, received, waiterPc, result>>
  BY DEF Produce, EmitChecks, EmitSends, EmitCancelled, LoopReturns, StopHook,
     SendTerminal, DropOldest, CancelContext, CloseEvents, SendErr, CloseErrs,
     Release, readerVars, waiterVars

\* The channel done stays closed.
LEMMA DoneStays ==
  ASSUME PhaseInv, [Next]_vars, done
  PROVE  done'
  BY DEF PhaseInv, Next, Produce, EmitChecks, EmitSends, EmitCancelled,
     LoopReturns, StopHook, SendTerminal, DropOldest, CancelContext,
     CloseEvents, SendErr, CloseErrs, Release, Cancel, CallEvents, ReaderNext,
     Receive, SeeEnd, Quit, ReceiveErr, ClearAfterwards, CallWait, WaiterNext,
     Drain, DrainEnds, WaitReturns, vars, producerState, channelVars

\* A Wait has an answer exactly once it returned.
LEMMA WaiterStep ==
  ASSUME TypeOK, PhaseInv, WaiterInv, [Next]_vars
  PROVE  WaiterInv'
  <1>1. CASE Produce \/ Cancel \/ UNCHANGED vars
    <2>1. UNCHANGED <<waiterPc, result>>
      BY <1>1, ProduceFrame DEF Cancel, vars, waiterVars
    <2> QED BY <2>1, DoneStays DEF WaiterInv
  <1>2. ASSUME NEW r \in Readers, CallEvents(r) \/ ReaderNext(r)
        PROVE  WaiterInv'
    <2>1. UNCHANGED <<waiterPc, result>>
      BY <1>2 DEF CallEvents, ReaderNext, Receive, SeeEnd, Quit, ReceiveErr,
         ClearAfterwards, waiterVars
    <2> QED BY <2>1, DoneStays DEF WaiterInv
  <1>3. ASSUME NEW w \in Waiters, CallWait(w) \/ Drain(w) \/ DrainEnds(w)
        PROVE  WaiterInv'
    <2>1. waiterPc' \in [Waiters -> WaiterPcs] /\ UNCHANGED <<result, done>>
      BY <1>3 DEF CallWait, Drain, DrainEnds, TypeOK, WaiterPcs, producerState,
         channelVars, waiterVars
    <2>2. waiterPc[w] # "returned" /\ waiterPc'[w] # "returned"
      BY <1>3 DEF CallWait, Drain, DrainEnds, TypeOK, waiterVars
    <2>3. \A v \in Waiters \ {w} : waiterPc'[v] = waiterPc[v]
      BY <1>3 DEF CallWait, Drain, DrainEnds, TypeOK, waiterVars
    <2> QED BY <2>1, <2>2, <2>3 DEF WaiterInv
  <1>4. ASSUME NEW w \in Waiters, WaitReturns(w)
        PROVE  WaiterInv'
    <2>1. outcome # "none" /\ done'
      BY <1>4, DoneStays DEF WaitReturns, DoneJoins, PhaseInv, Early
    <2> QED BY <1>4, <2>1 DEF WaitReturns, WaiterInv, TypeOK
  <1> QED BY <1>1, <1>2, <1>3, <1>4 DEF Next, WaiterNext

\* The stream keeps its owner, and one Wait at most drains it.
LEMMA OwnerStep ==
  ASSUME TypeOK, OwnerInv, [Next]_vars
  PROVE  OwnerInv'
  <1>1. CASE Produce \/ Cancel \/ UNCHANGED vars
    <2>1. UNCHANGED <<owner, readerPc, waiterPc>>
      BY <1>1, ProduceFrame DEF Cancel, vars, readerVars, waiterVars
    <2> QED BY <2>1 DEF OwnerInv
  <1>2. ASSUME NEW r \in Readers, CallEvents(r)
        PROVE  OwnerInv'
    BY <1>2 DEF CallEvents, OwnerInv, TypeOK, waiterVars
  <1>3. ASSUME NEW r \in Readers, ReaderNext(r)
        PROVE  OwnerInv'
    BY <1>3 DEF ReaderNext, Receive, SeeEnd, Quit, ReceiveErr, ClearAfterwards,
       OwnerInv, TypeOK, waiterVars
  <1>4. ASSUME NEW w \in Waiters, CallWait(w) \/ WaiterNext(w)
        PROVE  OwnerInv'
    <2>1. CASE CallWait(w) /\ Unclaimed
      <3>1. owner = 0 /\ owner' = 2 /\ UNCHANGED readerPc
        BY <2>1 DEF CallWait, Unclaimed, readerVars
      <3>2. \A v \in Waiters : waiterPc[v] # "draining"
        BY <3>1 DEF OwnerInv
      <3>3. \A v \in Waiters : waiterPc'[v] = "draining" => v = w
        BY <2>1, <3>2 DEF CallWait, TypeOK
      <3>4. \A r \in Readers : readerPc[r] \in {"idle", "closedStream"}
        BY <3>1 DEF OwnerInv
      <3> QED BY <3>1, <3>3, <3>4 DEF OwnerInv
    <2>2. CASE (CallWait(w) /\ ~Unclaimed) \/ WaiterNext(w)
      <3>1. UNCHANGED <<owner, readerPc>>
        BY <2>2 DEF CallWait, WaiterNext, Drain, DrainEnds, WaitReturns, readerVars
      <3>2. \A v \in Waiters : waiterPc'[v] = "draining" => waiterPc[v] = "draining"
        BY <2>2 DEF CallWait, WaiterNext, Drain, DrainEnds, WaitReturns, TypeOK,
           waiterVars
      <3> QED BY <3>1, <3>2 DEF OwnerInv
    <2> QED BY <1>4, <2>1, <2>2
  <1> QED BY <1>1, <1>2, <1>3, <1>4 DEF Next

\* Only the drop of emitTerminal discards an event, and only once.
LEMMA DropStep ==
  ASSUME TypeOK, DropInv, [Next]_vars
  PROVE  DropInv'
  <1> USE DEF DropInv, Early
  <1>1. CASE DropOldest
    <2>1. buffer = <<>> \/ (Len(buffer) > 0 /\ Len(Tail(buffer)) = Len(buffer) - 1)
      BY DEF TypeOK
    <2> QED BY <1>1, <2>1, CapFacts DEF DropOldest, DropsOldest, TypeOK
  <1>2. CASE SendTerminal
    BY <1>2 DEF SendTerminal, HasRoom, producerVars
  <1>3. ASSUME NEW E \in SUBSET ErrorKinds, LoopReturns(E) \/ StopHook(E)
        PROVE  DropInv'
    BY <1>3 DEF LoopReturns, StopHook
  <1>4. CASE EmitChecks \/ EmitSends \/ EmitCancelled \/ CancelContext
             \/ CloseEvents \/ SendErr \/ CloseErrs \/ Release
    BY <1>4 DEF EmitChecks, EmitSends, EmitCancelled, CancelContext, CloseEvents,
       SendErr, CloseErrs, Release, producerVars
  <1>5. ASSUME NEW x \in Takers, Takes(x), UNCHANGED <<pc, dropped>>
        PROVE  DropInv'
    BY <1>5, CapFacts DEF Takes, TypeOK
  <1>6. ASSUME NEW r \in Readers, CallEvents(r) \/ ReaderNext(r)
        PROVE  DropInv'
    <2>1. r \in Takers
      BY DEF Takers
    <2> QED BY <1>5, <1>6, <2>1 DEF CallEvents, ReaderNext, Receive, SeeEnd, Quit,
               ReceiveErr, ClearAfterwards, producerState, producerVars
  <1>7. ASSUME NEW w \in Waiters, CallWait(w) \/ WaiterNext(w)
        PROVE  DropInv'
    <2>1. w \in Takers
      BY DEF Takers
    <2> QED BY <1>5, <1>7, <2>1 DEF CallWait, WaiterNext, Drain, DrainEnds,
               WaitReturns, producerState, producerVars
  <1>8. CASE Cancel \/ UNCHANGED vars
    BY <1>8 DEF Cancel, vars, producerVars
  <1> QED BY <1>1, <1>2, <1>3, <1>4, <1>6, <1>7, <1>8 DEF Next, Produce


-----------------------------------------------------------------------------
(***************************************************************************)
(* The terminal event                                                      *)
(***************************************************************************)
\* Whoever takes an event, the terminal one stays last in one place.
LEMMA TermTakes ==
  ASSUME TypeOK, TermInv, NEW x \in Takers, Takes(x), UNCHANGED pc
  PROVE  TermInv'
  <1> DEFINE e == Head(buffer)
  <1>1. /\ buffer # <<>> /\ buffer \in Seq(Event) /\ e \in Event
        /\ buffer' = Tail(buffer)
    BY DEF Takes, TypeOK
  <1>2. /\ received'[x] = Append(received[x], e)
        /\ \A y \in Takers \ {x} : received'[y] = received[y]
        /\ received[x] \in Seq(Event)
    BY DEF Takes, TypeOK
  <1>3. ASSUME Clean(buffer), \A y \in Takers : Clean(received[y])
        PROVE  Clean(buffer') /\ \A y \in Takers : Clean(received'[y])
    <2>1. Clean(Tail(buffer)) /\ e # Terminal
      BY <1>1, <1>3, TakeClean
    <2>2. Clean(Append(received[x], e))
      BY <1>1, <1>2, <1>3, <2>1, AppendClean
    <2> QED BY <1>1, <1>2, <1>3, <2>1, <2>2
  <1>4. ASSUME EndsInTerminal(buffer), \A y \in Takers : Clean(received[y])
        PROVE  \/ /\ EndsInTerminal(buffer')
                  /\ \A y \in Takers : Clean(received'[y])
               \/ /\ buffer' = <<>> /\ EndsInTerminal(received'[x])
                  /\ \A y \in Takers \ {x} : Clean(received'[y])
    <2>1. CASE e = Terminal /\ Tail(buffer) = <<>>
      <3>1. EndsInTerminal(received'[x])
        BY <1>2, <1>4, <2>1, AppendTerminal
      <3> QED BY <1>1, <1>2, <1>4, <2>1, <3>1
    <2>2. CASE e # Terminal /\ EndsInTerminal(Tail(buffer))
      <3>1. Clean(received'[x])
        BY <1>1, <1>2, <1>4, <2>2, AppendClean
      <3> QED BY <1>1, <1>2, <1>4, <2>2, <3>1
    <2> QED BY <1>1, <1>4, <2>1, <2>2, TakeFromEnding
  <1>5. CASE pc \in AfterTerminal
    <2>1. EndsInTerminal(buffer) /\ \A y \in Takers : Clean(received[y])
      BY <1>1, <1>5 DEF TermInv
    <2> QED BY <1>4, <1>5, <2>1 DEF TermInv
  <1>6. CASE pc \notin AfterTerminal
    BY <1>3, <1>6 DEF TermInv
  <1> QED BY <1>5, <1>6

\* Every step keeps the terminal event where TermInv says.
LEMMA TermStep ==
  ASSUME TypeOK, PhaseInv, TermInv, [Next]_vars
  PROVE  TermInv'
  <1> USE DEF AfterTerminal, Closing, AfterSend
  <1>1. CASE EmitSends
    <2>1. emitted + 1 \in Event /\ emitted + 1 # Terminal
      BY <1>1, TerminalAssumption, CapFacts DEF EmitSends, PhaseInv, TypeOK, Event
    <2>2. Clean(buffer')
      BY <1>1, <2>1, AppendClean DEF EmitSends, TypeOK, TermInv
    <2> QED BY <1>1, <2>2 DEF EmitSends, TermInv, readerVars
  <1>2. CASE SendTerminal
    <2>1. CASE HasRoom
      <3>1. EndsInTerminal(buffer')
        BY <1>2, <2>1, AppendTerminal DEF SendTerminal, TypeOK, TermInv
      <3> QED BY <1>2, <2>1, <3>1 DEF SendTerminal, TermInv, readerVars
    <2>2. CASE ~HasRoom
      BY <1>2, <2>2 DEF SendTerminal, TermInv, readerVars
    <2> QED BY <2>1, <2>2
  <1>3. CASE DropOldest
    <2>1. Clean(buffer')
      BY <1>3, TakeClean DEF DropOldest, DropsOldest, TypeOK, TermInv
    <2> QED BY <1>3, <2>1 DEF DropOldest, TermInv, readerVars
  <1>4. ASSUME UNCHANGED <<buffer, received>>,
               pc' = pc \/ (pc \in AfterTerminal /\ pc' \in AfterTerminal)
                        \/ (pc \notin AfterTerminal /\ pc' \notin AfterTerminal)
        PROVE  TermInv'
    BY <1>4 DEF TermInv
  <1>5. CASE EmitChecks \/ EmitCancelled \/ CancelContext \/ CloseEvents
             \/ SendErr \/ CloseErrs \/ Release \/ Cancel \/ UNCHANGED vars
    BY <1>4, <1>5 DEF EmitChecks, EmitCancelled, CancelContext, CloseEvents,
       SendErr, CloseErrs, Release, Cancel, vars, readerVars
  <1>6. ASSUME NEW E \in SUBSET ErrorKinds, LoopReturns(E) \/ StopHook(E)
        PROVE  TermInv'
    BY <1>4, <1>6 DEF LoopReturns, StopHook, readerVars
  <1>7. ASSUME NEW r \in Readers, CallEvents(r) \/ ReaderNext(r)
        PROVE  TermInv'
    <2>1. r \in Takers
      BY DEF Takers
    <2> QED BY <1>4, <1>7, <2>1, TermTakes DEF CallEvents, ReaderNext, Receive,
               SeeEnd, Quit, ReceiveErr, ClearAfterwards, producerState
  <1>8. ASSUME NEW w \in Waiters, CallWait(w) \/ WaiterNext(w)
        PROVE  TermInv'
    <2>1. w \in Takers
      BY DEF Takers
    <2> QED BY <1>4, <1>8, <2>1, TermTakes DEF CallWait, WaiterNext, Drain,
               DrainEnds, WaitReturns, producerState, readerVars
  <1> QED BY <1>1, <1>2, <1>3, <1>5, <1>6, <1>7, <1>8 DEF Next, Produce

-----------------------------------------------------------------------------
(***************************************************************************)
(* The channel of errors                                                   *)
(***************************************************************************)
\* Every step keeps the Run's error in errs or with a reader.
LEMMA ErrStep ==
  ASSUME TypeOK, PhaseInv, ErrInv, [Next]_vars
  PROVE  ErrInv'
  <1> USE DEF AfterSend
  <1>1. CASE SendErr
    <2>1. \A r \in Readers : errSeen[r] = NotSeen /\ errSeen'[r] = NotSeen
      BY <1>1 DEF SendErr, ErrInv, readerVars
    <2>2. \/ runErr' = {} /\ errs' = <<>>
          \/ runErr' # {} /\ errs' = <<runErr'>>
      BY <1>1 DEF SendErr, SendsError, producerVars
    <2>3. pc' \in AfterSend
      BY <1>1 DEF SendErr
    <2> QED BY <2>1, <2>2, <2>3 DEF ErrInv
  <1>2. ASSUME NEW r \in Readers, ReceiveErr(r)
        PROVE  ErrInv'
    <2>1. pc \in AfterSend /\ pc' = pc /\ runErr' = runErr
      BY <1>2 DEF ReceiveErr, ErrInv, PhaseInv, producerState, producerVars
    <2>2. readerPc[r] = "drained" /\ errSeen[r] = NotSeen
      BY <1>2 DEF ReceiveErr, ErrInv
    <2>3. /\ \A q \in Readers \ {r} : /\ errSeen'[q] = errSeen[q]
                                      /\ readerPc'[q] = readerPc[q]
          /\ readerPc'[r] = "ended"
          /\ errSeen'[r] = IF errs = <<>> THEN {} ELSE Head(errs)
      BY <1>2 DEF ReceiveErr, TypeOK
    <2>4. errs' = <<>>
      <3>1. Tail(<<runErr>>) = <<>>
        OBVIOUS
      <3>2. errs = <<>> \/ errs = <<runErr>>
        BY <2>1 DEF ErrInv
      <3>3. errs' = IF errs = <<>> THEN errs ELSE Tail(errs)
        BY <1>2 DEF ReceiveErr
      <3> QED BY ONLY <3>1, <3>2, <3>3
    <2>5. CASE runErr = {}
      BY <2>1, <2>3, <2>4, <2>5 DEF ErrInv
    <2>6. CASE runErr # {} /\ errs = <<runErr>>
      <3>1. errSeen'[r] = runErr'
        BY <2>1, <2>3, <2>6
      <3> QED BY <2>1, <2>3, <2>4, <2>6, <3>1 DEF ErrInv
    <2>7. CASE runErr # {} /\ errs = <<>>
      <3>1. PICK q \in Readers : errSeen[q] = runErr
        BY <2>1, <2>7 DEF ErrInv
      <3>2. "not seen" \notin runErr
        BY DEF TypeOK, ErrorKinds
      <3>3. q # r
        BY <2>2, <3>1, <3>2 DEF NotSeen
      <3> QED BY <2>1, <2>3, <2>4, <2>7, <3>1, <3>3 DEF ErrInv
    <2> QED BY <2>1, <2>5, <2>6, <2>7 DEF ErrInv
  <1>3. ASSUME UNCHANGED <<errs, errSeen, runErr>>,
               pc' \in AfterSend <=> pc \in AfterSend,
               \A r \in Readers : readerPc'[r] \notin {"ended", "cleared"}
                                    => readerPc[r] \notin {"ended", "cleared"}
        PROVE  ErrInv'
    BY <1>3 DEF ErrInv
  <1>4. ASSUME NEW r \in Readers, CallEvents(r) \/ Receive(r) \/ SeeEnd(r)
                                  \/ Quit(r) \/ ClearAfterwards(r)
        PROVE  ErrInv'
    BY <1>3, <1>4 DEF CallEvents, Receive, SeeEnd, Quit, ClearAfterwards,
       producerState, producerVars, TypeOK
  <1>5. ASSUME NEW w \in Waiters, CallWait(w) \/ WaiterNext(w)
        PROVE  ErrInv'
    BY <1>3, <1>5 DEF CallWait, WaiterNext, Drain, DrainEnds, WaitReturns,
       producerState, producerVars, readerVars
  <1>6. ASSUME Produce, pc \notin AfterSend, pc' \notin AfterSend, errs' = errs
        PROVE  ErrInv'
    <2>1. UNCHANGED <<readerPc, errSeen>>
      BY <1>6, ProduceFrame
    <2> QED BY <1>6, <2>1 DEF ErrInv
  <1>7. CASE EmitChecks \/ EmitSends \/ EmitCancelled \/ SendTerminal
             \/ DropOldest \/ CancelContext \/ CloseEvents
    BY <1>6, <1>7 DEF EmitChecks, EmitSends, EmitCancelled, SendTerminal,
       DropOldest, CancelContext, CloseEvents, Produce
  <1>8. ASSUME NEW E \in SUBSET ErrorKinds, LoopReturns(E) \/ StopHook(E)
        PROVE  ErrInv'
    BY <1>6, <1>8 DEF LoopReturns, StopHook, Produce
  <1>9. CASE CloseErrs \/ Release \/ Cancel \/ UNCHANGED vars
    BY <1>3, <1>9 DEF CloseErrs, Release, Cancel, vars, producerVars, readerVars
  <1> QED BY <1>1, <1>2, <1>4, <1>5, <1>7, <1>8, <1>9
          DEF Next, Produce, ReaderNext


-----------------------------------------------------------------------------
(***************************************************************************)
(* Theorems                                                                *)
(***************************************************************************)
\* Every step keeps the inductive invariant.
LEMMA StepIInv == IInv /\ [Next]_vars => IInv'
  BY TypeStep, PhaseStep, WaiterStep, OwnerStep, DropStep, TermStep, ErrStep
     DEF IInv

\* The inductive invariant holds in every reachable state.
THEOREM Invariance == Spec => []IInv
  BY InitIInv, StepIInv, PTL DEF Spec

\* Run's channels stay within their capacity and every variable has its type.
THEOREM TypeCorrect == Spec => []TypeOK
  <1>1. IInv => TypeOK
    BY DEF IInv
  <1> QED BY <1>1, Invariance, PTL

\* Once Run.events is closed, one place holds or took the terminal event, once
\* and as its last, however full the buffer was and whoever cancelled.
THEOREM TerminalCorrect == Spec => []TerminalDelivered
  <1>1. ASSUME IInv PROVE TerminalDelivered
    <2> USE DEF Ended, TerminalsIn
    <2>1. ASSUME NEW s \in Seq(Event), Clean(s)
          PROVE  ~Ended(s)
      BY <2>1 DEF Clean
    <2>2. ASSUME NEW s \in Seq(Event), EndsInTerminal(s)
          PROVE  Ended(s) /\ TerminalsIn(s) \subseteq {Len(s)}
      <3>1. Len(s) \in DOMAIN s
        BY <2>2, EmptySeq, LenProperties DEF EndsInTerminal
      <3> QED BY <2>2, <3>1 DEF EndsInTerminal
    <2>3. buffer \in Seq(Event) /\ \A x \in Takers : received[x] \in Seq(Event)
      BY <1>1 DEF IInv, TypeOK
    <2>4. CASE pc \notin AfterTerminal
      <3>1. ~Ended(buffer) /\ \A x \in Takers : ~Ended(received[x])
        BY <1>1, <2>1, <2>3, <2>4 DEF IInv, TermInv
      <3>2. ~eventsClosed
        BY <1>1, <2>4 DEF IInv, PhaseInv, AfterTerminal
      <3> QED BY <3>1, <3>2 DEF TerminalDelivered, Places
    <2>5. CASE EndsInTerminal(buffer) /\ \A x \in Takers : Clean(received[x])
      <3>1. /\ Ended(buffer) /\ TerminalsIn(buffer) \subseteq {Len(buffer)}
            /\ \A x \in Takers : ~Ended(received[x])
        BY <2>1, <2>2, <2>3, <2>5
      <3> QED BY <3>1 DEF TerminalDelivered, Places
    <2>6. ASSUME NEW x \in Takers, buffer = <<>>, EndsInTerminal(received[x]),
                 \A y \in Takers \ {x} : Clean(received[y])
          PROVE  TerminalDelivered
      <3>1. /\ Ended(received[x])
            /\ TerminalsIn(received[x]) \subseteq {Len(received[x])}
            /\ \A y \in Takers \ {x} : ~Ended(received[y])
        BY <2>1, <2>2, <2>3, <2>6
      <3>2. ~Ended(buffer)
        BY <2>6
      <3> QED BY <3>1, <3>2 DEF TerminalDelivered, Places
    <2> QED BY <1>1, <2>4, <2>5, <2>6 DEF IInv, TermInv
  <1> QED BY <1>1, Invariance, PTL

\* A full buffer costs at most one progress event, and the stream has one
\* owner: no Wait drains beside a caller of Events or another Wait.
THEOREM StreamCorrect == Spec => [](AtMostOneDropped /\ OneDrainOwner)
  <1>1. IInv => AtMostOneDropped /\ OneDrainOwner
    BY DEF IInv, DropInv, OwnerInv, AtMostOneDropped, OneDrainOwner
  <1> QED BY <1>1, Invariance, PTL

\* Run.errs and the result agree: if any reader of errs has an answer, one got
\* an error whose status is the outcome of the Run.
THEOREM ErrorsCorrect == Spec => []ErrorAgrees
  <1>1. ASSUME IInv PROVE ErrorAgrees
    <2>1. SUFFICES ASSUME NEW r \in Readers, errSeen[r] # NotSeen
                   PROVE  \E q \in Readers : /\ errSeen[q] # NotSeen
                                             /\ ResultStatus(errSeen[q]) = outcome
      BY DEF ErrorAgrees
    <2>2. pc \in AfterSend
      BY <1>1, <2>1 DEF IInv, ErrInv
    <2>3. outcome = ResultStatus(runErr)
      BY <1>1, <2>2 DEF IInv, PhaseInv, Early, AfterSend
    <2>4. runErr # NotSeen
      <3>1. "not seen" \notin runErr
        BY <1>1 DEF IInv, TypeOK, ErrorKinds
      <3> QED BY <3>1 DEF NotSeen
    <2>5. \E q \in Readers : errSeen[q] = runErr
      BY <1>1, <2>1, <2>2 DEF IInv, ErrInv
    <2> QED BY <2>3, <2>4, <2>5
  <1> QED BY <1>1, Invariance, PTL

\* A step other than the three the contract sees is one of its stutters.
LEMMA ContractStutter ==
  ASSUME NEW r,
         \/ EmitChecks \/ EmitSends \/ EmitCancelled \/ SendTerminal
         \/ DropOldest \/ CancelContext \/ CloseEvents \/ SendErr \/ CloseErrs
         \/ Cancel \/ CallEvents(r) \/ ReaderNext(r)
         \/ CallWait(r) \/ Drain(r) \/ DrainEnds(r) \/ UNCHANGED vars
  PROVE  UNCHANGED <<outcome, busy, result>>
  BY DEF EmitChecks, EmitSends, EmitCancelled, SendTerminal, DropOldest,
     CancelContext, CloseEvents, SendErr, CloseErrs, Cancel, CallEvents,
     ReaderNext, Receive, SeeEnd, Quit, ReceiveErr, ClearAfterwards, CallWait,
     Drain, DrainEnds, vars, producerVars, sessionVars, waiterVars,
     producerState


\* Each step of the Run is one of its contract or a stutter: StopHook decides,
\* Release gives the Session back, WaitReturns answers.
LEMMA ContractStep == IInv /\ [Next]_vars => [Contract!Next]_Contract!vars
  <1> SUFFICES ASSUME IInv, [Next]_vars
               PROVE  [Contract!Next]_Contract!vars
    OBVIOUS
  <1> USE DEF Contract!Next, Contract!vars
  <1>1. ASSUME NEW E \in SUBSET ErrorKinds, StopHook(E)
        PROVE  Contract!Decide
    <2>1. outcome = "none" /\ UNCHANGED <<busy, result>>
      BY <1>1 DEF StopHook, IInv, PhaseInv, Early, sessionVars, waiterVars
    <2>2. outcome' \in Outcomes
      BY <1>1 DEF StopHook, ResultStatus, Outcomes, ErrorKinds
    <2> QED BY <2>1, <2>2 DEF Contract!Decide
  <1>2. ASSUME NEW E \in SUBSET ErrorKinds, LoopReturns(E)
        PROVE  UNCHANGED Contract!vars
    BY <1>2 DEF LoopReturns, sessionVars, waiterVars
  <1>3. CASE Release
    BY <1>3 DEF Release, Contract!GiveBack, IInv, PhaseInv, Early,
       producerVars, waiterVars
  <1>4. ASSUME NEW w \in Waiters, WaitReturns(w)
        PROVE  Contract!Answer(w)
    <2>1. ~busy /\ result[w] = "none"
      BY <1>4 DEF WaitReturns, DoneJoins, IInv, PhaseInv, WaiterInv
    <2> QED BY <1>4, <2>1 DEF WaitReturns, Contract!Answer, producerState,
               producerVars, sessionVars
  <1>5. ASSUME UNCHANGED <<outcome, busy, result>>
        PROVE  UNCHANGED Contract!vars
    BY <1>5
  <1> QED BY <1>1, <1>2, <1>3, <1>4, <1>5, ContractStutter
          DEF Next, Produce, WaiterNext

\* A Run implements its contract: every Wait returns the one decided outcome,
\* and only when the Session is idle again.
THEOREM ContractCorrect == Spec => ImplementsContract
  <1>1. Init => Contract!Init
    BY DEF Init, Contract!Init
  <1> QED BY <1>1, ContractStep, Invariance, PTL
          DEF Spec, ImplementsContract, Contract!Spec
=============================================================================

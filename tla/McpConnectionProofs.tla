------------------------ MODULE McpConnectionProofs ------------------------
(***************************************************************************)
(* Proofs about McpConnection, for any number of requests and closers.     *)
(*                                                                         *)
(* That a caller gets the response to its own request is not inductive: it *)
(* needs to know what is in the pipes.  The gate makes exchanges exclusive *)
(* (GateInv, WorkerInv), and an exchange is left either with its answer    *)
(* read, or with the connection closing or the server gone, so that a new  *)
(* one begins with empty pipes (PipeInv).                                  *)
(***************************************************************************)
EXTENDS McpConnection, SequenceTheorems, TLAPS

WithGate == InExchange \cup {"recheck"}

\* Whoever is past the gate holds it, and is counted from before it.
GateInv ==
  \A r \in Reqs : /\ reqPc[r] \in WithGate \cup {"gate"} => r \in requests
                  /\ reqPc[r] \in WithGate => gate = r

\* A worker lives inside its exchange, and a result is the line it read.
WorkerInv ==
  \A r \in Reqs : /\ reqPc[r] \in {"idle", "register", "gate", "recheck"} => worker[r] = "none"
                  /\ Working(r) => reqPc[r] \in InExchange
                  /\ outcome[r] = "ok" => worker[r] = "ok"

LineInv == \A r \in Reqs : worker[r] = "ok" => line[r] = r

\* The pipes are empty, or hold the one answer the worker waits for.  What a
\* server has received and will not answer, since it is gone, does not count.
Quiet     == stdout = <<>> /\ (serverUp => received = {})
OnlyOf(r) == \/ stdout = <<>> /\ (serverUp => received \subseteq {r})
             \/ stdout = <<r>> /\ (serverUp => received = {})

PipeInv ==
  /\ ~closing /\ (\A r \in Reqs : ~Working(r)) => Quiet
  /\ \A r \in Reqs : /\ worker[r] = "write" => Quiet
                     /\ worker[r] = "read" => OnlyOf(r)

CloseInv ==
  /\ closing <=> once # Nobody
  /\ down <=> once = "done"
  /\ \A c \in Closers : /\ closerPc[c] \in {"wait", "returned"} => once = "done"
                        /\ closerPc[c] = "returned" => requests = {}

\* A call has its outcome when it leaves its exchange, which ends without an
\* answer only after the connection has been closed.
OutcomeInv ==
  \A r \in Reqs :
    /\ reqPc[r] \in {"idle", "register", "gate", "recheck", "exchange"} => outcome[r] = "none"
    /\ reqPc[r] \in {"poison", "shut", "join"} => outcome[r] \in {"cancelled", "closed"}
    /\ reqPc[r] \in {"shut", "join"} => closing

IInv == TypeOK /\ GateInv /\ WorkerInv /\ LineInv /\ PipeInv /\ CloseInv /\ OutcomeInv

-----------------------------------------------------------------------------
LEMMA InitCorrect == Init => IInv
<1> SUFFICES ASSUME Init PROVE IInv
    OBVIOUS
<1>1. TypeOK
  <2>1. stdout \in Seq(Reqs)
      BY EmptySeq DEF Init
  <2> QED BY <2>1 DEF Init, TypeOK, ReqPcs
<1>2. GateInv /\ WorkerInv /\ LineInv
    BY DEF Init, GateInv, WorkerInv, LineInv, WithGate, InExchange, Working
<1>3. PipeInv
    BY DEF Init, PipeInv, Quiet, Working
<1>4. CloseInv /\ OutcomeInv
    BY NobodyAssumption DEF Init, CloseInv, OutcomeInv
<1> QED BY <1>1, <1>2, <1>3, <1>4 DEF IInv

-----------------------------------------------------------------------------
(* Types                                                                    *)
LEMMA TypeStep == TypeOK /\ GateInv /\ [Next]_vars => TypeOK'
<1> SUFFICES ASSUME TypeOK, GateInv, [Next]_vars PROVE TypeOK'
    OBVIOUS
<1> USE DEF TypeOK, connVars, callVars, workVars, serverVars
<1>1. ASSUME NEW r \in Reqs, Call(r) \/ Register(r) PROVE TypeOK'
    BY <1>1 DEF Call, Register, Counted, EndWith, GoTo, ReqPcs
<1>2. ASSUME NEW r \in Reqs, TakeGate(r) \/ GiveUpGate(r) PROVE TypeOK'
    BY <1>2 DEF GateInv, TakeGate, GiveUpGate, EndWith, GoTo, ReqPcs
<1>3. ASSUME NEW r \in Reqs, Recheck(r) PROVE TypeOK'
    BY <1>3 DEF Recheck, EndWith, GoTo, ReqPcs
<1>4. ASSUME NEW r \in Reqs, \E o \in {"ok", "error"} : ExchangeEnds(r, o) PROVE TypeOK'
    BY <1>4 DEF ExchangeEnds, EndWith, ReqPcs
<1>5. ASSUME NEW r \in Reqs, ExchangeCancelled(r) \/ ExchangeClosed(r) \/ JoinWorker(r)
      PROVE  TypeOK'
    BY <1>5 DEF ExchangeCancelled, ExchangeClosed, JoinWorker, AfterCancel, GoTo, ReqPcs
<1>6. ASSUME NEW r \in Reqs, Leave(r) PROVE TypeOK'
    BY <1>6 DEF Leave, DoneWith, GoTo, ReqPcs
<1>7. ASSUME NEW r \in Reqs, Poison(r) \/ ShutByRequest(r) PROVE TypeOK'
  <2>1. CASE Poison(r)
    <3>1. \E l \in {"shut", "join"} : GoTo(r, l)
        BY <2>1 DEF Poison
    <3>2. reqPc' \in [Reqs -> ReqPcs] /\ UNCHANGED outcome
        BY <3>1 DEF GoTo, ReqPcs
    <3> QED BY <2>1, <3>2 DEF Poison, EnterOnce
  <2>2. CASE ShutByRequest(r)
      BY <2>2 DEF ShutByRequest, LeaveOnce, GoTo, ReqPcs
  <2> QED BY <1>7, <2>1, <2>2
<1>8. ASSUME NEW r \in Reqs, WorkerWrites(r) PROVE TypeOK'
    BY <1>8 DEF WorkerWrites
<1>9. ASSUME NEW r \in Reqs, WorkerReads(r) PROVE TypeOK'
  <2>1. stdout # <<>> => Head(stdout) \in Reqs /\ Tail(stdout) \in Seq(Reqs)
      BY HeadTailProperties
  <2>2. line' \in [Reqs -> Reqs \cup {Nobody}] /\ stdout' \in Seq(Reqs)
    <3>1. CASE /\ stdout # <<>> /\ line' = [line EXCEPT ![r] = Head(stdout)]
               /\ stdout' = Tail(stdout)
        BY <2>1, <3>1
    <3>2. CASE UNCHANGED <<line, stdout>>
        BY <3>2
    <3> QED BY <1>9, <3>1, <3>2 DEF WorkerReads
  <2>3. worker' \in [Reqs -> {"none", "write", "read", "ok", "err"}]
      BY <1>9 DEF WorkerReads
  <2>4. UNCHANGED <<connVars, gate, requests, callVars, closerPc, serverUp, received>>
      BY <1>9 DEF WorkerReads
  <2> QED BY <2>2, <2>3, <2>4
<1>10. ASSUME NEW r \in Reqs, ServerAnswers(r) PROVE TypeOK'
  <2>1. Append(stdout, r) \in Seq(Reqs)
      BY AppendProperties
  <2> QED BY <1>10, <2>1 DEF ServerAnswers
<1>11. ASSUME NEW r \in Reqs, CancelCaller(r) PROVE TypeOK'
    BY <1>11 DEF CancelCaller
<1>12. ASSUME NEW c \in Closers, Cleanup(c) PROVE TypeOK'
    BY <1>12 DEF Cleanup, EnterOnce
<1>13. ASSUME NEW c \in Closers, ShutByCloser(c) \/ CleanupReturns(c) PROVE TypeOK'
    BY <1>13 DEF ShutByCloser, CleanupReturns, LeaveOnce
<1>14. CASE ServerExits
    BY <1>14 DEF ServerExits
<1>15. CASE UNCHANGED vars
    BY <1>15 DEF vars
<1> QED
  BY <1>1, <1>2, <1>3, <1>4, <1>5, <1>6, <1>7, <1>8, <1>9, <1>10, <1>11, <1>12, <1>13,
     <1>14, <1>15 DEF Next, sendRequest, work, cleanup

-----------------------------------------------------------------------------
(* The gate, and the workers of those who hold it                           *)
LEMMA GateStep == TypeOK /\ GateInv /\ [Next]_vars => GateInv'
<1> SUFFICES ASSUME TypeOK, GateInv, [Next]_vars PROVE GateInv'
    OBVIOUS
<1> USE DEF TypeOK, GateInv, WithGate, InExchange, connVars, callVars, workVars, serverVars
<1>1. ASSUME NEW r \in Reqs, Call(r) \/ Register(r) PROVE GateInv'
    BY <1>1 DEF Call, Register, Counted, EndWith, GoTo
<1>2. ASSUME NEW r \in Reqs, TakeGate(r) PROVE GateInv'
    BY <1>2, NobodyAssumption DEF TakeGate, GateFree, GoTo
<1>3. ASSUME NEW r \in Reqs, GiveUpGate(r) PROVE GateInv'
    BY <1>3 DEF GiveUpGate, EndWith
<1>4. ASSUME NEW r \in Reqs, Recheck(r) PROVE GateInv'
    BY <1>4 DEF Recheck, EndWith, GoTo
<1>5. ASSUME NEW r \in Reqs, \E o \in {"ok", "error"} : ExchangeEnds(r, o) PROVE GateInv'
    BY <1>5 DEF ExchangeEnds, EndWith
<1>6. ASSUME NEW r \in Reqs, ExchangeCancelled(r) \/ ExchangeClosed(r) \/ JoinWorker(r)
      PROVE  GateInv'
    BY <1>6 DEF ExchangeCancelled, ExchangeClosed, JoinWorker, AfterCancel, GoTo
<1>7. ASSUME NEW r \in Reqs, Leave(r) PROVE GateInv'
    BY <1>7 DEF Leave, DoneWith, GoTo
<1>8. ASSUME NEW r \in Reqs, Poison(r) \/ ShutByRequest(r) PROVE GateInv'
  <2>1. CASE Poison(r)
      BY <2>1 DEF Poison, GoTo
  <2>2. CASE ShutByRequest(r)
      BY <2>2 DEF ShutByRequest, GoTo
  <2> QED BY <1>8, <2>1, <2>2
<1>9. ASSUME NEW r \in Reqs, work(r) \/ ServerAnswers(r) \/ CancelCaller(r) PROVE GateInv'
    BY <1>9 DEF work, WorkerWrites, WorkerReads, ServerAnswers, CancelCaller
<1>10. ASSUME NEW c \in Closers, Cleanup(c) \/ cleanup(c) PROVE GateInv'
    BY <1>10 DEF Cleanup, cleanup, ShutByCloser, CleanupReturns
<1>11. CASE ServerExits \/ UNCHANGED vars
    BY <1>11 DEF ServerExits, vars
<1> QED
  BY <1>1, <1>2, <1>3, <1>4, <1>5, <1>6, <1>7, <1>8, <1>9, <1>10, <1>11 DEF Next, sendRequest

LEMMA WorkerStep == TypeOK /\ WorkerInv /\ [Next]_vars => WorkerInv'
<1> SUFFICES ASSUME TypeOK, WorkerInv, [Next]_vars PROVE WorkerInv'
    OBVIOUS
<1> USE DEF TypeOK, WorkerInv, Working, InExchange, connVars, callVars, workVars, serverVars
<1>1. ASSUME NEW r \in Reqs, Call(r) \/ Register(r) PROVE WorkerInv'
    BY <1>1 DEF Call, Register, EndWith, GoTo
<1>2. ASSUME NEW r \in Reqs, TakeGate(r) \/ GiveUpGate(r) PROVE WorkerInv'
    BY <1>2 DEF TakeGate, GiveUpGate, EndWith, GoTo
<1>3. ASSUME NEW r \in Reqs, Recheck(r) PROVE WorkerInv'
    BY <1>3 DEF Recheck, EndWith, GoTo
<1>4. ASSUME NEW r \in Reqs, \E o \in {"ok", "error"} : ExchangeEnds(r, o) PROVE WorkerInv'
    BY <1>4 DEF ExchangeEnds, WorkerDone, EndWith
<1>5. ASSUME NEW r \in Reqs, ExchangeCancelled(r) \/ ExchangeClosed(r) PROVE WorkerInv'
    BY <1>5 DEF ExchangeCancelled, ExchangeClosed, AfterCancel
<1>6. ASSUME NEW r \in Reqs, JoinWorker(r) \/ Leave(r) PROVE WorkerInv'
    BY <1>6 DEF JoinWorker, WorkerJoined, WorkerDone, Leave, GoTo
<1>7. ASSUME NEW r \in Reqs, Poison(r) \/ ShutByRequest(r) PROVE WorkerInv'
  <2>1. CASE Poison(r)
      BY <2>1 DEF Poison, GoTo
  <2>2. CASE ShutByRequest(r)
      BY <2>2 DEF ShutByRequest, GoTo
  <2> QED BY <1>7, <2>1, <2>2
<1>8. ASSUME NEW r \in Reqs, WorkerWrites(r) PROVE WorkerInv'
    BY <1>8 DEF WorkerWrites
<1>9. ASSUME NEW r \in Reqs, WorkerReads(r) PROVE WorkerInv'
    BY <1>9 DEF WorkerReads
<1>10. ASSUME NEW r \in Reqs, ServerAnswers(r) \/ CancelCaller(r) PROVE WorkerInv'
    BY <1>10 DEF ServerAnswers, CancelCaller
<1>11. ASSUME NEW c \in Closers, Cleanup(c) \/ cleanup(c) PROVE WorkerInv'
    BY <1>11 DEF Cleanup, cleanup, ShutByCloser, CleanupReturns
<1>12. CASE ServerExits \/ UNCHANGED vars
    BY <1>12 DEF ServerExits, vars
<1> QED
  BY <1>1, <1>2, <1>3, <1>4, <1>5, <1>6, <1>7, <1>8, <1>9, <1>10, <1>11, <1>12
  DEF Next, sendRequest, work

\* At most one worker is at the pipes.
LEMMA Exclusive ==
  ASSUME GateInv, WorkerInv, NEW q \in Reqs, NEW r \in Reqs, Working(q),
         reqPc[r] \in WithGate
  PROVE  q = r
BY DEF GateInv, WorkerInv, WithGate, InExchange

-----------------------------------------------------------------------------
(* What is in the pipes                                                     *)

\* The variables the pipes' invariants speak of, but for closing.
pipeVars == <<worker, line, serverUp, received, stdout>>

LEMMA QuietFrame ==
  ASSUME PipeInv, LineInv, UNCHANGED pipeVars, closing => closing'
  PROVE  PipeInv' /\ LineInv'
BY DEF PipeInv, LineInv, pipeVars, Quiet, OnlyOf, Working

LEMMA PipeStep == IInv /\ [Next]_vars => PipeInv' /\ LineInv'
<1> SUFFICES ASSUME IInv, [Next]_vars PROVE PipeInv' /\ LineInv'
    OBVIOUS
<1> USE DEF IInv, connVars, callVars, workVars, serverVars
<1>1. ASSUME NEW r \in Reqs,
             \/ Call(r) \/ Register(r) \/ TakeGate(r) \/ GiveUpGate(r)
             \/ ExchangeCancelled(r) \/ ExchangeClosed(r) \/ JoinWorker(r) \/ Leave(r)
             \/ CancelCaller(r) \/ \E o \in {"ok", "error"} : ExchangeEnds(r, o)
      PROVE  PipeInv' /\ LineInv'
  <2>1. UNCHANGED pipeVars /\ UNCHANGED closing
      BY <1>1 DEF Call, Register, TakeGate, GiveUpGate, ExchangeCancelled, ExchangeClosed,
                  JoinWorker, Leave, CancelCaller, ExchangeEnds, pipeVars
  <2> QED BY <2>1, QuietFrame
<1>2. ASSUME NEW r \in Reqs, Poison(r) \/ ShutByRequest(r) PROVE PipeInv' /\ LineInv'
  <2>1. UNCHANGED pipeVars /\ (closing => closing')
      BY <1>2 DEF Poison, ShutByRequest, EnterOnce, pipeVars
  <2> QED BY <2>1, QuietFrame
<1>3. ASSUME NEW c \in Closers, Cleanup(c) \/ cleanup(c) PROVE PipeInv' /\ LineInv'
  <2>1. UNCHANGED pipeVars /\ (closing => closing')
      BY <1>3 DEF Cleanup, cleanup, ShutByCloser, CleanupReturns, EnterOnce, pipeVars
  <2> QED BY <2>1, QuietFrame
<1>4. CASE UNCHANGED vars
    BY <1>4, QuietFrame DEF vars, pipeVars
\* A worker starts with the gate, on a connection that is not closing.
<1>5. ASSUME NEW r \in Reqs, Recheck(r) PROVE PipeInv' /\ LineInv'
  <2>1. CASE UNCHANGED worker
      BY <1>5, <2>1, QuietFrame DEF Recheck, pipeVars
  <2>2. CASE worker' = [worker EXCEPT ![r] = "write"] /\ ~closing
    <3>1. \A q \in Reqs : ~Working(q)
        BY <1>5, Exclusive DEF Recheck, WithGate, WorkerInv, Working
    <3>2. Quiet /\ Quiet'
        BY <1>5, <2>2, <3>1 DEF PipeInv, Recheck, Quiet
    <3>3. worker'[r] = "write" /\ \A q \in Reqs \ {r} : worker'[q] = worker[q]
        BY <2>2 DEF TypeOK
    <3>4. UNCHANGED line
        BY <1>5 DEF Recheck
    <3> QED BY <3>1, <3>2, <3>3, <3>4 DEF PipeInv, LineInv, Working
  <2> QED BY <1>5, <2>1, <2>2 DEF Recheck
<1>6. ASSUME NEW r \in Reqs, WorkerWrites(r) PROVE PipeInv' /\ LineInv'
  <2>1. Quiet /\ \A q \in Reqs \ {r} : ~Working(q)
      BY <1>6, Exclusive DEF WorkerWrites, PipeInv, Working, WorkerInv, WithGate
  <2>2. UNCHANGED <<line, stdout, serverUp>> /\ \A q \in Reqs \ {r} : worker'[q] = worker[q]
      BY <1>6 DEF WorkerWrites, TypeOK
  <2>3. CASE serverUp /\ received' = received \cup {r} /\ worker'[r] = "read"
      BY <2>1, <2>2, <2>3 DEF PipeInv, LineInv, Quiet, OnlyOf, Working
  <2>4. CASE UNCHANGED received /\ worker'[r] = "err"
      BY <2>1, <2>2, <2>4 DEF PipeInv, LineInv, Quiet, OnlyOf, Working
  <2>5. \/ serverUp /\ received' = received \cup {r} /\ worker'[r] = "read"
        \/ UNCHANGED received /\ worker'[r] = "err"
      BY <1>6 DEF WorkerWrites, TypeOK
  <2> QED BY <2>3, <2>4, <2>5
<1>7. ASSUME NEW r \in Reqs, WorkerReads(r) PROVE PipeInv' /\ LineInv'
  <2>1. OnlyOf(r) /\ \A q \in Reqs \ {r} : ~Working(q)
      BY <1>7, Exclusive DEF WorkerReads, PipeInv, Working, WorkerInv, WithGate
  <2>2. UNCHANGED <<closing, received, serverUp>>
        /\ \A q \in Reqs \ {r} : worker'[q] = worker[q]
      BY <1>7 DEF WorkerReads, TypeOK
  <2>3. CASE /\ stdout # <<>> /\ line' = [line EXCEPT ![r] = Head(stdout)]
             /\ stdout' = Tail(stdout) /\ worker' = [worker EXCEPT ![r] = "ok"]
    <3>1. stdout = <<r>> /\ (serverUp => received = {})
        BY <2>1, <2>3 DEF OnlyOf
    <3>2. Head(stdout) = r /\ Tail(stdout) = <<>>
        BY <3>1
    <3>3. Quiet'
        BY <2>2, <2>3, <3>1, <3>2 DEF Quiet
    <3>4. line'[r] = r /\ worker'[r] = "ok" /\ \A q \in Reqs \ {r} : line'[q] = line[q]
        BY <2>3, <3>2 DEF TypeOK
    <3> QED BY <2>1, <2>2, <3>3, <3>4 DEF PipeInv, LineInv, Working
  <2>4. CASE /\ Unblocked \/ (~serverUp /\ stdout = <<>>)
             /\ worker' = [worker EXCEPT ![r] = "err"]
             /\ UNCHANGED <<line, stdout>>
    <3>1. closing \/ Quiet
        BY <2>4, NobodyAssumption DEF Unblocked, CloseInv, Quiet
    <3>2. worker'[r] = "err"
        BY <2>4 DEF TypeOK
    <3> QED BY <2>1, <2>2, <2>4, <3>1, <3>2 DEF PipeInv, LineInv, Quiet, Working
  <2> QED BY <1>7, <2>3, <2>4 DEF WorkerReads
<1>8. ASSUME NEW r \in Reqs, ServerAnswers(r) PROVE PipeInv' /\ LineInv'
  <2>1. /\ serverUp /\ r \in received /\ received' = received \ {r}
        /\ stdout' = Append(stdout, r) /\ UNCHANGED <<closing, worker, line, serverUp>>
      BY <1>8 DEF ServerAnswers
  <2>2. ~Quiet /\ \A q \in Reqs : worker[q] # "write"
      BY <2>1 DEF Quiet, PipeInv
  <2>3. ASSUME NEW q \in Reqs, worker[q] = "read" PROVE OnlyOf(q)'
    <3>1. stdout = <<>> /\ received \subseteq {q}
        BY <2>1, <2>3 DEF PipeInv, OnlyOf
    <3>2. r = q /\ received' = {} /\ stdout' = <<q>>
        BY <2>1, <3>1
    <3> QED BY <3>2 DEF OnlyOf
  <2> QED BY <2>1, <2>2, <2>3 DEF PipeInv, LineInv, Working
<1>9. CASE ServerExits
    BY <1>9 DEF ServerExits, PipeInv, LineInv, Quiet, OnlyOf, Working
<1> QED
  BY <1>1, <1>2, <1>3, <1>4, <1>5, <1>6, <1>7, <1>8, <1>9 DEF Next, sendRequest, work

-----------------------------------------------------------------------------
(* Closing                                                                  *)
LEMMA CloseStep == TypeOK /\ CloseInv /\ [Next]_vars => CloseInv'
<1> SUFFICES ASSUME TypeOK, CloseInv, [Next]_vars PROVE CloseInv'
    OBVIOUS
<1> USE DEF TypeOK, CloseInv, connVars, callVars, workVars, serverVars
<1>1. ASSUME NEW r \in Reqs,
             \/ Call(r) \/ TakeGate(r) \/ GiveUpGate(r) \/ Recheck(r)
             \/ ExchangeCancelled(r) \/ ExchangeClosed(r) \/ JoinWorker(r)
             \/ work(r) \/ ServerAnswers(r)
             \/ CancelCaller(r) \/ \E o \in {"ok", "error"} : ExchangeEnds(r, o)
      PROVE  CloseInv'
  <2>1. UNCHANGED <<closing, once, down, requests, closerPc>>
      BY <1>1 DEF Call, TakeGate, GiveUpGate, Recheck, ExchangeCancelled, ExchangeClosed,
                  JoinWorker, work, WorkerWrites, WorkerReads, ServerAnswers, CancelCaller,
                  ExchangeEnds
  <2> QED BY <2>1
\* No request is counted any more once one closer could return.
<1>2. ASSUME NEW r \in Reqs, Register(r) \/ Leave(r) PROVE CloseInv'
    BY <1>2, NobodyAssumption DEF Register, Leave, DoneWith
<1>3. ASSUME NEW r \in Reqs, Poison(r) \/ ShutByRequest(r) PROVE CloseInv'
    BY <1>3, NobodyAssumption, DoneAssumption DEF Poison, ShutByRequest, EnterOnce, LeaveOnce
<1>4. ASSUME NEW c \in Closers, Cleanup(c) PROVE CloseInv'
    BY <1>4, NobodyAssumption, DoneAssumption DEF Cleanup, EnterOnce
<1>5. ASSUME NEW c \in Closers, ShutByCloser(c) \/ CleanupReturns(c) PROVE CloseInv'
    BY <1>5, NobodyAssumption DEF ShutByCloser, CleanupReturns, LeaveOnce
<1>6. CASE ServerExits \/ UNCHANGED vars
    BY <1>6 DEF ServerExits, vars
<1> QED BY <1>1, <1>2, <1>3, <1>4, <1>5, <1>6 DEF Next, sendRequest, cleanup

-----------------------------------------------------------------------------
(* Outcomes                                                                 *)
LEMMA OutcomeStep == TypeOK /\ CloseInv /\ OutcomeInv /\ [Next]_vars => OutcomeInv'
<1> SUFFICES ASSUME TypeOK, CloseInv, OutcomeInv, [Next]_vars PROVE OutcomeInv'
    OBVIOUS
<1> USE DEF TypeOK, OutcomeInv, connVars, callVars, workVars, serverVars
<1>1. ASSUME NEW r \in Reqs, Call(r) \/ Register(r) \/ TakeGate(r) PROVE OutcomeInv'
    BY <1>1 DEF Call, Register, TakeGate, EndWith, GoTo
<1>2. ASSUME NEW r \in Reqs, GiveUpGate(r) PROVE OutcomeInv'
    BY <1>2 DEF GiveUpGate, EndWith
<1>3. ASSUME NEW r \in Reqs, Recheck(r) PROVE OutcomeInv'
    BY <1>3 DEF Recheck, EndWith, GoTo
<1>4. ASSUME NEW r \in Reqs, \E o \in {"ok", "error"} : ExchangeEnds(r, o) PROVE OutcomeInv'
    BY <1>4 DEF ExchangeEnds, EndWith
<1>5. ASSUME NEW r \in Reqs, ExchangeCancelled(r) \/ ExchangeClosed(r) PROVE OutcomeInv'
    BY <1>5 DEF ExchangeCancelled, ExchangeClosed, AfterCancel
<1>6. ASSUME NEW r \in Reqs, JoinWorker(r) \/ Leave(r) PROVE OutcomeInv'
    BY <1>6 DEF JoinWorker, Leave, GoTo
<1>7. ASSUME NEW r \in Reqs, Poison(r) PROVE OutcomeInv'
  <2>1. CASE EnterOnce(r) /\ GoTo(r, "shut")
      BY <1>7, <2>1 DEF Poison, EnterOnce, GoTo
  <2>2. CASE once = "done" /\ GoTo(r, "join") /\ UNCHANGED <<once, closing>>
    <3>1. closing
        BY <2>2, NobodyAssumption DEF CloseInv
    <3> QED BY <1>7, <2>2, <3>1 DEF Poison, GoTo
  <2> QED BY <1>7, <2>1, <2>2 DEF Poison
<1>8. ASSUME NEW r \in Reqs, ShutByRequest(r) PROVE OutcomeInv'
    BY <1>8 DEF ShutByRequest, GoTo
<1>9. ASSUME NEW r \in Reqs, work(r) \/ ServerAnswers(r) \/ CancelCaller(r) PROVE OutcomeInv'
    BY <1>9 DEF work, WorkerWrites, WorkerReads, ServerAnswers, CancelCaller
<1>10. ASSUME NEW c \in Closers, Cleanup(c) \/ cleanup(c) PROVE OutcomeInv'
    BY <1>10 DEF Cleanup, cleanup, ShutByCloser, CleanupReturns, EnterOnce
<1>11. CASE ServerExits \/ UNCHANGED vars
    BY <1>11 DEF ServerExits, vars
<1> QED
  BY <1>1, <1>2, <1>3, <1>4, <1>5, <1>6, <1>7, <1>8, <1>9, <1>10, <1>11 DEF Next, sendRequest

-----------------------------------------------------------------------------
\* The inductive invariant holds of every behaviour of the connection.
THEOREM Invariance == Spec => []IInv
<1>1. IInv /\ [Next]_vars => IInv'
    BY TypeStep, GateStep, WorkerStep, PipeStep, CloseStep, OutcomeStep DEF IInv
<1> QED BY <1>1, InitCorrect, PTL DEF Spec

\* One exchange at a time is under way, and each caller gets the response to
\* its own request (sendRequest, sendStdioRequest).
THEOREM MatchCorrect == Spec => []ResponsesMatched
<1>1. IInv => ResponsesMatched
  <2> SUFFICES ASSUME IInv PROVE ResponsesMatched
      OBVIOUS
  <2>1. OwnResponse
      BY DEF IInv, WorkerInv, LineInv, OwnResponse
  <2>2. OneExchange
      BY Exclusive DEF IInv, WorkerInv, OneExchange, WithGate
  <2> QED BY <2>1, <2>2 DEF IInv, ResponsesMatched
<1> QED BY <1>1, Invariance, PTL

\* When cleanup returns, nobody uses the connection or its pipes any more.
THEOREM CloseCorrect == Spec => []CloseJoins
<1>1. IInv => CloseJoins
  <2> SUFFICES ASSUME IInv, NEW c \in Closers, closerPc[c] = "returned"
      PROVE  /\ down
             /\ \A r \in Reqs : ~Working(r)
                    /\ reqPc[r] \in {"idle", "register", "leaving", "returned"}
      BY DEF CloseJoins
  <2>1. down /\ requests = {}
      BY DEF IInv, CloseInv
  <2>2. \A r \in Reqs : reqPc[r] \notin WithGate \cup {"gate"}
      BY <2>1 DEF IInv, GateInv
  <2>3. \A r \in Reqs : ~Working(r)
      BY <2>2 DEF IInv, WorkerInv, WithGate
  <2> QED BY <2>1, <2>2, <2>3 DEF IInv, TypeOK, ReqPcs, WithGate, InExchange
<1> QED BY <1>1, Invariance, PTL

-----------------------------------------------------------------------------
(***************************************************************************)
(* The contract.  What a step maps to depends on whether it begins or ends  *)
(* an exchange, gives a call its outcome, closes, or does nothing of this.  *)
(***************************************************************************)
SameExchanges == \A r \in Reqs : reqPc'[r] \in InExchange <=> reqPc[r] \in InExchange

LEMMA ExchangesKept ==
  ASSUME WorkerInv, WorkerInv', SameExchanges
  PROVE  UNCHANGED Exchanging
BY DEF WorkerInv, SameExchanges, Exchanging

\* The exchange of r is the only one.
LEMMA OneExchanging ==
  ASSUME GateInv, WorkerInv, NEW r \in Reqs, reqPc[r] \in WithGate
  PROVE  Exchanging = IF reqPc[r] \in InExchange THEN {r} ELSE {}
BY DEF GateInv, WorkerInv, WithGate, Exchanging

LEMMA NothingSeen ==
  ASSUME WorkerInv, WorkerInv', SameExchanges, UNCHANGED <<closing, outcome, Returned>>,
         \A r \in Reqs : outcome[r] = "ok" => line'[r] = line[r]
  PROVE  UNCHANGED Contract!vars
<1>1. UNCHANGED Answers
    BY DEF Answers
<1> QED BY <1>1, ExchangesKept DEF Contract!vars

LEMMA GivesUp ==
  ASSUME TypeOK, WorkerInv, WorkerInv', SameExchanges, UNCHANGED <<closing, line, closerPc>>,
         NEW r \in Reqs, outcome[r] = "none", NEW o,
         o = "cancelled" \/ (closing /\ o = "closed"), outcome' = [outcome EXCEPT ![r] = o]
  PROVE  Contract!GiveUp(r)
<1>1. Answers[r] = "none" /\ Answers' = [Answers EXCEPT ![r] = o]
    BY DEF Answers, TypeOK
<1>2. UNCHANGED <<Exchanging, Returned>>
    BY ExchangesKept DEF Returned
<1> QED BY <1>1, <1>2 DEF Contract!GiveUp

LEMMA Closes ==
  ASSUME WorkerInv, WorkerInv', SameExchanges, UNCHANGED <<outcome, line, Returned>>,
         ~closing, closing'
  PROVE  Contract!Close
<1>1. UNCHANGED Answers
    BY DEF Answers
<1> QED BY <1>1, ExchangesKept DEF Contract!Close

LEMMA ContractInit == Init => Contract!Init
  BY DEF Init, Contract!Init, Exchanging, InExchange, Working, Answers, Returned

\* An exchange that was the only one leaves none when it is over.
LEMMA ExchangeOver ==
  ASSUME TypeOK, GateInv, WorkerInv, WorkerInv', NEW r \in Reqs,
         reqPc[r] \in InExchange, reqPc' = [reqPc EXCEPT ![r] = "leaving"]
  PROVE  r \in Exchanging /\ Exchanging' = {}
<1>1. Exchanging = {r}
    BY OneExchanging DEF WithGate
<1>2. \A q \in Reqs : reqPc'[q] \notin InExchange
    BY <1>1 DEF TypeOK, Exchanging, InExchange
<1> QED BY <1>1, <1>2 DEF WorkerInv, Exchanging

\* Nobody is in an exchange when no request is counted.
LEMMA NoneCounted ==
  ASSUME GateInv, WorkerInv, requests = {} PROVE Exchanging = {}
BY DEF GateInv, WorkerInv, WithGate, Exchanging

\* Every step of the connection is one of the contract, or none.
LEMMA ContractNext ==
  ASSUME IInv, IInv', [Next]_vars PROVE Contract!Next \/ UNCHANGED Contract!vars
<1> DEFINE Goal == Contract!Next \/ UNCHANGED Contract!vars
<1>a. /\ TypeOK /\ GateInv /\ WorkerInv /\ LineInv /\ CloseInv /\ OutcomeInv
      /\ WorkerInv'
    BY DEF IInv
<1>b. closing <=> once # Nobody
    BY <1>a DEF CloseInv
<1>c. ASSUME SameExchanges, UNCHANGED <<closing, outcome, line, Returned>> PROVE Goal
    BY <1>a, <1>c, NothingSeen
<1>d. ASSUME NEW r \in Reqs, Contract!GiveUp(r) PROVE Goal
    BY <1>d DEF Contract!Next
<1> USE DEF connVars, callVars, workVars, serverVars
<1>1. ASSUME NEW r \in Reqs, Call(r) \/ Register(r) \/ GiveUpGate(r) PROVE Goal
  <2>1. /\ SameExchanges /\ outcome[r] = "none"
        /\ UNCHANGED <<closing, line, closerPc>>
      BY <1>1, <1>a DEF Call, Register, GiveUpGate, EndWith, GoTo, TypeOK, OutcomeInv,
                        SameExchanges, InExchange
  <2>2. \/ \E o \in {"cancelled", "closed"} :
             (o = "closed" => closing) /\ outcome' = [outcome EXCEPT ![r] = o]
        \/ UNCHANGED outcome
      BY <1>1 DEF Call, Register, GiveUpGate, EndWith, GoTo
  <2>3. CASE UNCHANGED outcome
      BY <2>1, <2>3, <1>c DEF Returned
  <2>4. ASSUME NEW o \in {"cancelled", "closed"}, o = "closed" => closing,
               outcome' = [outcome EXCEPT ![r] = o]
        PROVE  Goal
    <3>1. o = "cancelled" \/ (closing /\ o = "closed")
        BY <2>4
    <3> QED BY <1>a, <1>d, <2>1, <2>4, <3>1, GivesUp
  <2> QED BY <2>2, <2>3, <2>4
<1>2. ASSUME NEW r \in Reqs, TakeGate(r) \/ Leave(r) \/ ShutByRequest(r) PROVE Goal
  <2>1. SameExchanges /\ UNCHANGED <<closing, outcome, line, Returned>>
      BY <1>2, <1>a DEF TakeGate, Leave, ShutByRequest, GoTo, TypeOK, SameExchanges,
                        InExchange, Returned
  <2> QED BY <2>1, <1>c
<1>3. ASSUME NEW r \in Reqs, Recheck(r) PROVE Goal
  <2>1. /\ reqPc[r] = "recheck" /\ outcome[r] = "none" /\ Exchanging = {}
        /\ UNCHANGED <<closing, line, closerPc>>
    <3>1. reqPc[r] = "recheck" /\ UNCHANGED <<closing, line, closerPc>>
        BY <1>3 DEF Recheck
    <3>2. outcome[r] = "none"
        BY <1>a, <3>1 DEF OutcomeInv
    <3>3. reqPc[r] \in WithGate /\ reqPc[r] \notin InExchange
        BY <3>1 DEF WithGate, InExchange
    <3>4. Exchanging = {}
        BY <1>a, <3>3, OneExchanging
    <3> QED BY <3>1, <3>2, <3>4
  <2>2. CASE \E o \in {"cancelled", "closed"} :
               (o = "closed" => closing) /\ EndWith(r, o)
    <3>1. PICK o \in {"cancelled", "closed"} : (o = "closed" => closing) /\ EndWith(r, o)
        BY <2>2
    <3>2. SameExchanges
        BY <1>a, <2>1, <3>1 DEF EndWith, TypeOK, SameExchanges, InExchange
    <3>3. outcome' = [outcome EXCEPT ![r] = o] /\ (o = "cancelled" \/ (closing /\ o = "closed"))
        BY <3>1 DEF EndWith
    <3> QED BY <1>a, <1>d, <2>1, <3>2, <3>3, GivesUp
  <2>3. CASE ~closing /\ GoTo(r, "exchange")
    <3>1. reqPc' = [reqPc EXCEPT ![r] = "exchange"] /\ UNCHANGED outcome
        BY <2>3 DEF GoTo
    <3>2. Exchanging' = {r}
      <4>1. \A q \in Reqs : reqPc'[q] \in InExchange <=> q = r
          BY <1>a, <2>1, <3>1 DEF TypeOK, Exchanging, InExchange
      <4> QED BY <1>a, <4>1 DEF WorkerInv, Exchanging
    <3>3. UNCHANGED <<closing, Answers, Returned>> /\ Answers[r] = "none"
        BY <2>1, <3>1 DEF Answers, Returned
    <3>4. Contract!Begin(r)
        BY <2>1, <2>3, <3>2, <3>3 DEF Contract!Begin
    <3> QED BY <3>4 DEF Contract!Next
  <2> QED BY <1>3, <2>2, <2>3 DEF Recheck
<1>4. ASSUME NEW r \in Reqs, \E o \in {"ok", "error"} : ExchangeEnds(r, o) PROVE Goal
  <2>1. PICK o \in {"ok", "error"} : ExchangeEnds(r, o)
      BY <1>4
  <2>2. /\ reqPc[r] = "exchange" /\ (o = "ok" => worker[r] = "ok")
        /\ outcome' = [outcome EXCEPT ![r] = o]
        /\ reqPc' = [reqPc EXCEPT ![r] = "leaving"]
        /\ UNCHANGED <<closing, line, closerPc>>
      BY <2>1 DEF ExchangeEnds, EndWith
  <2>3. r \in Exchanging /\ Exchanging' = {}
      BY <1>a, <2>2, ExchangeOver DEF InExchange
  <2>4. outcome[r] = "none"
      BY <1>a, <2>2 DEF OutcomeInv
  <2>5. Answers[r] = "none" /\ \E a \in {r, "error"} : Answers' = [Answers EXCEPT ![r] = a]
    <3>1. o = "ok" => line[r] = r
        BY <1>a, <2>2 DEF LineInv
    <3>2. Answers' = [Answers EXCEPT ![r] = IF o = "ok" THEN line[r] ELSE o]
        BY <1>a, <2>2 DEF Answers, TypeOK
    <3> QED BY <2>4, <3>1, <3>2 DEF Answers
  <2>6. Contract!Answered(r)
      BY <2>2, <2>3, <2>5 DEF Contract!Answered, Returned
  <2> QED BY <2>6 DEF Contract!Next
<1>5. ASSUME NEW r \in Reqs, ExchangeCancelled(r) \/ ExchangeClosed(r) PROVE Goal
  <2>1. /\ SameExchanges /\ outcome[r] = "none"
        /\ UNCHANGED <<closing, line, closerPc>>
      BY <1>5, <1>a DEF ExchangeCancelled, ExchangeClosed, AfterCancel, TypeOK, OutcomeInv,
                        SameExchanges, InExchange
  <2>2. PICK o : /\ o = "cancelled" \/ (closing /\ o = "closed")
                 /\ outcome' = [outcome EXCEPT ![r] = o]
      BY <1>5 DEF ExchangeCancelled, ExchangeClosed
  <2> QED BY <1>a, <1>d, <2>1, <2>2, GivesUp
\* The call has its outcome: it gave up, and the connection is closing.
<1>6. ASSUME NEW r \in Reqs, JoinWorker(r) PROVE Goal
  <2>1. /\ reqPc[r] = "join" /\ reqPc' = [reqPc EXCEPT ![r] = "leaving"]
        /\ UNCHANGED <<closing, outcome, line, closerPc>>
      BY <1>6 DEF JoinWorker, GoTo
  <2>2. r \in Exchanging /\ Exchanging' = {}
      BY <1>a, <2>1, ExchangeOver DEF InExchange
  <2>3. closing /\ outcome[r] \in {"cancelled", "closed"}
      BY <1>a, <2>1 DEF OutcomeInv
  <2>4. Answers[r] # "none" /\ UNCHANGED <<Answers, Returned>>
      BY <2>1, <2>3 DEF Answers, Returned
  <2>5. Contract!Abandoned(r)
      BY <2>1, <2>2, <2>3, <2>4 DEF Contract!Abandoned
  <2> QED BY <2>5 DEF Contract!Next
<1>7. ASSUME NEW r \in Reqs, Poison(r) PROVE Goal
  <2>1. SameExchanges /\ UNCHANGED <<outcome, line, Returned>>
    <3>1. reqPc[r] = "poison" /\ UNCHANGED <<line, closerPc>>
        BY <1>7 DEF Poison
    <3>2. \E l \in {"shut", "join"} : reqPc' = [reqPc EXCEPT ![r] = l]
        BY <1>7 DEF Poison, GoTo
    <3>3. UNCHANGED outcome
        BY <1>7 DEF Poison, GoTo
    <3> QED BY <1>a, <3>1, <3>2, <3>3 DEF TypeOK, SameExchanges, InExchange, Returned
  <2>2. CASE EnterOnce(r)
    <3>1. ~closing /\ closing'
        BY <1>b, <2>2 DEF EnterOnce
    <3> QED BY <1>a, <2>1, <3>1, Closes DEF Contract!Next
  <2>3. CASE UNCHANGED closing
      BY <2>1, <2>3, <1>c
  <2> QED BY <1>7, <2>2, <2>3 DEF Poison
<1>8. ASSUME NEW r \in Reqs, work(r) \/ ServerAnswers(r) \/ CancelCaller(r) PROVE Goal
  <2>1. SameExchanges /\ UNCHANGED <<closing, outcome, Returned>>
      BY <1>8 DEF work, WorkerWrites, WorkerReads, ServerAnswers, CancelCaller,
                  SameExchanges, Returned
  <2>2. \A q \in Reqs : outcome[q] = "ok" => line'[q] = line[q]
    <3>1. CASE WorkerReads(r)
        BY <1>a, <3>1 DEF WorkerReads, WorkerInv, TypeOK
    <3>2. CASE WorkerWrites(r) \/ ServerAnswers(r) \/ CancelCaller(r)
        BY <3>2 DEF WorkerWrites, ServerAnswers, CancelCaller
    <3> QED BY <1>8, <3>1, <3>2 DEF work
  <2> QED BY <1>a, <2>1, <2>2, NothingSeen
<1>9. ASSUME NEW c \in Closers, Cleanup(c) PROVE Goal
  <2>1. SameExchanges /\ UNCHANGED <<outcome, line, Returned>>
      BY <1>9, <1>a DEF Cleanup, SameExchanges, TypeOK, Returned
  <2>2. CASE EnterOnce(c)
    <3>1. ~closing /\ closing'
        BY <1>b, <2>2 DEF EnterOnce
    <3> QED BY <1>a, <2>1, <3>1, Closes DEF Contract!Next
  <2>3. CASE UNCHANGED closing
      BY <2>1, <2>3, <1>c
  <2> QED BY <1>9, <2>2, <2>3 DEF Cleanup
<1>10. ASSUME NEW c \in Closers, ShutByCloser(c) PROVE Goal
  <2>1. SameExchanges /\ UNCHANGED <<closing, outcome, line, Returned>>
      BY <1>10, <1>a DEF ShutByCloser, SameExchanges, TypeOK, Returned
  <2> QED BY <2>1, <1>c
<1>11. ASSUME NEW c \in Closers, CleanupReturns(c) PROVE Goal
  <2>1. closing /\ Exchanging = {}
      BY <1>11, <1>a, NoneCounted, NobodyAssumption DEF CleanupReturns, CloseInv
  <2>2. Returned' = Returned \cup {c}
      BY <1>11, <1>a DEF CleanupReturns, TypeOK, Returned
  <2>3. SameExchanges /\ UNCHANGED <<closing, Answers>>
      BY <1>11 DEF CleanupReturns, SameExchanges, Answers
  <2>4. Contract!Return(c)
      BY <1>a, <2>1, <2>2, <2>3, ExchangesKept DEF Contract!Return
  <2> QED BY <2>4 DEF Contract!Next
<1>12. CASE ServerExits \/ UNCHANGED vars
  <2>1. SameExchanges /\ UNCHANGED <<closing, outcome, line, Returned>>
      BY <1>12 DEF ServerExits, vars, SameExchanges, Returned
  <2> QED BY <2>1, <1>c
<1>13. ASSUME NEW r \in Reqs,
              Call(r) \/ sendRequest(r) \/ work(r) \/ ServerAnswers(r) \/ CancelCaller(r)
       PROVE  Goal
    BY <1>1, <1>2, <1>3, <1>4, <1>5, <1>6, <1>7, <1>8, <1>13 DEF sendRequest
<1>14. ASSUME NEW c \in Closers, Cleanup(c) \/ cleanup(c) PROVE Goal
    BY <1>9, <1>10, <1>11, <1>14 DEF cleanup
<1>15. Next \/ UNCHANGED vars
    OBVIOUS
<1> QED BY <1>12, <1>13, <1>14, <1>15 DEF Next

\* The connection is the sequential one of the contract to its callers
\* (sendRequest, sendStdioRequest, closeTransport, cleanup).
THEOREM ContractCorrect == Spec => ImplementsConnection
<1>1. IInv /\ IInv' /\ [Next]_vars => [Contract!Next]_(Contract!vars)
    BY ContractNext
<1> QED
  BY <1>1, ContractInit, Invariance, PTL DEF Spec, ImplementsConnection, Contract!Spec

=============================================================================

--------------------------- MODULE McpConnection ---------------------------
(***************************************************************************)
(* One stdio Connection of mcp/client.go: concurrent callers of            *)
(* sendRequest take turns at the gate, each exchange has an I/O worker     *)
(* that writes the request and reads one line, cancellation of a running   *)
(* exchange poisons the connection, and cleanup closes it and joins.       *)
(*                                                                         *)
(* A request is named by its ID.  The server is external: it answers each  *)
(* request it has read with one line, in any order, or never, or exits.    *)
(***************************************************************************)
EXTENDS Sequences, FiniteSets

CONSTANTS
  Reqs,      \* calls of sendRequest
  Closers,   \* calls of conn.cleanup
  Nobody     \* no request, no closer

ASSUME NobodyAssumption == Nobody \notin Reqs \cup Closers \cup {"done"}
ASSUME DoneAssumption   == "done" \notin Reqs \cup Closers

VARIABLES
  \* Connection
  closing,    \* conn.closing, set together with closing conn.closed
  once,       \* conn.closeOnce: Nobody, who runs it, or "done"
  down,       \* both pipes are closed and the process is killed
  gate,       \* who holds conn.requestGate
  requests,   \* conn.requests: the requests it counts
  \* sendRequest
  reqPc, ctxDone, outcome,
  worker,     \* each exchange's I/O worker
  line,       \* the ID of the response it read
  \* cleanup
  closerPc,
  \* the server process and its pipes
  serverUp, received, stdout

connVars   == <<closing, once, down>>
callVars   == <<reqPc, ctxDone, outcome>>
workVars   == <<worker, line>>
serverVars == <<serverUp, received, stdout>>
vars == <<connVars, gate, requests, callVars, workVars, closerPc, serverVars>>

Init ==
  /\ closing = FALSE /\ once = Nobody /\ down = FALSE
  /\ gate = Nobody /\ requests = {}
  /\ reqPc = [r \in Reqs |-> "idle"]
  /\ ctxDone = [r \in Reqs |-> FALSE]
  /\ outcome = [r \in Reqs |-> "none"]
  /\ worker = [r \in Reqs |-> "none"]
  /\ line = [r \in Reqs |-> Nobody]
  /\ closerPc = [c \in Closers |-> "idle"]
  /\ serverUp = TRUE /\ received = {} /\ stdout = <<>>

-----------------------------------------------------------------------------
(***************************************************************************)
(* Faults: wrong versions of guards and effects below; no action uses one. *)
(***************************************************************************)
LeavesAtOnce       == "leaving"
WorkerAbandoned(r) == TRUE
NothingUnblocks    == FALSE

-----------------------------------------------------------------------------
(***************************************************************************)
(* sendRequest                                                             *)
(***************************************************************************)
EndWith(r, o) ==
  /\ outcome' = [outcome EXCEPT ![r] = o]
  /\ reqPc' = [reqPc EXCEPT ![r] = "leaving"]

GoTo(r, l) ==
  /\ reqPc' = [reqPc EXCEPT ![r] = l]
  /\ UNCHANGED outcome

Call(r) ==
  /\ reqPc[r] = "idle"
  /\ IF ctxDone[r] THEN EndWith(r, "cancelled") ELSE GoTo(r, "register")
  /\ UNCHANGED <<connVars, gate, requests, ctxDone, workVars, closerPc,
                 serverVars>>

\* Under conn.mu.
Counted(r) == requests \cup {r}

Register(r) ==
  /\ reqPc[r] = "register"
  /\ IF closing
     THEN EndWith(r, "closed") /\ UNCHANGED requests
     ELSE requests' = Counted(r) /\ GoTo(r, "gate")
  /\ UNCHANGED <<connVars, gate, ctxDone, workVars, closerPc, serverVars>>

\* The select at the gate: it is free, ...
GateFree == gate = Nobody

TakeGate(r) ==
  /\ reqPc[r] = "gate" /\ GateFree
  /\ gate' = r
  /\ GoTo(r, "recheck")
  /\ UNCHANGED <<connVars, requests, ctxDone, workVars, closerPc, serverVars>>

\* ... the context is done, or the connection closed.
GiveUpGate(r) ==
  /\ reqPc[r] = "gate"
  /\ \/ ctxDone[r] /\ EndWith(r, "cancelled")
     \/ closing /\ EndWith(r, "closed")
  /\ UNCHANGED <<connVars, gate, requests, ctxDone, workVars, closerPc,
                 serverVars>>

\* With the gate: a second look at both, then the exchange's worker starts.
Recheck(r) ==
  /\ reqPc[r] = "recheck"
  /\ \/ /\ ctxDone[r]
        /\ EndWith(r, "cancelled") /\ UNCHANGED worker
     \/ /\ ~ctxDone[r] /\ closing
        /\ EndWith(r, "closed") /\ UNCHANGED worker
     \/ /\ ~ctxDone[r] /\ ~closing
        /\ worker' = [worker EXCEPT ![r] = "write"]
        /\ GoTo(r, "exchange")
  /\ UNCHANGED <<connVars, gate, requests, ctxDone, line, closerPc, serverVars>>

\* The select of sendStdioRequest: the worker is done, ...
WorkerDone(r) == worker[r] \in {"ok", "err"}

\* (a result, or a JSON-RPC error or a line that does not parse)
ExchangeEnds(r, o) ==
  /\ reqPc[r] = "exchange" /\ WorkerDone(r)
  /\ o = "error" \/ (o = "ok" /\ worker[r] = "ok")
  /\ EndWith(r, o)
  /\ UNCHANGED <<connVars, gate, requests, ctxDone, workVars, closerPc,
                 serverVars>>

\* ... the context is done: close the transport, ...
AfterCancel == "poison"

ExchangeCancelled(r) ==
  /\ reqPc[r] = "exchange" /\ ctxDone[r]
  /\ outcome' = [outcome EXCEPT ![r] = "cancelled"]
  /\ reqPc' = [reqPc EXCEPT ![r] = AfterCancel]
  /\ UNCHANGED <<connVars, gate, requests, ctxDone, workVars, closerPc,
                 serverVars>>

\* ... or the connection is closed under it.
ExchangeClosed(r) ==
  /\ reqPc[r] = "exchange" /\ closing
  /\ outcome' = [outcome EXCEPT ![r] = "closed"]
  /\ reqPc' = [reqPc EXCEPT ![r] = "join"]
  /\ UNCHANGED <<connVars, gate, requests, ctxDone, workVars, closerPc,
                 serverVars>>

\* <-ch: the worker is joined before the gate is released.
WorkerJoined(r) == WorkerDone(r)

JoinWorker(r) ==
  /\ reqPc[r] = "join" /\ WorkerJoined(r)
  /\ GoTo(r, "leaving")
  /\ UNCHANGED <<connVars, gate, requests, ctxDone, workVars, closerPc,
                 serverVars>>

\* The deferred calls: the gate is free again, requests.Done.
DoneWith(r) == requests \ {r}

Leave(r) ==
  /\ reqPc[r] = "leaving"
  /\ gate' = IF gate = r THEN Nobody ELSE gate
  /\ requests' = DoneWith(r)
  /\ GoTo(r, "returned")
  /\ UNCHANGED <<connVars, ctxDone, workVars, closerPc, serverVars>>

-----------------------------------------------------------------------------
(***************************************************************************)
(* closeTransport, called by a cancelled exchange and by cleanup           *)
(***************************************************************************)
\* closeOnce: the first caller runs it, the others wait until it has.
EnterOnce(x) == once = Nobody /\ once' = x /\ closing' = TRUE
LeaveOnce(x) == once = x /\ once' = "done" /\ down' = TRUE

Poison(r) ==
  /\ reqPc[r] = "poison"
  /\ \/ EnterOnce(r) /\ GoTo(r, "shut")
     \/ once = "done" /\ GoTo(r, "join") /\ UNCHANGED <<once, closing>>
  /\ UNCHANGED <<down, gate, requests, ctxDone, workVars, closerPc, serverVars>>

\* The pipes are closed, the process is killed and waited for.
ShutByRequest(r) ==
  /\ reqPc[r] = "shut"
  /\ LeaveOnce(r)
  /\ GoTo(r, "join")
  /\ UNCHANGED <<closing, gate, requests, ctxDone, workVars, closerPc,
                 serverVars>>

Cleanup(c) ==
  /\ closerPc[c] \in {"idle", "once"}
  /\ \/ EnterOnce(c) /\ closerPc' = [closerPc EXCEPT ![c] = "shut"]
     \/ /\ once = "done"
        /\ closerPc' = [closerPc EXCEPT ![c] = "wait"]
        /\ UNCHANGED <<once, closing>>
     \/ /\ once \notin {Nobody, "done"} /\ closerPc[c] = "idle"
        /\ closerPc' = [closerPc EXCEPT ![c] = "once"]
        /\ UNCHANGED <<once, closing>>
  /\ UNCHANGED <<down, gate, requests, callVars, workVars, serverVars>>

ShutByCloser(c) ==
  /\ closerPc[c] = "shut"
  /\ LeaveOnce(c)
  /\ closerPc' = [closerPc EXCEPT ![c] = "wait"]
  /\ UNCHANGED <<closing, gate, requests, callVars, workVars, serverVars>>

\* requests.Wait
CleanupReturns(c) ==
  /\ closerPc[c] = "wait" /\ requests = {}
  /\ closerPc' = [closerPc EXCEPT ![c] = "returned"]
  /\ UNCHANGED <<connVars, gate, requests, callVars, workVars, serverVars>>

-----------------------------------------------------------------------------
(***************************************************************************)
(* The I/O worker                                                          *)
(***************************************************************************)
\* Closing the pipes unblocks a read or write.
Unblocked == down

\* The server gets the request unless a pipe is broken or closed.
WorkerWrites(r) ==
  /\ worker[r] = "write"
  /\ \/ /\ serverUp /\ ~Unblocked
        /\ received' = received \cup {r}
        /\ worker' = [worker EXCEPT ![r] = "read"]
     \/ /\ ~serverUp \/ Unblocked
        /\ worker' = [worker EXCEPT ![r] = "err"]
        /\ UNCHANGED received
  /\ UNCHANGED <<connVars, gate, requests, callVars, line, closerPc, serverUp,
                 stdout>>

\* It reads the next line, or the pipe ends or is closed.
WorkerReads(r) ==
  /\ worker[r] = "read"
  /\ \/ /\ stdout # <<>>
        /\ line' = [line EXCEPT ![r] = Head(stdout)]
        /\ stdout' = Tail(stdout)
        /\ worker' = [worker EXCEPT ![r] = "ok"]
     \/ /\ Unblocked \/ (~serverUp /\ stdout = <<>>)
        /\ worker' = [worker EXCEPT ![r] = "err"]
        /\ UNCHANGED <<line, stdout>>
  /\ UNCHANGED <<connVars, gate, requests, callVars, closerPc, serverUp,
                 received>>

-----------------------------------------------------------------------------
(***************************************************************************)
(* The server and the callers' contexts                                    *)
(***************************************************************************)
ServerAnswers(r) ==
  /\ serverUp /\ ~down /\ r \in received
  /\ received' = received \ {r}
  /\ stdout' = Append(stdout, r)
  /\ UNCHANGED <<connVars, gate, requests, callVars, workVars, closerPc,
                 serverUp>>

ServerExits ==
  /\ serverUp
  /\ serverUp' = FALSE
  /\ UNCHANGED <<connVars, gate, requests, callVars, workVars, closerPc,
                 received, stdout>>

CancelCaller(r) ==
  /\ ~ctxDone[r]
  /\ ctxDone' = [ctxDone EXCEPT ![r] = TRUE]
  /\ UNCHANGED <<connVars, gate, requests, reqPc, outcome, workVars, closerPc,
                 serverVars>>

-----------------------------------------------------------------------------
sendRequest(r) ==
  \/ Register(r) \/ TakeGate(r) \/ GiveUpGate(r) \/ Recheck(r)
  \/ \E o \in {"ok", "error"} : ExchangeEnds(r, o)
  \/ ExchangeCancelled(r) \/ ExchangeClosed(r) \/ JoinWorker(r) \/ Leave(r)
  \/ Poison(r) \/ ShutByRequest(r)

work(r) == WorkerWrites(r) \/ WorkerReads(r)

cleanup(c) == ShutByCloser(c) \/ CleanupReturns(c)

Next ==
  \/ \E r \in Reqs : Call(r) \/ sendRequest(r) \/ work(r) \/ ServerAnswers(r)
                     \/ CancelCaller(r)
  \/ \E c \in Closers : Cleanup(c) \/ cleanup(c)
  \/ ServerExits

Spec == Init /\ [][Next]_vars

\* Goroutines are scheduled; the gate is taken by some waiter, not by each.
\* The server owes nothing, callers need not call or cancel.
FairSpec ==
  /\ Spec
  /\ \A r \in Reqs : WF_vars(sendRequest(r)) /\ WF_vars(work(r))
  /\ \A c \in Closers : WF_vars(closerPc[c] = "once" /\ Cleanup(c))
                        /\ WF_vars(cleanup(c))

-----------------------------------------------------------------------------
(***************************************************************************)
(* Properties                                                              *)
(***************************************************************************)
ReqPcs == {"idle", "register", "gate", "recheck", "exchange", "poison", "shut",
           "join", "leaving", "returned"}

\* Every variable has its type, and whoever holds the gate is counted.
TypeOK ==
  /\ closing \in BOOLEAN /\ down \in BOOLEAN /\ serverUp \in BOOLEAN
  /\ once \in Reqs \cup Closers \cup {Nobody, "done"}
  /\ gate \in requests \cup {Nobody}
  /\ requests \subseteq Reqs /\ received \subseteq Reqs
  /\ reqPc \in [Reqs -> ReqPcs]
  /\ ctxDone \in [Reqs -> BOOLEAN]
  /\ outcome \in [Reqs -> {"none", "ok", "error", "cancelled", "closed"}]
  /\ worker \in [Reqs -> {"none", "write", "read", "ok", "err"}]
  /\ line \in [Reqs -> Reqs \cup {Nobody}]
  /\ closerPc \in [Closers -> {"idle", "once", "shut", "wait", "returned"}]
  /\ stdout \in Seq(Reqs)

Working(r) == worker[r] \in {"write", "read"}

\* Nobody is given the response to somebody else's request, although nothing
\* compares their IDs: not after a cancelled exchange left one in the pipe.
OwnResponse == \A r \in Reqs : outcome[r] = "ok" => line[r] = r

\* No two workers use the pipes at the same time.
OneExchange == \A q, r \in Reqs : Working(q) /\ Working(r) => q = r

\* One exchange at a time, each caller with the response to its own request.
ResponsesMatched == TypeOK /\ OwnResponse /\ OneExchange

\* When cleanup returns, no request is under way, no worker is left and the
\* server is gone.
CloseJoins ==
  \A c \in Closers : closerPc[c] = "returned" =>
    /\ down
    /\ \A r \in Reqs : ~Working(r)
                       /\ reqPc[r] \in {"idle", "register", "leaving", "returned"}

InExchange == {"exchange", "poison", "shut", "join"}

Exchanging == {r \in Reqs : reqPc[r] \in InExchange \/ Working(r)}

\* What callers have been given: for "ok" the response that was read.
Answers  == [r \in Reqs |-> IF outcome[r] = "ok" THEN line[r] ELSE outcome[r]]
Returned == {c \in Closers : closerPc[c] = "returned"}

Contract == INSTANCE ConnectionContract
              WITH open <- ~closing, exchange <- Exchanging, answer <- Answers,
                   returned <- Returned

\* Gate, workers, poison and cleanup (sendRequest, sendStdioRequest,
\* closeTransport) give callers the sequential connection of the contract:
\* after an exchange that was left without its answer no other one begins.
ImplementsConnection == Contract!Spec

\* A request whose caller cancels returns, also when the server never answers.
CancelReturns ==
  \A r \in Reqs : reqPc[r] # "idle" /\ ctxDone[r] ~> reqPc[r] = "returned"

\* So does cleanup, whoever is in an exchange or closing at the same time.
CloseReturns ==
  \A c \in Closers : closerPc[c] # "idle" ~> closerPc[c] = "returned"

\* No caller of the connection stays in it for ever: neither who cancels a call
\* nor who closes.
CallersReturn == CancelReturns /\ CloseReturns
=============================================================================

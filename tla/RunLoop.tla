------------------------------ MODULE RunLoop ------------------------------
(***************************************************************************)
(* runLoop (agent/loop.go) of one Run and of the child agents its Agent    *)
(* tool calls start (spawnSubagent): admission against the one ledger they *)
(* share, provider attempts, usage accounting and the message history.     *)
(*                                                                         *)
(* A message is its kind, a response's usage is its cost.  Children have   *)
(* no hooks in their loop and no fallback model; the loops of children of  *)
(* children are left out.                                                  *)
(***************************************************************************)
EXTENDS Integers, Sequences, FiniteSets, Functions

CONSTANTS
  Parent,        \* the Run's own loop
  Children,      \* loops of child agents it may start, each once
  MaxTurns,      \* Options.MaxTurns (children: 30 in the code)
  Limit,         \* the budget, in units of cost
  Costs,         \* what one response may cost
  HasFallback    \* Options.FallbackModel is set and another model

Loops == {Parent} \cup Children

VARIABLES
  pc,        \* where each loop is
  turn,      \* its turns so far
  messages,  \* its Session's history
  tools,     \* its response asked for tools
  usage,     \* cost of its response, 0 once charged or dropped
  outcome,   \* what it returned: an error kind, "success", "none" before
  started,   \* children its tool calls have started
  cost,      \* the ledgers; every loop uses the Parent's
  ctxDone,   \* the Run's context is cancelled, with it the children's
  billed,    \* history: cost of each loop's completed responses
  charged    \* history: what it has added to a ledger

loopVars == <<pc, turn, messages, tools, usage, outcome>>
histVars == <<billed, charged>>
vars     == <<loopVars, started, cost, ctxDone, histVars>>

Init ==
  /\ pc = [l \in Loops |-> IF l = Parent THEN "begin" ELSE "idle"]
  /\ turn = [l \in Loops |-> 0]
  /\ messages = [l \in Loops |-> <<>>]
  /\ tools = [l \in Loops |-> FALSE]
  /\ usage = [l \in Loops |-> 0]
  /\ outcome = [l \in Loops |-> "none"]
  /\ started = {}
  /\ cost = [l \in Loops |-> 0]
  /\ ctxDone = FALSE
  /\ billed = [l \in Loops |-> 0]
  /\ charged = [l \in Loops |-> 0]

-----------------------------------------------------------------------------
(***************************************************************************)
(* Faults: wrong versions of guards and effects below; no action uses one. *)
(***************************************************************************)
OwnLedger(l)     == l
WithoutResults(l) == messages[l]
OverWhenPassed(l) == cost[Parent] > Limit
WaitsForAll      == \A k \in Children : pc[k] = "returned"

-----------------------------------------------------------------------------
(***************************************************************************)
(* Helpers                                                                 *)
(***************************************************************************)
\* newRun: a child takes the ledger of the Run in its context.
LedgerOf(l) == Parent

GoTo(l, p)        == pc' = [pc EXCEPT ![l] = p] /\ UNCHANGED outcome
ReturnWith(l, o)  == /\ pc' = [pc EXCEPT ![l] = "returned"]
                     /\ outcome' = [outcome EXCEPT ![l] = o]
AppendMessage(l, m) == messages' = [messages EXCEPT ![l] = Append(@, m)]

\* checkAdmission: the context first, then the ledger against the budget.
OverBudget(l) == cost[LedgerOf(l)] >= Limit

Refused(l) ==
  \/ ctxDone /\ ReturnWith(l, "cancelled")
  \/ ~ctxDone /\ OverBudget(l) /\ ReturnWith(l, "budget")
Admitted(l) == ~ctxDone /\ ~OverBudget(l)

-----------------------------------------------------------------------------
(***************************************************************************)
(* One loop                                                                *)
(***************************************************************************)
\* The UserPromptSubmit hook lets the prompt in, or blocks it or fails; for a
\* child it is its SubagentStart hook or its Init that may fail.
Begin(l) ==
  /\ pc[l] = "begin"
  /\ \/ /\ ctxDone
        /\ ReturnWith(l, "cancelled") /\ UNCHANGED messages
     \/ /\ ~ctxDone
        /\ ReturnWith(l, "error") /\ UNCHANGED messages
     \/ /\ ~ctxDone
        /\ AppendMessage(l, "user")
        /\ GoTo(l, "top")
  /\ UNCHANGED <<turn, tools, usage, started, cost, ctxDone, histVars>>

OutOfTurns(l) == turn[l] >= MaxTurns

TurnsEnd(l) ==
  /\ pc[l] = "top" /\ OutOfTurns(l)
  /\ ReturnWith(l, "max_turns")
  /\ UNCHANGED <<turn, messages, tools, usage, started, cost, ctxDone, histVars>>

Admission(l) ==
  /\ pc[l] = "top" /\ ~OutOfTurns(l)
  /\ \/ Refused(l) /\ UNCHANGED turn
     \/ /\ Admitted(l)
        /\ turn' = [turn EXCEPT ![l] = @ + 1]
        /\ GoTo(l, "stream")
  /\ UNCHANGED <<messages, tools, usage, started, cost, ctxDone, histVars>>

\* readStream, of the Run's model or of the fallback, accumulates a response.
StreamEnds(l, c, t) ==
  /\ pc[l] \in {"stream", "fallback"}
  /\ c \in Costs
  /\ usage' = [usage EXCEPT ![l] = c]
  /\ tools' = [tools EXCEPT ![l] = t]
  /\ billed' = [billed EXCEPT ![l] = @ + c]
  /\ GoTo(l, IF l = Parent THEN "postSampling" ELSE "account")
  /\ UNCHANGED <<turn, messages, started, cost, ctxDone, charged>>

\* It fails: once more with the fallback model, unless the context is done.
StreamFails(l) ==
  /\ pc[l] \in {"stream", "fallback"}
  /\ \/ ctxDone /\ ReturnWith(l, "cancelled")
     \/ /\ ~ctxDone /\ pc[l] = "stream" /\ l = Parent /\ HasFallback
        /\ GoTo(l, "fallback")
     \/ /\ ~ctxDone /\ (pc[l] = "fallback" \/ l # Parent \/ ~HasFallback)
        /\ ReturnWith(l, "error")
  /\ UNCHANGED <<turn, messages, tools, usage, started, cost, ctxDone, histVars>>

\* The PostSampling hook comes before the accounting; its error ends the Run.
PostSampling(l) ==
  /\ pc[l] = "postSampling"
  /\ \/ GoTo(l, "account") /\ UNCHANGED usage
     \/ ReturnWith(l, "error") /\ usage' = [usage EXCEPT ![l] = 0]
  /\ UNCHANGED <<turn, messages, tools, started, cost, ctxDone, histVars>>

\* ledger.Add, then the response joins the history.
Charge(l) == usage[l]

Account(l) ==
  /\ pc[l] = "account"
  /\ cost' = [cost EXCEPT ![LedgerOf(l)] = @ + Charge(l)]
  /\ charged' = [charged EXCEPT ![l] = @ + Charge(l)]
  /\ usage' = [usage EXCEPT ![l] = 0]
  /\ AppendMessage(l, IF tools[l] THEN "tool_use" ELSE "assistant")
  /\ GoTo(l, "emit")
  /\ UNCHANGED <<turn, tools, started, ctxDone, billed>>

\* emit: cancelled, or the answer is complete, or there are tools to run.
Emit(l) ==
  /\ pc[l] = "emit"
  /\ \/ ctxDone /\ ReturnWith(l, "cancelled")
     \/ ~ctxDone /\ ~tools[l] /\ ReturnWith(l, "success")
     \/ ~ctxDone /\ tools[l] /\ GoTo(l, "beforeTools")
  /\ UNCHANGED <<turn, messages, tools, usage, started, cost, ctxDone, histVars>>

\* A second admission check; then RunTools, which may start children: Agent
\* calls are declared safe reads and run in parallel.
BeginTools(l, K) ==
  /\ pc[l] = "beforeTools"
  /\ K \subseteq Children \ started /\ (l # Parent => K = {})
  /\ \/ /\ Refused(l) /\ K = {}
        /\ UNCHANGED started
     \/ /\ Admitted(l)
        /\ pc' = [k \in Loops |-> IF k = l THEN "tools"
                                  ELSE IF k \in K THEN "begin" ELSE pc[k]]
        /\ started' = started \cup K
        /\ UNCHANGED outcome
  /\ UNCHANGED <<turn, messages, tools, usage, cost, ctxDone, histVars>>

\* RunTools has a result for every call, a failed child's error included.
ChildrenReturned == \A k \in started : pc[k] = "returned"
WithResults(l)   == Append(messages[l], "results")

EndTools(l) ==
  /\ pc[l] = "tools" /\ (l = Parent => ChildrenReturned)
  /\ messages' = [messages EXCEPT ![l] = WithResults(l)]
  /\ GoTo(l, "emitResults")
  /\ UNCHANGED <<turn, tools, usage, started, cost, ctxDone, histVars>>

EmitResults(l) ==
  /\ pc[l] = "emitResults"
  /\ \/ ctxDone /\ ReturnWith(l, "cancelled")
     \/ ~ctxDone /\ GoTo(l, "top")
  /\ UNCHANGED <<turn, messages, tools, usage, started, cost, ctxDone, histVars>>

Cancel ==
  /\ ~ctxDone
  /\ ctxDone' = TRUE
  /\ UNCHANGED <<loopVars, started, cost, histVars>>

-----------------------------------------------------------------------------
runLoop(l) ==
  \/ Begin(l) \/ TurnsEnd(l) \/ Admission(l)
  \/ \E c \in Costs, t \in BOOLEAN : StreamEnds(l, c, t)
  \/ StreamFails(l) \/ PostSampling(l) \/ Account(l) \/ Emit(l)
  \/ \E K \in SUBSET Children : BeginTools(l, K)
  \/ EndTools(l) \/ EmitResults(l)

Next == Cancel \/ \E l \in Loops : runLoop(l)

\* Nothing makes a provider, a hook or a tool return before the Run is
\* cancelled; each of them is passed its context and returns once it is done.
Fairness == \A l \in Loops : WF_vars(ctxDone /\ runLoop(l))

Spec == Init /\ [][Next]_vars /\ Fairness

-----------------------------------------------------------------------------
(***************************************************************************)
(* Properties                                                              *)
(***************************************************************************)
Pcs == {"idle", "begin", "top", "stream", "fallback", "postSampling", "account",
        "emit", "beforeTools", "tools", "emitResults", "returned"}
Kinds    == {"user", "assistant", "tool_use", "results"}
Outcomes == {"none", "success", "cancelled", "budget", "max_turns", "error"}

\* Every variable has its type; no loop takes more turns than it may.
TypeOK ==
  /\ pc \in [Loops -> Pcs]
  /\ turn \in [Loops -> 0 .. MaxTurns]
  /\ messages \in [Loops -> Seq(Kinds)]
  /\ tools \in [Loops -> BOOLEAN]
  /\ usage \in [Loops -> Nat] /\ cost \in [Loops -> Nat]
  /\ outcome \in [Loops -> Outcomes]
  /\ started \subseteq Children
  /\ ctxDone \in BOOLEAN
  /\ billed \in [Loops -> Nat] /\ charged \in [Loops -> Nat]

\* In a history every response that asks for tools is followed by their
\* results; only a cancelled Run, or one the budget stopped, leaves its last
\* one open.  The provider refuses a history with an open one inside.
ResultsFollow ==
  \A l \in Loops :
    LET h == messages[l]
        open == {k \in DOMAIN h : h[k] = "tool_use"
                                  /\ ~(k < Len(h) /\ h[k + 1] = "results")}
    IN  /\ open \subseteq {Len(h)}
        /\ outcome[l] \in {"success", "max_turns", "error"} => open = {}

\* What child agents and the Run spend together passes the budget by at most
\* one response for each loop that can be in flight at once.
MostCostly == CHOOSE c \in Costs : \A d \in Costs : d <= c
InParallel == IF Children = {} THEN 1 ELSE Cardinality(Children)
OvershootBounded ==
  SumFunction(billed) <= Limit - 1 + InParallel * MostCostly

\* "The shared Run ledger was already charged at model completion"
\* (spawnSubagent): when the Run's tools are done, its ledger holds every
\* response of every child, whatever that child's end was.
ChildrenPaid ==
  pc[Parent] = "emitResults" =>
    \A k \in started : charged[k] = billed[k] /\ outcome[k] # "none"

\* And it holds nothing else.
ChildrenCharged == ChildrenPaid /\ cost[Parent] = SumFunction(charged)

\* A cancelled Run ends, wherever it was and whatever its children were doing;
\* that it joins them cannot keep it from ending.
CancelEndsRun == ctxDone ~> pc[Parent] = "returned"

\* "The terminal record includes ... total usage" (docs/runtime-concurrency.md):
\* of all responses the provider completed for the Run.
TotalUsageReported ==
  pc[Parent] = "returned" => cost[Parent] = SumFunction(billed)
=============================================================================

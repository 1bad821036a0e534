---------------------------- MODULE ToolExecutor ----------------------------
(***************************************************************************)
(* tools.Executor.RunTools: one batch of tool calls, in request order.     *)
(* Contiguous calls the registry declares safe reads run in parallel, at   *)
(* most MaxConcurrency at a time; any other call runs alone.  Each call    *)
(* passes the permission policy, the PreToolUse hook, a recheck of input a *)
(* hook changed, the tool itself and a post hook (runSingle).              *)
(*                                                                         *)
(* An input is abstracted to its effect on the tool that gets it: "read"   *)
(* (read-only and concurrency-safe) or "write".  A call the registry does  *)
(* not know is "unknown".                                                  *)
(***************************************************************************)
EXTENDS Integers, FiniteSets

CONSTANTS
  N,               \* number of calls in the batch
  MaxConcurrency   \* capacity of the semaphore of a parallel range

ASSUME BatchAssumption    == N \in Nat
ASSUME CapacityAssumption == MaxConcurrency \in Nat \ {0}

VARIABLES
  batch,      \* the calls: what each one's input is to its tool
  ctxDone,    \* the context of the batch is cancelled
  pc,         \* the goroutine of RunTools
  start, end, \* the current range is start .. end - 1
  next,       \* index i of runParallelRange's loop
  slots,      \* tokens in its semaphore
  callPc,     \* where each call's runSingle is
  input,      \* the input it goes on with
  approved,   \* history: the input the policy allowed last, "none" if none
  result,     \* its response, "none" before
  posts       \* history: post hooks run for it

batchVars == <<pc, start, end, next>>
callVars  == <<callPc, input, approved, result, posts>>
vars      == <<batch, ctxDone, slots, batchVars, callVars>>

Calls   == 1 .. N
Effects == {"read", "write"}
Kinds   == Effects \cup {"unknown"}
Results == {"ok", "failed", "denied", "cancelled"}

\* isParallelRead looks at the input the model asked for.
IsParallelRead(i) == batch[i] = "read"

Init ==
  /\ batch \in [Calls -> Kinds]
  /\ ctxDone \in BOOLEAN
  /\ pc = "classify" /\ start = 1 /\ end = 1 /\ next = 1 /\ slots = 0
  /\ callPc = [i \in Calls |-> "idle"]
  /\ input = batch
  /\ approved = [i \in Calls |-> "none"]
  /\ result = [i \in Calls |-> "none"]
  /\ posts = [i \in Calls |-> 0]

-----------------------------------------------------------------------------
(***************************************************************************)
(* Faults: wrong versions of guards and effects below; no action uses one. *)
(***************************************************************************)
RangeFromStart        == start .. end - 1
AllUpToEnd(i, j)      == j = N + 1
NobodyToJoin          == TRUE
SlotKept              == slots
RunsUnchecked(i)      == "ready"

-----------------------------------------------------------------------------
(***************************************************************************)
(* RunTools and runParallelRange                                           *)
(***************************************************************************)
\* From i on, position j is the first that is not a parallel read.
EndsRange(i, j) ==
  /\ j \in Calls => ~IsParallelRead(j)
  /\ \A k \in i + 1 .. j - 1 : IsParallelRead(k)

Return ==
  /\ pc = "classify" /\ start > N
  /\ pc' = "returned"
  /\ UNCHANGED <<batch, ctxDone, slots, start, end, next, callVars>>

StartSerial ==
  /\ pc = "classify" /\ start <= N /\ ~IsParallelRead(start)
  /\ callPc' = [callPc EXCEPT ![start] = "start"]
  /\ pc' = "serial"
  /\ UNCHANGED <<batch, ctxDone, slots, start, end, next, input, approved,
                 result, posts>>

EndSerial ==
  /\ pc = "serial" /\ callPc[start] = "answered"
  /\ start' = start + 1
  /\ pc' = "classify"
  /\ UNCHANGED <<batch, ctxDone, slots, end, next, callVars>>

StartRange ==
  /\ pc = "classify" /\ start <= N /\ IsParallelRead(start)
  /\ \E j \in start + 1 .. N + 1 : EndsRange(start, j) /\ end' = j
  /\ next' = start
  /\ pc' = "fork"
  /\ UNCHANGED <<batch, ctxDone, slots, start, callVars>>

\* fillCancellationResults, for the calls that were not forked.
Unforked == next .. end - 1

FillCancelled ==
  /\ result' = [i \in Calls |-> IF i \in Unforked THEN "cancelled" ELSE result[i]]
  /\ pc' = "join"

\* The loop's first look at the context, and its end.
ForkChecks ==
  /\ pc = "fork"
  /\ IF next < end /\ ctxDone
     THEN FillCancelled
     ELSE pc' = (IF next < end THEN "acquire" ELSE "join") /\ UNCHANGED result
  /\ UNCHANGED <<batch, ctxDone, slots, start, end, next, callPc, input,
                 approved, posts>>

\* Its select: a token of the semaphore, ...
SlotTaken == slots + 1

AcquireSlot ==
  /\ pc = "acquire" /\ slots < MaxConcurrency
  /\ slots' = SlotTaken
  /\ pc' = "spawn"
  /\ UNCHANGED <<batch, ctxDone, start, end, next, callVars>>

\* ... or the context is done.
AcquireCancelled ==
  /\ pc = "acquire" /\ ctxDone
  /\ FillCancelled
  /\ UNCHANGED <<batch, ctxDone, slots, start, end, next, callPc, input,
                 approved, posts>>

\* A second look at the context, then the goroutine.
Spawn ==
  /\ pc = "spawn"
  /\ IF ctxDone
     THEN /\ slots' = slots - 1
          /\ FillCancelled
          /\ UNCHANGED <<next, callPc>>
     ELSE /\ callPc' = [callPc EXCEPT ![next] = "start"]
          /\ next' = next + 1
          /\ pc' = "fork"
          /\ UNCHANGED <<slots, result>>
  /\ UNCHANGED <<batch, ctxDone, start, end, input, approved, posts>>

\* wg.Wait
ForkedExited == \A i \in start .. next - 1 : callPc[i] = "exited"

Join ==
  /\ pc = "join" /\ ForkedExited
  /\ start' = end
  /\ pc' = "classify"
  /\ UNCHANGED <<batch, ctxDone, slots, end, next, callVars>>

\* The deferred calls of a goroutine: its token goes back and wg is told.
SlotReturned == slots - 1

ExitGoroutine(i) ==
  /\ callPc[i] = "answered" /\ IsParallelRead(i)
  /\ callPc' = [callPc EXCEPT ![i] = "exited"]
  /\ slots' = SlotReturned
  /\ UNCHANGED <<batch, ctxDone, batchVars, input, approved, result, posts>>

Cancel ==
  /\ ~ctxDone
  /\ ctxDone' = TRUE
  /\ UNCHANGED <<batch, slots, batchVars, callVars>>

-----------------------------------------------------------------------------
(***************************************************************************)
(* runSingle                                                               *)
(***************************************************************************)
AnswerWith(i, r) ==
  /\ result' = [result EXCEPT ![i] = r]
  /\ callPc' = [callPc EXCEPT ![i] = "answered"]

GoTo(i, l) ==
  /\ callPc' = [callPc EXCEPT ![i] = l]
  /\ UNCHANGED result

\* A goroutine's own look at the context and runSingle's are one here.
Enter(i) ==
  /\ callPc[i] = "start"
  /\ \/ ctxDone /\ AnswerWith(i, "cancelled")
     \/ ~ctxDone /\ batch[i] = "unknown" /\ AnswerWith(i, "failed")
     \/ ~ctxDone /\ batch[i] # "unknown" /\ GoTo(i, "permission")
  /\ UNCHANGED <<batch, ctxDone, slots, batchVars, input, approved, posts>>

\* canUseTool allows the call, perhaps with another input, ...
Allow(i, e) ==
  /\ callPc[i] = "permission"
  /\ input' = [input EXCEPT ![i] = e]
  /\ approved' = [approved EXCEPT ![i] = e]
  /\ GoTo(i, "preHook")
  /\ UNCHANGED <<batch, ctxDone, slots, batchVars, posts>>

\* ... denies it, or fails.
Refuse(i, r) ==
  /\ callPc[i] = "permission"
  /\ r \in {"denied", "failed"}
  /\ AnswerWith(i, r)
  /\ UNCHANGED <<batch, ctxDone, slots, batchVars, input, approved, posts>>

\* The PreToolUse hook lets the call go on as it is, ...
PrePasses(i) ==
  /\ callPc[i] = "preHook"
  /\ GoTo(i, "ready")
  /\ UNCHANGED <<batch, ctxDone, slots, batchVars, input, approved, posts>>

\* ... changes its input, which has to be rechecked, ...
AfterChange(i) == "recheck"

PreChanges(i, e) ==
  /\ callPc[i] = "preHook"
  /\ input' = [input EXCEPT ![i] = e]
  /\ GoTo(i, AfterChange(i))
  /\ UNCHANGED <<batch, ctxDone, slots, batchVars, approved, posts>>

\* ... or blocks it or fails.
PreBlocks(i) ==
  /\ callPc[i] = "preHook"
  /\ GoTo(i, "failedPre")
  /\ UNCHANGED <<batch, ctxDone, slots, batchVars, input, approved, posts>>

\* recheckTool allows the changed input, perhaps another one, or does not.
RecheckAllows(i, e) ==
  /\ callPc[i] = "recheck"
  /\ input' = [input EXCEPT ![i] = e]
  /\ approved' = [approved EXCEPT ![i] = e]
  /\ GoTo(i, "ready")
  /\ UNCHANGED <<batch, ctxDone, slots, batchVars, posts>>

RecheckRefuses(i) ==
  /\ callPc[i] = "recheck"
  /\ GoTo(i, "failedPre")
  /\ UNCHANGED <<batch, ctxDone, slots, batchVars, input, approved, posts>>

\* postPreToolFailure: the failure hook runs, whatever it says the call failed.
PreFailureHook(i) ==
  /\ callPc[i] = "failedPre"
  /\ posts' = [posts EXCEPT ![i] = @ + 1]
  /\ AnswerWith(i, "failed")
  /\ UNCHANGED <<batch, ctxDone, slots, batchVars, input, approved>>

\* The last look at the context before Tool.Call.
CallBegins(i) ==
  /\ callPc[i] = "ready"
  /\ IF ctxDone THEN AnswerWith(i, "cancelled") ELSE GoTo(i, "calling")
  /\ UNCHANGED <<batch, ctxDone, slots, batchVars, input, approved, posts>>

\* Tool.Call returns a result, or an error (or none, or an error result).
AfterCall(i, e) == IF e THEN "postFailure" ELSE "postUse"

CallReturns(i, e) ==
  /\ callPc[i] = "calling"
  /\ IF AfterCall(i, e) = "answered" THEN AnswerWith(i, "failed")
                                     ELSE GoTo(i, AfterCall(i, e))
  /\ UNCHANGED <<batch, ctxDone, slots, batchVars, input, approved, posts>>

\* PostToolUse or PostToolUseFailure; blocking or failing makes the call fail.
PostHook(i, r) ==
  /\ \/ callPc[i] = "postUse" /\ r \in {"ok", "failed"}
     \/ callPc[i] = "postFailure" /\ r = "failed"
  /\ posts' = [posts EXCEPT ![i] = @ + 1]
  /\ AnswerWith(i, r)
  /\ UNCHANGED <<batch, ctxDone, slots, batchVars, input, approved>>

-----------------------------------------------------------------------------
RunTools ==
  \/ Return \/ StartSerial \/ EndSerial \/ StartRange
  \/ ForkChecks \/ AcquireSlot \/ AcquireCancelled \/ Spawn \/ Join

runSingle(i) ==
  \/ Enter(i)
  \/ \E e \in Effects : Allow(i, e) \/ PreChanges(i, e) \/ RecheckAllows(i, e)
  \/ \E r \in Results : Refuse(i, r) \/ PostHook(i, r)
  \/ PrePasses(i) \/ PreBlocks(i) \/ RecheckRefuses(i) \/ PreFailureHook(i)
  \/ CallBegins(i)
  \/ \E e \in BOOLEAN : CallReturns(i, e)
  \/ ExitGoroutine(i)

Next ==
  \/ Cancel
  \/ RunTools
  \/ \E i \in Calls : runSingle(i)

Spec == Init /\ [][Next]_vars

\* Goroutines are scheduled, and policies, hooks and tools return: nothing in
\* the executor bounds the time they take.
FairSpec ==
  /\ Spec
  /\ WF_vars(RunTools)
  /\ \A i \in Calls : WF_vars(runSingle(i))

-----------------------------------------------------------------------------
(***************************************************************************)
(* Properties                                                              *)
(***************************************************************************)
CallPcs == {"idle", "start", "permission", "preHook", "recheck", "failedPre",
            "ready", "calling", "postUse", "postFailure", "answered", "exited"}

\* Every variable has its type; no more tokens are out than the semaphore has.
TypeOK ==
  /\ batch \in [Calls -> Kinds]
  /\ ctxDone \in BOOLEAN
  /\ pc \in {"classify", "serial", "fork", "acquire", "spawn", "join", "returned"}
  /\ start \in 1 .. N + 1 /\ end \in 1 .. N + 1 /\ next \in 1 .. N + 1
  /\ slots \in 0 .. MaxConcurrency
  /\ callPc \in [Calls -> CallPcs]
  /\ input \in [Calls -> Kinds]
  /\ approved \in [Calls -> Effects \cup {"none"}]
  /\ result \in [Calls -> Results \cup {"none"}]
  /\ posts \in [Calls -> Nat]

InFlight(i) == callPc[i] \notin {"idle", "answered", "exited"}

\* No more than MaxConcurrency calls are in flight.
ConcurrencyBound == Cardinality({i \in Calls : InFlight(i)}) <= MaxConcurrency

\* Two calls are in flight together only if they and all between them were
\* declared parallel reads: everything else is a barrier, in request order.
BarriersHold ==
  \A i, j \in Calls : i < j /\ callPc[j] # "idle" /\ result[i] = "none" =>
    \A k \in i .. j : IsParallelRead(k)

\* What runs together may, and is no more than the semaphore lets in.
OverlapAllowed == TypeOK /\ ConcurrencyBound /\ BarriersHold

\* RunTools leaves nothing behind: a later range starts, or it returns, only
\* when every earlier call has its response and no goroutine is left to write.
BatchJoins ==
  pc \in {"classify", "returned"} =>
    \A i \in 1 .. start - 1 : result[i] # "none" /\ ~InFlight(i)

\* Cancelling the rest of a range does not overwrite a response, and no
\* goroutine overwrites a cancellation: each response is written once.
ResponsesStable ==
  [][\A i \in Calls : result[i] # "none" => result'[i] = result[i]]_vars

\* A tool only gets an input the permission policy has allowed, although a
\* hook may have changed it since.
OnlyApprovedInputs ==
  \A i \in Calls : callPc[i] = "calling" => input[i] = approved[i]

\* A tool that was called is followed by exactly one post hook before its
\* response is final, and no call has two.
OnePostHook ==
  \A i \in Calls :
    /\ posts[i] <= 1
    /\ result[i] = "ok" => posts[i] = 1
    /\ callPc[i] \in {"answered", "exited"} /\ result[i] = "failed"
         /\ approved[i] # "none" => posts[i] = 1

\* When RunTools goes on or returns, the calls before have ended altogether:
\* response, goroutine and post hook.
BatchComplete == BatchJoins /\ OnePostHook

\* RunTools returns, cancelled or not.
BatchReturns == <>(pc = "returned")

\* "A mutation, unknown tool, or tool without both guarantees is a serial
\* barrier" (docs/runtime-concurrency.md): no tool executes beside a mutation.
MutationAlone ==
  \A i, j \in Calls :
    i # j /\ callPc[i] = "calling" /\ input[i] = "write" => ~InFlight(j)
=============================================================================

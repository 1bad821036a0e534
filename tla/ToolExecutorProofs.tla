------------------------- MODULE ToolExecutorProofs -------------------------
(***************************************************************************)
(* Proofs about ToolExecutor, for batches and semaphores of any size.      *)
(*                                                                         *)
(* PlaceInv says how far the batch has come: calls before Frontier are     *)
(* done or at work, those after it untouched.  SlotInv counts the tokens   *)
(* of the semaphore, CallInv what the place of one call implies.           *)
(***************************************************************************)
EXTENDS ToolExecutor, FiniteSetTheorems, TLAPS

ForkPcs  == {"fork", "acquire", "spawn"}
RangePcs == ForkPcs \cup {"join"}

TypeInv ==
  /\ batch \in [Calls -> Kinds]
  /\ ctxDone \in BOOLEAN
  /\ pc \in {"classify", "serial", "returned"} \cup RangePcs
  /\ start \in 1 .. N + 1 /\ end \in 1 .. N + 1 /\ next \in 1 .. N + 1
  /\ callPc \in [Calls -> CallPcs]
  /\ input \in [Calls -> Kinds]
  /\ approved \in [Calls -> Effects \cup {"none"}]
  /\ result \in [Calls -> Results \cup {"none"}]
  /\ posts \in [Calls -> Nat]

\* What the place of a call implies.
CallInv ==
  \A i \in Calls :
    /\ InFlight(i) => result[i] = "none" /\ posts[i] = 0
    /\ callPc[i] = "idle" => result[i] \in {"none", "cancelled"} /\ posts[i] = 0
    /\ callPc[i] \in {"answered", "exited"} => result[i] # "none"
    /\ callPc[i] \in {"idle", "start", "permission"} => approved[i] = "none"
    /\ callPc[i] \in {"preHook", "ready", "calling"} => input[i] = approved[i]

\* Where the goroutine of RunTools is.
LoopInv ==
  /\ pc \in {"serial"} \cup RangePcs => start \in Calls
  /\ pc = "returned" => start = N + 1
  /\ pc = "serial" => ~IsParallelRead(start)
  /\ pc \in RangePcs => /\ start <= next /\ next <= end
                        /\ \A k \in start .. end - 1 : IsParallelRead(k)
  /\ pc \in {"acquire", "spawn"} => next < end

\* The first call RunTools has not touched.
Frontier == IF pc = "serial" THEN start + 1
            ELSE IF pc \in ForkPcs THEN next
            ELSE IF pc = "join" THEN end
            ELSE start

Done(i)      == /\ result[i] # "none"
                /\ callPc[i] \in IF IsParallelRead(i) THEN {"idle", "exited"} ELSE {"answered"}
Untouched(i) == callPc[i] = "idle" /\ result[i] = "none"
Skipped(i)   == callPc[i] = "idle" /\ result[i] = "cancelled"

PlaceInv ==
  \A i \in Calls :
    /\ i < start => Done(i)
    /\ i >= Frontier => Untouched(i)
    /\ pc = "serial" /\ i = start => callPc[i] \notin {"idle", "exited"}
    /\ pc \in RangePcs /\ start <= i /\ i < next => callPc[i] # "idle"
    /\ pc = "join" /\ next <= i /\ i < end => Skipped(i)

\* A token is out for every goroutine, and for the one about to start.
Holders == {i \in Calls : IsParallelRead(i) /\ callPc[i] \notin {"idle", "exited"}}

SlotInv ==
  /\ slots = Cardinality(Holders) + (IF pc = "spawn" THEN 1 ELSE 0)
  /\ slots <= MaxConcurrency

IInv == TypeInv /\ CallInv /\ LoopInv /\ PlaceInv /\ SlotInv /\ OnePostHook

-----------------------------------------------------------------------------
LEMMA HoldersFinite == IsFiniteSet(Holders) /\ Cardinality(Holders) \in Nat
<1>1. IsFiniteSet(1 .. N)
    BY FS_Interval, BatchAssumption
<1>2. Holders \in SUBSET (1 .. N)
    BY DEF Holders, Calls
<1> QED BY <1>1, <1>2, FS_Subset, FS_CardinalityType

LEMMA InitCorrect == Init => IInv
<1> SUFFICES ASSUME Init PROVE IInv
    OBVIOUS
<1>1. TypeInv
    BY BatchAssumption DEF Init, TypeInv, Kinds, CallPcs, RangePcs, ForkPcs
<1>2. CallInv /\ OnePostHook
    BY DEF Init, CallInv, OnePostHook, InFlight
<1>3. LoopInv /\ PlaceInv
    BY BatchAssumption DEF Init, LoopInv, PlaceInv, Frontier, Done, Untouched, Skipped, RangePcs, ForkPcs, Calls
<1>4. SlotInv
  <2>1. Holders = {}
      BY DEF Init, Holders
  <2> QED BY <2>1, FS_EmptySet, CapacityAssumption DEF Init, SlotInv
<1> QED BY <1>1, <1>2, <1>3, <1>4 DEF IInv

-----------------------------------------------------------------------------
(* Steps of one call                                                        *)

\* The steps of runSingle(i): they change that call only, and the response is
\* there when it has answered.
SingleFrame(i) ==
  /\ UNCHANGED <<batch, ctxDone, slots, batchVars>>
  /\ callPc[i] \notin {"idle", "answered", "exited"}
  /\ callPc'[i] \notin {"idle", "exited"}
  /\ \A j \in Calls \ {i} : /\ callPc'[j] = callPc[j] /\ input'[j] = input[j]
                            /\ approved'[j] = approved[j] /\ result'[j] = result[j]
                            /\ posts'[j] = posts[j]

\* What a call keeps in each of its steps.
Kept(i) ==
  /\ InFlight(i) => result[i] = "none" /\ posts[i] = 0
  /\ callPc[i] = "idle" => result[i] \in {"none", "cancelled"} /\ posts[i] = 0
  /\ callPc[i] \in {"answered", "exited"} => result[i] # "none"
  /\ callPc[i] \in {"idle", "start", "permission"} => approved[i] = "none"
  /\ callPc[i] \in {"preHook", "ready", "calling"} => input[i] = approved[i]
  /\ posts[i] <= 1
  /\ result[i] = "ok" => posts[i] = 1
  /\ callPc[i] \in {"answered", "exited"} /\ result[i] = "failed"
       /\ approved[i] # "none" => posts[i] = 1

LEMMA KeptCalls == CallInv /\ OnePostHook <=> \A i \in Calls : Kept(i)
BY DEF CallInv, OnePostHook, Kept

\* The steps of a call that answer it.
Answered(i) == \/ Enter(i) \/ PreFailureHook(i) \/ CallBegins(i)
               \/ \E r \in Results : Refuse(i, r) \/ PostHook(i, r)
               \/ \E e \in BOOLEAN : CallReturns(i, e)
\* The others.
Goes(i) == \/ \E e \in Effects : Allow(i, e) \/ PreChanges(i, e) \/ RecheckAllows(i, e)
           \/ PrePasses(i) \/ PreBlocks(i) \/ RecheckRefuses(i)

LEMMA SingleStep ==
  ASSUME TypeInv, NEW i \in Calls, Kept(i), Answered(i) \/ Goes(i)
  PROVE  TypeInv' /\ SingleFrame(i) /\ Kept(i)'
<1> USE DEF TypeInv, SingleFrame, Kept, AnswerWith, GoTo, CallPcs, Results, Effects, Kinds, InFlight,
            batchVars
<1>1. CASE Enter(i)
    BY <1>1 DEF Enter
<1>2. CASE PreFailureHook(i)
    BY <1>2 DEF PreFailureHook
<1>3. CASE CallBegins(i)
    BY <1>3 DEF CallBegins
<1>4. ASSUME NEW r \in Results, Refuse(i, r) PROVE TypeInv' /\ SingleFrame(i) /\ Kept(i)'
    BY <1>4 DEF Refuse
<1>5. ASSUME NEW r \in Results, PostHook(i, r) PROVE TypeInv' /\ SingleFrame(i) /\ Kept(i)'
    BY <1>5 DEF PostHook
<1>6. ASSUME NEW e \in BOOLEAN, CallReturns(i, e) PROVE TypeInv' /\ SingleFrame(i) /\ Kept(i)'
    BY <1>6 DEF CallReturns, AfterCall
<1>7. ASSUME NEW e \in Effects, Allow(i, e) PROVE TypeInv' /\ SingleFrame(i) /\ Kept(i)'
    BY <1>7 DEF Allow
<1>8. ASSUME NEW e \in Effects, PreChanges(i, e) PROVE TypeInv' /\ SingleFrame(i) /\ Kept(i)'
    BY <1>8 DEF PreChanges, AfterChange
<1>9. ASSUME NEW e \in Effects, RecheckAllows(i, e) PROVE TypeInv' /\ SingleFrame(i) /\ Kept(i)'
    BY <1>9 DEF RecheckAllows
<1>10. CASE PrePasses(i) \/ PreBlocks(i) \/ RecheckRefuses(i)
    BY <1>10 DEF PrePasses, PreBlocks, RecheckRefuses
<1> QED BY <1>1, <1>2, <1>3, <1>4, <1>5, <1>6, <1>7, <1>8, <1>9, <1>10 DEF Answered, Goes

LEMMA SingleCorrect ==
  ASSUME IInv, NEW i \in Calls, Answered(i) \/ Goes(i)
  PROVE  IInv'
<1>1. TypeInv' /\ SingleFrame(i) /\ Kept(i)'
    BY SingleStep, KeptCalls DEF IInv
<1>2. CallInv' /\ OnePostHook'
  <2>1. \A j \in Calls \ {i} : Kept(j)'
      BY <1>1, KeptCalls DEF IInv, SingleFrame, Kept, InFlight
  <2> QED BY <1>1, <2>1 DEF CallInv, OnePostHook, Kept
<1>3. LoopInv'
    BY <1>1 DEF IInv, LoopInv, SingleFrame, batchVars, IsParallelRead
<1>4. PlaceInv'
  <2>1. UNCHANGED <<batch, pc, start, end, next>> /\ Frontier' = Frontier
      BY <1>1 DEF SingleFrame, batchVars, Frontier
  <2>2. i >= start /\ i < Frontier
      BY <1>1 DEF IInv, TypeInv, PlaceInv, SingleFrame, Done, Untouched, Calls, Frontier, RangePcs, ForkPcs
  <2>3. ~(pc = "join" /\ next <= i /\ i < end)
      BY <1>1 DEF IInv, PlaceInv, SingleFrame, Skipped
  <2>4. ASSUME NEW j \in Calls \ {i}
        PROVE  /\ Done(j)' <=> Done(j)
               /\ Untouched(j)' <=> Untouched(j)
               /\ Skipped(j)' <=> Skipped(j)
               /\ callPc'[j] = callPc[j]
      BY <1>1, <2>1 DEF SingleFrame, Done, Untouched, Skipped, IsParallelRead
  <2>5. callPc'[i] \notin {"idle", "exited"}
      BY <1>1 DEF SingleFrame
  <2>6. i \in Int /\ start \in Int /\ Frontier \in Int
      BY DEF IInv, TypeInv, Calls, Frontier
  <2> QED BY <2>1, <2>2, <2>3, <2>4, <2>5, <2>6 DEF IInv, PlaceInv
<1>5. SlotInv'
  <2>1. Holders' = Holders
      BY <1>1 DEF SingleFrame, Holders, IsParallelRead
  <2> QED BY <1>1, <2>1 DEF IInv, SlotInv, SingleFrame, batchVars
<1> QED BY <1>1, <1>2, <1>3, <1>4, <1>5 DEF IInv

\* A goroutine that ends is one of the range, since others never have one.
LEMMA ExitCorrect ==
  ASSUME IInv, NEW i \in Calls, ExitGoroutine(i)
  PROVE  IInv'
<1>1. /\ UNCHANGED <<batch, ctxDone, batchVars, input, approved, result, posts>>
      /\ callPc[i] = "answered" /\ IsParallelRead(i) /\ slots' = slots - 1
      /\ callPc'[i] = "exited" /\ \A j \in Calls \ {i} : callPc'[j] = callPc[j]
    BY DEF IInv, TypeInv, ExitGoroutine, SlotReturned
<1>2. TypeInv'
    BY <1>1 DEF IInv, TypeInv, ExitGoroutine, CallPcs, batchVars
<1>3. CallInv' /\ OnePostHook'
    BY <1>1 DEF IInv, CallInv, OnePostHook, InFlight
<1>4. LoopInv'
    BY <1>1 DEF IInv, LoopInv, batchVars, IsParallelRead
<1>5. PlaceInv'
  <2>1. UNCHANGED <<batch, pc, start, end, next>> /\ Frontier' = Frontier
      BY <1>1 DEF batchVars, Frontier
  <2>2. i >= start /\ i < Frontier
      BY <1>1 DEF IInv, TypeInv, PlaceInv, Done, Untouched, Calls, Frontier, RangePcs, ForkPcs
  <2>3. /\ ~(pc = "join" /\ next <= i /\ i < end)
        /\ ~(pc = "serial" /\ i = start)
      BY <1>1 DEF IInv, PlaceInv, LoopInv, Skipped
  <2>4. ASSUME NEW j \in Calls \ {i}
        PROVE  /\ Done(j)' <=> Done(j)
               /\ Untouched(j)' <=> Untouched(j)
               /\ Skipped(j)' <=> Skipped(j)
               /\ callPc'[j] = callPc[j]
      BY <1>1, <2>1 DEF Done, Untouched, Skipped, IsParallelRead
  <2>5. i \in Int /\ start \in Int /\ Frontier \in Int
      BY DEF IInv, TypeInv, Calls, Frontier
  <2> QED BY <1>1, <2>1, <2>2, <2>3, <2>4, <2>5 DEF IInv, PlaceInv
<1>6. SlotInv'
  <2>1. i \in Holders /\ Holders' = Holders \ {i}
      BY <1>1 DEF Holders, IsParallelRead
  <2>2. Cardinality(Holders') = Cardinality(Holders) - 1
      BY <2>1, HoldersFinite, FS_RemoveElement
  <2> QED BY <1>1, <2>2, HoldersFinite, CapacityAssumption DEF IInv, SlotInv, batchVars
<1> QED BY <1>2, <1>3, <1>4, <1>5, <1>6 DEF IInv

-----------------------------------------------------------------------------
(* Steps of RunTools                                                        *)

\* A step that leaves the calls alone, but for the loop's own places.
LEMMA CallsFrame ==
  ASSUME IInv, UNCHANGED <<batch, callVars>>
  PROVE  /\ CallInv' /\ OnePostHook' /\ Holders' = Holders
         /\ \A i \in Calls : /\ Done(i)' <=> Done(i)
                             /\ Untouched(i)' <=> Untouched(i)
                             /\ Skipped(i)' <=> Skipped(i)
BY DEF IInv, CallInv, OnePostHook, InFlight, Holders, Done, Untouched, Skipped, IsParallelRead,
       callVars

LEMMA ReturnCorrect ==
  ASSUME IInv, Return \/ Cancel
  PROVE  IInv'
<1>1. UNCHANGED <<batch, slots, start, end, next, callVars>>
    BY DEF Return, Cancel, batchVars
<1>2. TypeInv' /\ LoopInv'
  <2>1. CASE Return
      BY <1>1, <2>1, BatchAssumption DEF IInv, TypeInv, LoopInv, Return, callVars, RangePcs, ForkPcs
  <2>2. CASE Cancel
      BY <1>1, <2>2 DEF IInv, TypeInv, LoopInv, Cancel, callVars, batchVars, IsParallelRead
  <2> QED BY <2>1, <2>2
<1>3. Frontier' = Frontier /\ (pc' = pc \/ {pc, pc'} \subseteq {"classify", "returned"})
    BY <1>1 DEF Return, Cancel, batchVars, Frontier, ForkPcs
<1>4. PlaceInv'
    BY <1>1, <1>3, CallsFrame DEF IInv, PlaceInv, callVars, RangePcs, ForkPcs
<1>5. SlotInv'
    BY <1>1, <1>3, CallsFrame DEF IInv, SlotInv
<1> QED BY <1>1, <1>2, <1>4, <1>5, CallsFrame DEF IInv

LEMMA StartSerialCorrect ==
  ASSUME IInv, StartSerial
  PROVE  IInv'
<1>1. /\ UNCHANGED <<batch, ctxDone, slots, start, end, next, input, approved, result, posts>>
      /\ pc = "classify" /\ pc' = "serial" /\ start \in Calls /\ ~IsParallelRead(start)
      /\ Untouched(start)
      /\ callPc'[start] = "start" /\ \A j \in Calls \ {start} : callPc'[j] = callPc[j]
    BY DEF IInv, TypeInv, StartSerial, PlaceInv, Frontier, Calls, ForkPcs
<1>2. TypeInv' /\ LoopInv'
    BY <1>1 DEF IInv, TypeInv, LoopInv, StartSerial, CallPcs, RangePcs, ForkPcs, IsParallelRead
<1>3. CallInv' /\ OnePostHook'
    BY <1>1 DEF IInv, CallInv, OnePostHook, InFlight, Untouched
<1>4. PlaceInv'
    BY <1>1 DEF IInv, TypeInv, PlaceInv, Frontier, Done, Untouched, Calls, RangePcs, ForkPcs, IsParallelRead
<1>5. SlotInv'
  <2>1. Holders' = Holders
      BY <1>1 DEF Holders, IsParallelRead
  <2> QED BY <1>1, <2>1 DEF IInv, SlotInv
<1> QED BY <1>2, <1>3, <1>4, <1>5 DEF IInv

LEMMA EndSerialCorrect ==
  ASSUME IInv, EndSerial
  PROVE  IInv'
<1>1. /\ UNCHANGED <<batch, slots, end, next, callVars>>
      /\ pc = "serial" /\ pc' = "classify" /\ start' = start + 1 /\ start \in Calls
      /\ Done(start)
    BY DEF IInv, EndSerial, LoopInv, CallInv, Done
<1>2. TypeInv' /\ LoopInv'
    BY <1>1, BatchAssumption DEF IInv, TypeInv, LoopInv, EndSerial, Calls, callVars, RangePcs, ForkPcs
<1>3. PlaceInv'
    BY <1>1, CallsFrame DEF IInv, TypeInv, PlaceInv, Frontier, Calls, RangePcs, ForkPcs
<1>4. SlotInv'
    BY <1>1, CallsFrame DEF IInv, SlotInv
<1> QED BY <1>1, <1>2, <1>3, <1>4, CallsFrame DEF IInv

LEMMA FirstOfInterval ==
  ASSUME NEW a \in Int, NEW b \in Int, NEW k \in a .. b - 1
  PROVE  k = a \/ k \in a + 1 .. b - 1
OBVIOUS

LEMMA StartRangeCorrect ==
  ASSUME IInv, StartRange
  PROVE  IInv'
<1>1. /\ UNCHANGED <<batch, slots, start, callVars>>
      /\ pc = "classify" /\ pc' = "fork" /\ start \in Calls /\ IsParallelRead(start)
      /\ next' = start /\ end' \in start + 1 .. N + 1 /\ EndsRange(start, end')
  <2>1. start \in Calls
      BY BatchAssumption DEF IInv, TypeInv, StartRange, Calls
  <2> QED BY <2>1 DEF StartRange
<1>2. \A k \in start .. end' - 1 : IsParallelRead(k)
  <2>1. start \in Int /\ end' \in Int
      BY <1>1, BatchAssumption DEF Calls
  <2>2. \A k \in start + 1 .. end' - 1 : IsParallelRead(k)
      BY <1>1 DEF EndsRange
  <2>3. ASSUME NEW k \in start .. end' - 1 PROVE IsParallelRead(k)
    <3>1. k = start \/ k \in start + 1 .. end' - 1
        BY <2>1, <2>3, FirstOfInterval
    <3> QED BY <1>1, <2>2, <3>1 DEF IsParallelRead
  <2> QED BY <2>3
<1>3. TypeInv' /\ LoopInv'
    BY <1>1, <1>2, BatchAssumption
    DEF IInv, TypeInv, LoopInv, StartRange, Calls, callVars, RangePcs, ForkPcs, IsParallelRead
<1>4. PlaceInv'
    BY <1>1, CallsFrame DEF IInv, TypeInv, PlaceInv, Frontier, Calls, RangePcs, ForkPcs
<1>5. SlotInv'
    BY <1>1, CallsFrame DEF IInv, SlotInv
<1> QED BY <1>1, <1>3, <1>4, <1>5, CallsFrame DEF IInv

\* The rest of the range is answered without being started.
LEMMA FillCorrect ==
  ASSUME IInv, pc \in ForkPcs, next < end, FillCancelled,
         pc = "spawn" => slots' = slots - 1, pc # "spawn" => slots' = slots,
         UNCHANGED <<batch, ctxDone, start, end, next, callPc, input, approved, posts>>
  PROVE  IInv'
<1>1. \A i \in Calls : IF i \in Unforked THEN Untouched(i) /\ Skipped(i)'
                                         ELSE result'[i] = result[i]
    BY DEF IInv, TypeInv, PlaceInv, Frontier, FillCancelled, Unforked, Untouched, Skipped, ForkPcs, Calls
<1>2. TypeInv'
    BY DEF IInv, TypeInv, FillCancelled, Results, RangePcs
<1>3. LoopInv'
    BY DEF IInv, LoopInv, FillCancelled, RangePcs, IsParallelRead, ForkPcs
<1>4. CallInv' /\ OnePostHook'
    BY <1>1 DEF IInv, CallInv, OnePostHook, InFlight, Untouched, Skipped
<1>5. PlaceInv'
  <2>1. pc' = "join" /\ pc \in ForkPcs
      BY DEF FillCancelled
  <2>2. start <= next /\ start \in Int /\ next \in Int /\ end \in Int
      BY DEF IInv, TypeInv, LoopInv, RangePcs
  <2>3. ASSUME NEW i \in Calls, i < start PROVE Done(i)'
      BY <1>1, <2>2, <2>3 DEF IInv, PlaceInv, Done, Unforked, IsParallelRead, Calls
  <2>4. ASSUME NEW i \in Calls, i >= end PROVE Untouched(i)'
      BY <1>1, <2>1, <2>2, <2>4 DEF IInv, PlaceInv, Frontier, Untouched, Unforked, ForkPcs, Calls
  <2>5. ASSUME NEW i \in Calls, next <= i, i < end PROVE Skipped(i)'
      BY <1>1, <2>2, <2>5 DEF Unforked, Calls
  <2>6. ASSUME NEW i \in Calls, start <= i, i < next PROVE callPc'[i] # "idle"
      BY <2>1, <2>6 DEF IInv, PlaceInv, RangePcs
  <2> QED BY <2>1, <2>3, <2>4, <2>5, <2>6 DEF PlaceInv, Frontier, ForkPcs
<1>6. SlotInv'
  <2>1. Holders' = Holders
      BY DEF Holders, IsParallelRead
  <2> QED BY <2>1, HoldersFinite, CapacityAssumption DEF IInv, SlotInv, FillCancelled
<1> QED BY <1>2, <1>3, <1>4, <1>5, <1>6 DEF IInv

\* The steps of the fork loop that leave the calls and their tokens alone.
LEMMA LoopFrame ==
  ASSUME IInv, UNCHANGED <<batch, ctxDone, start, end, next, callVars>>,
         pc \in ForkPcs, pc' \in RangePcs, Frontier' = Frontier,
         pc' \in {"acquire", "spawn"} => next < end,
         pc' = "join" => next = end
  PROVE  TypeInv' /\ CallInv' /\ LoopInv' /\ PlaceInv' /\ OnePostHook'
<1>1. TypeInv'
    BY DEF IInv, TypeInv, callVars
<1>2. LoopInv'
    BY DEF IInv, TypeInv, LoopInv, RangePcs, ForkPcs, IsParallelRead
<1>3. PlaceInv'
    BY CallsFrame DEF IInv, TypeInv, PlaceInv, RangePcs, ForkPcs, Calls, callVars
<1> QED BY <1>1, <1>2, <1>3, CallsFrame

LEMMA ForkChecksCorrect ==
  ASSUME IInv, ForkChecks
  PROVE  IInv'
<1>1. CASE next < end /\ ctxDone
    BY <1>1, FillCorrect DEF ForkChecks, ForkPcs
<1>2. CASE ~(next < end /\ ctxDone)
  <2>1. /\ UNCHANGED <<batch, ctxDone, slots, start, end, next, callVars>>
        /\ pc = "fork" /\ pc' = IF next < end THEN "acquire" ELSE "join"
      BY <1>2 DEF ForkChecks, callVars
  <2>2. ~(next < end) => next = end
      BY <2>1 DEF IInv, TypeInv, LoopInv, RangePcs, ForkPcs
  <2>3. Frontier' = Frontier
      BY <2>1, <2>2 DEF Frontier, ForkPcs
  <2>4. TypeInv' /\ CallInv' /\ LoopInv' /\ PlaceInv' /\ OnePostHook'
      BY <2>1, <2>2, <2>3, LoopFrame DEF RangePcs, ForkPcs
  <2>5. SlotInv'
      BY <2>1, CallsFrame DEF IInv, SlotInv
  <2> QED BY <2>4, <2>5 DEF IInv
<1> QED BY <1>1, <1>2

LEMMA AcquireCorrect ==
  ASSUME IInv, AcquireSlot \/ AcquireCancelled
  PROVE  IInv'
<1>1. CASE AcquireCancelled
  <2>1. next < end
      BY <1>1 DEF IInv, LoopInv, AcquireCancelled
  <2> QED BY <1>1, <2>1, FillCorrect DEF AcquireCancelled, ForkPcs
<1>2. CASE AcquireSlot
  <2>1. /\ UNCHANGED <<batch, ctxDone, start, end, next, callVars>>
        /\ pc = "acquire" /\ pc' = "spawn" /\ slots < MaxConcurrency /\ slots' = slots + 1
        /\ next < end
      BY <1>2 DEF IInv, LoopInv, AcquireSlot, SlotTaken
  <2>2. Frontier' = Frontier
      BY <2>1 DEF Frontier, ForkPcs
  <2>3. TypeInv' /\ CallInv' /\ LoopInv' /\ PlaceInv' /\ OnePostHook'
      BY <2>1, <2>2, LoopFrame DEF RangePcs, ForkPcs
  <2>4. SlotInv'
      BY <2>1, CallsFrame, HoldersFinite, CapacityAssumption DEF IInv, SlotInv
  <2> QED BY <2>3, <2>4 DEF IInv
<1> QED BY <1>1, <1>2

LEMMA SpawnCorrect ==
  ASSUME IInv, Spawn
  PROVE  IInv'
<1>1. next < end /\ pc = "spawn"
    BY DEF IInv, LoopInv, Spawn
<1>2. CASE ctxDone
    BY <1>1, <1>2, FillCorrect DEF Spawn, ForkPcs
<1>3. CASE ~ctxDone
  <2>1. /\ start <= next /\ next \in Calls /\ IsParallelRead(next) /\ Untouched(next)
        /\ start \in Int /\ end \in Int /\ end <= N + 1
      BY <1>1, BatchAssumption
      DEF IInv, TypeInv, LoopInv, PlaceInv, Frontier, RangePcs, ForkPcs, Calls
  <2>2. /\ UNCHANGED <<batch, ctxDone, slots, start, end, input, approved, result, posts>>
        /\ pc' = "fork" /\ next' = next + 1
        /\ callPc'[next] = "start" /\ \A j \in Calls \ {next} : callPc'[j] = callPc[j]
      BY <1>3, <2>1 DEF IInv, TypeInv, Spawn
  <2>3. TypeInv'
      BY <1>1, <1>3, <2>1, <2>2, BatchAssumption DEF IInv, TypeInv, Spawn, CallPcs, RangePcs, ForkPcs, Calls
  <2>4. LoopInv'
      BY <1>1, <2>1, <2>2 DEF IInv, LoopInv, RangePcs, ForkPcs, IsParallelRead, Calls
  <2>5. CallInv' /\ OnePostHook'
      BY <2>1, <2>2 DEF IInv, CallInv, OnePostHook, InFlight, Untouched
  <2>6. PlaceInv'
      BY <1>1, <2>1, <2>2
      DEF IInv, PlaceInv, Frontier, Done, Untouched, RangePcs, ForkPcs, IsParallelRead, Calls
  <2>7. SlotInv'
    <3>1. next \notin Holders /\ Holders' = Holders \cup {next}
        BY <2>1, <2>2 DEF Holders, Untouched, IsParallelRead
    <3>2. Cardinality(Holders') = Cardinality(Holders) + 1
        BY <3>1, HoldersFinite, FS_AddElement
    <3> QED BY <1>1, <2>2, <3>2, HoldersFinite DEF IInv, SlotInv
  <2> QED BY <2>3, <2>4, <2>5, <2>6, <2>7 DEF IInv
<1> QED BY <1>2, <1>3

\* When every goroutine of the range has ended, each of its calls is done.
LEMMA JoinCorrect ==
  ASSUME IInv, Join
  PROVE  IInv'
<1>1. /\ UNCHANGED <<batch, ctxDone, slots, end, next, callVars>>
      /\ pc = "join" /\ pc' = "classify" /\ start' = end
    BY DEF Join
<1>2. TypeInv' /\ LoopInv'
    BY <1>1 DEF IInv, TypeInv, LoopInv, callVars, RangePcs, ForkPcs
<1>3. PlaceInv'
  <2>1. \A k \in start .. end - 1 : IsParallelRead(k)
      BY <1>1 DEF IInv, LoopInv, RangePcs
  <2>2. \A i \in start .. next - 1 : callPc[i] = "exited"
      BY DEF Join, ForkedExited
  <2>3. ASSUME NEW i \in Calls, i < end PROVE Done(i)
    <3>1. CASE i < start
        BY <3>1 DEF IInv, PlaceInv
    <3>2. CASE start <= i /\ i < next
        BY <2>1, <2>2, <2>3, <3>2 DEF IInv, TypeInv, CallInv, Done, Calls
    <3>3. CASE next <= i
        BY <1>1, <2>1, <2>3, <3>3 DEF IInv, TypeInv, LoopInv, PlaceInv, Skipped, Done, RangePcs, Calls
    <3> QED BY <3>1, <3>2, <3>3 DEF IInv, TypeInv, Calls
  <2> QED BY <1>1, <2>3, CallsFrame DEF IInv, PlaceInv, Frontier, RangePcs, ForkPcs
<1>4. SlotInv'
    BY <1>1, CallsFrame DEF IInv, SlotInv
<1> QED BY <1>1, <1>2, <1>3, <1>4, CallsFrame DEF IInv

-----------------------------------------------------------------------------
\* The inductive invariant holds of every batch.
THEOREM Invariance == Spec => []IInv
<1>1. IInv /\ [Next]_vars => IInv'
  <2> SUFFICES ASSUME IInv, [Next]_vars PROVE IInv'
      OBVIOUS
  <2>1. CASE RunTools
      BY <2>1, ReturnCorrect, StartSerialCorrect, EndSerialCorrect, StartRangeCorrect,
         ForkChecksCorrect, AcquireCorrect, SpawnCorrect, JoinCorrect DEF RunTools
  <2>2. ASSUME NEW i \in Calls, runSingle(i) PROVE IInv'
      BY <2>2, SingleCorrect, ExitCorrect DEF runSingle, Answered, Goes
  <2>3. CASE UNCHANGED vars
    <3>1. Frontier' = Frontier /\ Holders' = Holders
        BY <2>3 DEF vars, batchVars, callVars, Frontier, Holders, IsParallelRead
    <3>2. TypeInv' /\ LoopInv' /\ SlotInv'
        BY <2>3, <3>1 DEF vars, batchVars, callVars, IInv, TypeInv, LoopInv, SlotInv, IsParallelRead
    <3>3. PlaceInv'
        BY <2>3, <3>1, CallsFrame DEF vars, batchVars, callVars, IInv, PlaceInv
    <3> QED BY <2>3, <3>2, <3>3, CallsFrame DEF IInv, vars
  <2> QED BY <2>1, <2>2, <2>3, ReturnCorrect DEF Next
<1> QED BY <1>1, InitCorrect, PTL DEF Spec

\* Calls overlap only as parallel reads of one contiguous range, and no more of
\* them than the semaphore of runParallelRange admits.
THEOREM OverlapCorrect == Spec => []OverlapAllowed
<1>1. IInv => OverlapAllowed
  <2> SUFFICES ASSUME IInv PROVE OverlapAllowed
      OBVIOUS
  <2>1. TypeOK
    <3>1. slots \in 0 .. MaxConcurrency
        BY HoldersFinite, CapacityAssumption DEF IInv, SlotInv
    <3> QED BY <3>1 DEF IInv, TypeInv, TypeOK, RangePcs, ForkPcs
  <2>2. ASSUME NEW i \in Calls, NEW j \in Calls, i < j, callPc[j] # "idle", result[i] = "none"
        PROVE  \A k \in i .. j : IsParallelRead(k)
    <3>1. j < Frontier /\ start <= i
        BY <2>2 DEF IInv, TypeInv, PlaceInv, Done, Untouched, Frontier, Calls
    <3>2. pc \in RangePcs /\ Frontier <= end
        BY <2>2, <3>1 DEF IInv, TypeInv, LoopInv, Frontier, RangePcs, ForkPcs, Calls
    <3> QED BY <3>1, <3>2 DEF IInv, TypeInv, LoopInv, Frontier, Calls
  <2>3. ConcurrencyBound
    <3> DEFINE Flying == {i \in Calls : InFlight(i)}
    <3>1. CASE pc = "serial"
      <4>1. Flying \subseteq {start}
          BY <3>1 DEF IInv, TypeInv, PlaceInv, Done, Untouched, Frontier, InFlight, Calls
      <4>2. IsFiniteSet({start}) /\ Cardinality({start}) = 1
          BY FS_Singleton
      <4>3. IsFiniteSet(Flying) /\ Cardinality(Flying) <= 1
          BY <4>1, <4>2, FS_Subset
      <4> QED BY <4>3, FS_CardinalityType, CapacityAssumption DEF ConcurrencyBound
    <3>2. CASE pc # "serial"
      <4>1. ASSUME NEW i \in Calls, InFlight(i) PROVE IsParallelRead(i)
        <5>1. start <= i /\ i < Frontier
            BY <4>1 DEF IInv, TypeInv, PlaceInv, Done, Untouched, Frontier, InFlight, Calls
        <5> QED BY <3>2, <5>1 DEF IInv, TypeInv, LoopInv, Frontier, RangePcs, ForkPcs, Calls
      <4>2. Flying \subseteq Holders
          BY <4>1 DEF Holders, InFlight
      <4>3. IsFiniteSet(Flying) /\ Cardinality(Flying) <= Cardinality(Holders)
          BY <4>2, HoldersFinite, FS_Subset
      <4> QED BY <4>3, HoldersFinite, FS_CardinalityType, CapacityAssumption
              DEF IInv, SlotInv, ConcurrencyBound
    <3> QED BY <3>1, <3>2
  <2> QED BY <2>1, <2>2, <2>3 DEF OverlapAllowed, BarriersHold
<1> QED BY <1>1, Invariance, PTL

\* When RunTools goes on or returns, every call before has its response, its
\* one post hook, and no goroutine (runParallelRange, runSingle).
THEOREM CompleteCorrect == Spec => []BatchComplete
<1>1. IInv => BatchComplete
  <2> SUFFICES ASSUME IInv PROVE BatchComplete
      OBVIOUS
  <2>1. ASSUME NEW i \in 1 .. start - 1 PROVE result[i] # "none" /\ ~InFlight(i)
    <3>1. i \in Calls /\ i < start
        BY BatchAssumption DEF IInv, TypeInv, Calls
    <3> QED BY <3>1 DEF IInv, PlaceInv, Done, InFlight
  <2> QED BY <2>1 DEF IInv, BatchComplete, BatchJoins
<1> QED BY <1>1, Invariance, PTL

\* A tool gets only an input the policy or its recheck allowed last.
THEOREM ApprovedCorrect == Spec => []OnlyApprovedInputs
<1>1. IInv => OnlyApprovedInputs
    BY DEF IInv, CallInv, OnlyApprovedInputs
<1> QED BY <1>1, Invariance, PTL

\* No response is written twice: fillCancellationResults meets untouched calls
\* only, and a call answers while it has none.
THEOREM StableCorrect == Spec => ResponsesStable
<1> DEFINE Stable == \A i \in Calls : result[i] # "none" => result'[i] = result[i]
<1>1. IInv /\ [Next]_vars => [Stable]_vars
  <2> SUFFICES ASSUME IInv, Next PROVE Stable
      OBVIOUS
  <2>1. ASSUME NEW i \in Calls, runSingle(i) PROVE Stable
    <3>1. CASE Answered(i) \/ Goes(i)
      <4>1. SingleFrame(i) /\ result[i] = "none"
          BY <3>1, SingleStep, KeptCalls DEF IInv, SingleFrame, Kept, InFlight
      <4> QED BY <4>1 DEF SingleFrame
    <3>2. CASE ExitGoroutine(i)
        BY <3>2 DEF ExitGoroutine
    <3> QED BY <2>1, <3>1, <3>2 DEF runSingle, Answered, Goes
  <2>2. ASSUME pc \in ForkPcs, FillCancelled PROVE Stable
      BY <2>2 DEF IInv, TypeInv, PlaceInv, Frontier, FillCancelled, Unforked, Untouched, ForkPcs, Calls
  <2>3. CASE RunTools \/ Cancel
      BY <2>2, <2>3 DEF RunTools, Cancel, Return, StartSerial, EndSerial, StartRange, ForkChecks,
         AcquireSlot, AcquireCancelled, Spawn, Join, ForkPcs, callVars
  <2> QED BY <2>1, <2>3 DEF Next
<1> QED BY <1>1, Invariance, PTL DEF ResponsesStable, Spec
=============================================================================

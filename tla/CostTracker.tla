----------------------------- MODULE CostTracker -----------------------------
(***************************************************************************)
(* costtracker.Tracker of one session, used by several goroutines, and the  *)
(* file it is saved to and restored from, which sessions share.  Save takes *)
(* the total and a reference to the map of models under the lock, and reads *)
(* the map afterwards.  Costs are whole units.                              *)
(***************************************************************************)
EXTENDS Naturals, Functions

CONSTANTS
  Models, Savers,
  MaxSpent         \* bound: units the session may ever spend

Empty == [m \in Models |-> 0]
Torn  == "torn"    \* a file that is cut off, or two writes mixed: no JSON
NoFile == "none"
Mine == "mine"     \* this session's ID

CostOf(models) == SumFunction(models)

VARIABLES
  total, models,       \* Tracker
  file,                \* cost-state.json: its kind, owner, total and models
  at,                  \* where each Save is
  savedTotal, seen,    \* the total it took, and what it read of the map
  left,                \* models of the map it has not yet read
  frozen,              \* of those whose map a Restore has replaced: the map
  restored,            \* what a Restore has read and not yet put in force
  spent,               \* history: all the session has spent
  running              \* the Go runtime has not ended the process

save == <<at, savedTotal, seen, left, frozen>>
Nothing == <<>>
vars == <<total, models, file, save, restored, spent, running>>

Content(owner, t, ms) == [kind |-> "json", owner |-> owner, total |-> t, models |-> ms]
Broken(kind)          == [Content(Mine, 0, Empty) EXCEPT !.kind = kind]

Init ==
  /\ total = 0 /\ models = Empty
  /\ file \in {Broken(NoFile), Content("other", MaxSpent + 1, Empty)}
  /\ at = [s \in Savers |-> "idle"] /\ savedTotal = [s \in Savers |-> 0]
  /\ seen = [s \in Savers |-> Empty] /\ left = [s \in Savers |-> {}]
  /\ frozen = <<>> /\ restored = Nothing
  /\ spent = 0 /\ running = TRUE

Map(s) == IF s \in DOMAIN frozen THEN frozen[s] ELSE models

-----------------------------------------------------------------------------
(***************************************************************************)
(* Faults: wrong versions of definitions; no action uses one.               *)
(***************************************************************************)
OfAnySession == file.kind = "json"

-----------------------------------------------------------------------------
\* A new model enters the map while json ranges over it: the runtime may
\* find that out and end the process.
AddUsage(m) ==
  /\ running /\ spent < MaxSpent
  /\ spent' = spent + 1 /\ total' = total + 1
  /\ models' = [models EXCEPT ![m] = @ + 1]
  /\ running' \in IF /\ models[m] = 0
                     /\ \E s \in Savers : at[s] = "range" /\ s \notin DOMAIN frozen
                  THEN BOOLEAN ELSE {TRUE}
  /\ UNCHANGED <<file, save, restored>>

SaveBegins(s) ==
  /\ running /\ at[s] = "idle"
  /\ at' = [at EXCEPT ![s] = "range"]
  /\ savedTotal' = [savedTotal EXCEPT ![s] = total]
  /\ frozen' = RestrictDomain(frozen, LAMBDA t : t # s)
  /\ UNCHANGED <<total, models, file, seen, left, restored, spent, running>>

\* json first collects the models, then what each has used.
SaveRanges(s) ==
  /\ running /\ at[s] = "range"
  /\ at' = [at EXCEPT ![s] = "marshal"]
  /\ seen' = [seen EXCEPT ![s] = Empty]
  /\ left' = [left EXCEPT ![s] = {m \in Models : Map(s)[m] # 0}]
  /\ UNCHANGED <<total, models, file, savedTotal, frozen, restored, spent, running>>

SaveReads(s) ==
  /\ running /\ at[s] = "marshal"
  /\ \E m \in left[s] :
       /\ seen' = [seen EXCEPT ![s][m] = Map(s)[m]]
       /\ left' = [left EXCEPT ![s] = @ \ {m}]
  /\ UNCHANGED <<total, models, file, at, savedTotal, frozen, restored, spent, running>>

\* WriteFile truncates the file, then writes it.
SaveOpens(s) ==
  /\ running /\ at[s] = "marshal" /\ left[s] = {}
  /\ file' = Broken(Torn)
  /\ at' = [at EXCEPT ![s] = "write"]
  /\ UNCHANGED <<total, models, savedTotal, seen, left, frozen, restored, spent, running>>

\* Over what another Save has written since, the bytes may mix.
SaveWrites(s) ==
  /\ running /\ at[s] = "write"
  /\ file' \in {Content(Mine, savedTotal[s], seen[s])}
               \cup (IF file.kind = "json" THEN {Broken(Torn)} ELSE {})
  /\ at' = [at EXCEPT ![s] = "idle"]
  /\ UNCHANGED <<total, models, savedTotal, seen, left, frozen, restored, spent, running>>

Restorable == file.kind = "json" /\ file.owner = Mine

\* No file, no JSON or another session's: nothing changes.
RestoreReads ==
  /\ running /\ restored = Nothing /\ Restorable
  /\ restored' = <<file.total, file.models>>
  /\ UNCHANGED <<total, models, file, save, spent, running>>

\* Usage added since the file was read is forgotten.
Restore ==
  /\ running /\ restored # Nothing
  /\ total' = restored[1] /\ models' = restored[2]
  /\ frozen' = [s \in DOMAIN frozen \cup {t \in Savers : at[t] \in {"range", "marshal"}}
                  |-> Map(s)]
  /\ restored' = Nothing
  /\ UNCHANGED <<file, at, savedTotal, seen, left, spent, running>>

\* The process ends at any point and the session goes on in a new one.
Restart ==
  /\ running' = TRUE
  /\ total' = 0 /\ models' = Empty
  /\ at' = [s \in Savers |-> "idle"]
  /\ savedTotal' = [s \in Savers |-> 0] /\ seen' = [s \in Savers |-> Empty]
  /\ left' = [s \in Savers |-> {}] /\ frozen' = <<>> /\ restored' = Nothing
  /\ UNCHANGED <<file, spent>>

Next ==
  \/ \E m \in Models : AddUsage(m)
  \/ \E s \in Savers : SaveBegins(s) \/ SaveRanges(s) \/ SaveReads(s) \/ SaveOpens(s) \/ SaveWrites(s)
  \/ RestoreReads \/ Restore \/ Restart

Spec == Init /\ [][Next]_vars

-----------------------------------------------------------------------------
(***************************************************************************)
(* The total is never more than the models account for, and that never more *)
(* than the session has spent: in the tracker and in its file, through      *)
(* Saves that overlap with AddUsage, Restores and restarts.  (It may be     *)
(* less: what was added while a Save read the map is in the models only.)   *)
(***************************************************************************)
CostsCovered ==
  /\ total <= CostOf(models) /\ CostOf(models) <= spent
  /\ file.kind = "json" /\ file.owner = Mine =>
       file.total <= CostOf(file.models) /\ CostOf(file.models) <= spent
=============================================================================

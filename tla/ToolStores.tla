----------------------------- MODULE ToolStores -----------------------------
(***************************************************************************)
(* The in-memory stores behind the built-in tools: tasks, todos, teams,     *)
(* cron jobs, mailboxes and the plan mode.  Agents call the tools at the    *)
(* same time; each store operation is one lock section.  TaskStop makes    *)
(* several.  An object is the number of the creation that made it.          *)
(***************************************************************************)
EXTENDS Naturals, Sequences, FiniteSets, Functions

CONSTANTS
  Agents,             \* who calls the tools, and the names mail is sent to
  MaxOps              \* bound: operations in all

Kinds    == {"task", "todo", "team", "cron"}
Statuses == {"pending", "completed", "cancelled"}

VARIABLES
  items,       \* of each kind: the object and status under each ID
  made,        \* of each kind: creations so far, the counter of all but tasks
  boxes,       \* Mailbox.boxes
  plan,        \* PlanModeState
  at, target,  \* where each agent is in TaskStop, and the ID it stops
  ops,
  told,        \* history: the IDs the tools gave out, with their objects
  deletedTask, \* history: some task has been deleted
  sent, read   \* history: what was sent to each name and read by it

vars == <<items, made, boxes, plan, at, target, ops, told, deletedTask, sent, read>>
history == <<told, deletedTask, sent, read>>

Init ==
  /\ items = [k \in Kinds |-> <<>>] /\ made = [k \in Kinds |-> 0]
  /\ boxes = <<>>
  /\ plan = [active |-> FALSE, text |-> ""]
  /\ at = [a \in Agents |-> "idle"] /\ target = [a \in Agents |-> 0]
  /\ ops = 0 /\ told = {} /\ deletedTask = FALSE
  /\ sent = [a \in Agents |-> <<>>] /\ read = [a \in Agents |-> <<>>]

\* An assignment to a key of a Go map.
Put(m, key, value) == [k \in DOMAIN m \cup {key} |-> IF k = key THEN value ELSE m[k]]

\* One more operation of an agent that is not in the middle of one.
Operation ==
  /\ ops < MaxOps /\ ops' = ops + 1
  /\ \E a \in Agents : at[a] = "idle"

-----------------------------------------------------------------------------
(***************************************************************************)
(* Faults: wrong versions of definitions; no action uses one.               *)
(***************************************************************************)
CountsPending(k) ==
  1 + Cardinality({i \in DOMAIN items[k] : items[k][i].status = "pending"})

-----------------------------------------------------------------------------
(* Tasks, todos, teams and cron jobs: what their operations have in common  *)
NextId(k) == 1 + IF k = "task" THEN Cardinality(DOMAIN items[k]) ELSE made[k]

OnItems == UNCHANGED <<boxes, plan, at, target, sent, read>>

\* The new object takes its ID, whoever has that already.
Create(k) ==
  LET id == NextId(k)
  IN /\ Operation
     /\ made' = [made EXCEPT ![k] = @ + 1]
     /\ items' = [items EXCEPT ![k] =
          Put(@, id, [object |-> made'[k], status |-> "pending"])]
     /\ told' = told \cup {<<k, id, made'[k]>>}
     /\ OnItems /\ UNCHANGED deletedTask

SetStatus(k, id, status) ==
  /\ Operation /\ id \in DOMAIN items[k]
  /\ items' = [items EXCEPT ![k][id].status = status]
  /\ OnItems /\ UNCHANGED <<made, told, deletedTask>>

Delete(k, ids) ==
  /\ Operation
  /\ items' = [items EXCEPT ![k] = RestrictDomain(@, LAMBDA i : i \notin ids)]
  /\ deletedTask' = (deletedTask \/ k = "task")
  /\ OnItems /\ UNCHANGED <<made, told>>

-----------------------------------------------------------------------------
(* The tools on tasks                                                       *)
TaskCreate == Create("task")

\* The status "deleted" removes the task.
TaskUpdate(id) == \/ \E status \in Statuses : SetStatus("task", id, status)
                  \/ id \in DOMAIN items["task"] /\ Delete("task", {id})

\* TaskStop: Get, then Update; the text SetOutput then adds is left out.
StopLooksUp(a, id) ==
  /\ at[a] = "idle" /\ Operation /\ id \in DOMAIN items["task"]
  /\ at' = [at EXCEPT ![a] = "cancel"] /\ target' = [target EXCEPT ![a] = id]
  /\ UNCHANGED <<items, made, boxes, plan, history>>

StopCancels(a) ==
  /\ at[a] = "cancel"
  /\ items' = IF target[a] \in DOMAIN items["task"]
              THEN [items EXCEPT !["task"][target[a]].status = "cancelled"]
              ELSE items
  /\ at' = [at EXCEPT ![a] = "idle"]
  /\ UNCHANGED <<made, boxes, plan, target, ops, history>>

-----------------------------------------------------------------------------
(* The actions of TodoWrite; a todo that is done is "completed".            *)
TodoAdd == Create("todo")

TodoToggle(id) ==
  SetStatus("todo", id, IF items["todo"][id].status = "pending" THEN "completed" ELSE "pending")

TodoRemove(id) == id \in DOMAIN items["todo"] /\ Delete("todo", {id})

TodoClear == Delete("todo", DOMAIN items["todo"])

TodoWrite == TodoAdd \/ TodoClear \/ \E id \in DOMAIN items["todo"] : TodoToggle(id) \/ TodoRemove(id)

-----------------------------------------------------------------------------
(* Teams and cron jobs                                                      *)
TeamCreate     == Create("team")
TeamDelete(id) == id \in DOMAIN items["team"] /\ Delete("team", {id})

CronCreate     == Create("cron")
CronDelete(id) == id \in DOMAIN items["cron"] /\ Delete("cron", {id})

-----------------------------------------------------------------------------
(* Mailboxes: a message is the number of the operation that sent it.        *)
OnMail == UNCHANGED <<items, made, plan, at, target, told, deletedTask>>

Box(name) == IF name \in DOMAIN boxes THEN boxes[name] ELSE <<>>

Register(name) ==
  /\ Operation
  /\ boxes' = Put(boxes, name, Box(name))
  /\ OnMail /\ UNCHANGED <<sent, read>>

Send(name) ==
  /\ Operation
  /\ boxes' = Put(boxes, name, Append(Box(name), ops))
  /\ sent' = [sent EXCEPT ![name] = Append(@, ops)]
  /\ OnMail /\ UNCHANGED read

Broadcast ==
  /\ Operation
  /\ boxes' = [name \in DOMAIN boxes |-> Append(boxes[name], ops)]
  /\ sent' = [name \in Agents |-> IF name \in DOMAIN boxes THEN Append(sent[name], ops)
                                                           ELSE sent[name]]
  /\ OnMail /\ UNCHANGED read

\* Reading registers the reader.
Read(name) ==
  /\ Operation
  /\ boxes' = Put(boxes, name, <<>>)
  /\ read' = [read EXCEPT ![name] = @ \o Box(name)]
  /\ OnMail /\ UNCHANGED sent

-----------------------------------------------------------------------------
(* Plan mode                                                                *)
SetPlan(active, text) ==
  /\ Operation
  /\ plan' = [active |-> active, text |-> text]
  /\ UNCHANGED <<items, made, boxes, at, target, history>>

EnterPlanMode == ~plan.active /\ SetPlan(TRUE, "")
ExitPlanMode  == plan.active /\ \E text \in {"", "plan"} : SetPlan(FALSE, text)

Next ==
  \/ TaskCreate \/ TodoWrite \/ TeamCreate \/ CronCreate
  \/ \E id \in DOMAIN items["task"] : TaskUpdate(id) \/ \E a \in Agents : StopLooksUp(a, id)
  \/ \E id \in DOMAIN items["team"] : TeamDelete(id)
  \/ \E id \in DOMAIN items["cron"] : CronDelete(id)
  \/ \E a \in Agents : StopCancels(a) \/ Register(a) \/ Send(a) \/ Read(a)
  \/ Broadcast \/ EnterPlanMode \/ ExitPlanMode

Spec == Init /\ [][Next]_vars

-----------------------------------------------------------------------------
(***************************************************************************)
(* An ID that a tool has given out keeps naming the same todo, team or cron *)
(* job, or nothing once that is gone; the ID of a task does, and its task   *)
(* is there, until a task is deleted (IDs of tasks count the tasks).        *)
(***************************************************************************)
IdsKeepTheirObject ==
  \A t \in told : LET k == t[1] id == t[2] object == t[3] IN
    /\ k # "task" /\ id \in DOMAIN items[k] => items[k][id].object = object
    /\ k = "task" /\ ~deletedTask =>
         id \in DOMAIN items[k] /\ items[k][id].object = object

(***************************************************************************)
(* Each message reaches each box it was sent to once, in the order it was   *)
(* sent, although Broadcast, Send and Read create boxes as they go.         *)
(***************************************************************************)
MailKept == \A a \in Agents : read[a] \o Box(a) = sent[a]
=============================================================================

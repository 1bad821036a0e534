---------------------------- MODULE ToolAdmission ----------------------------
(***************************************************************************)
(* Whether one tool call runs, and on which input: permissions.NewPolicy    *)
(* with the Agent's callback (PermissionRequest hooks, then the host), the  *)
(* PreToolUse hooks, and the recheck of an input they changed, while the    *)
(* host edits the permission rules and the mode.                            *)
(*                                                                          *)
(* An input is "read" (read-only to the tool) or one of two that change     *)
(* something.  A rule is the input it matches: the tool is fixed.           *)
(***************************************************************************)
EXTENDS Naturals, Sequences, SequencesExt

CONSTANT MaxEdits   \* bound: changes the host makes to the configuration

Inputs    == {"read", "edit", "remove"}
Modes     == {"default", "acceptEdits", "bypassPermissions", "plan", "dontAsk"}
NoInput   == "none"
Updates   == Inputs \cup {NoInput}
AllowRule == {"edit"}
DenyRules == {"edit", "remove"}

VARIABLES
  bound,        \* the tool in AllowedTools and DisallowedTools of Options
  hasHost,      \* Options.CanUseTool is set
  isEditTool,   \* the tool is one of the built-in edit tools
  mode, allowRules, denyRules,   \* permissions.Config
  edits,        \* changes the host has made to it
  at,           \* where the call is
  arg,          \* its input
  seen,         \* the policy's snapshot of the configuration
  offered,      \* the input the host is asked about
  denied, modes, allowed   \* history: rules that denied all the time of the
                           \* call, modes and allow rules it has met

config  == <<mode, allowRules, denyRules>>
history == <<denied, modes, allowed>>
static  == <<bound, hasHost, isEditTool>>
vars    == <<static, config, edits, at, arg, seen, offered, history>>

Init ==
  /\ bound \in {"none", "listed", "unlisted", "disallowed"}
  /\ hasHost \in BOOLEAN /\ isEditTool \in BOOLEAN
  /\ mode \in Modes /\ allowRules \in SUBSET AllowRule
  /\ denyRules \in SUBSET DenyRules
  /\ edits = 0 /\ at = "policy" /\ arg \in {"read", "edit"}
  /\ seen = config /\ offered = NoInput
  /\ denied = denyRules /\ modes = {mode} /\ allowed = allowRules

-----------------------------------------------------------------------------
(***************************************************************************)
(* hooks.Manager.runHooks.  rules are the outcomes of the functions of each *)
(* rule that matches the tool, the legacy ones first: "pass", "block",      *)
(* "error", or the UpdatedInput of an output (NoInput when it has none).    *)
(***************************************************************************)
HookOutcomes == {"pass", "block", "error"} \cup Updates

RunOne(result, outcome) ==
  IF result.end # "none" \/ outcome = "pass" THEN result
  ELSE IF outcome \in {"block", "error"} THEN [result EXCEPT !.end = outcome]
       ELSE [result EXCEPT !.updated = outcome]

RunHooks(rules) ==
  FoldLeft(RunOne, [end |-> "none", updated |-> NoInput], FlattenSeq(rules))

HookRuns == {RunHooks(<<r, s>>) : r, s \in SeqOf(HookOutcomes, 1)}

-----------------------------------------------------------------------------
(***************************************************************************)
(* permissions.NewPolicy: s is the snapshot <<mode, allow, deny>>.          *)
(***************************************************************************)
Preapproved(s, i) ==
  \/ i = "read" \/ bound = "listed" \/ s[1] = "bypassPermissions"
  \/ s[1] = "acceptEdits" /\ isEditTool
  \/ i \in s[2]

OutOfBounds(s, i) ==
  \/ bound \in {"disallowed", "unlisted"}
  \/ i \in s[3]
  \/ s[1] = "plan" /\ i # "read"

AsksCallback(s, i) == Preapproved(s, i) \/ s[1] \in {"default", "acceptEdits"}

\* A fault: a wrong version of the definition below, which no action uses.
ForgetsDontAsk(s, i) == i \in s[3] \/ (s[1] = "plan" /\ i # "read")

\* What the policy looks at again once the callback has answered.
StillDenied(s, i) ==
  \/ i \in s[3]
  \/ s[1] = "plan" /\ i # "read"
  \/ s[1] = "dontAsk" /\ ~Preapproved(s, i)

-----------------------------------------------------------------------------
(* The host changes the configuration                                       *)
Note ==
  /\ at \notin {"run", "refused"} /\ edits < MaxEdits /\ edits' = edits + 1
  /\ denied' = denied \cap denyRules'
  /\ modes' = modes \cup {mode'}
  /\ allowed' = allowed \cup allowRules'
  /\ UNCHANGED <<static, at, arg, seen, offered>>

SetMode ==
  /\ mode' \in Modes \ {mode}
  /\ UNCHANGED <<allowRules, denyRules>>
  /\ Note

AddRules ==
  /\ \/ allowRules' = allowRules \cup AllowRule /\ UNCHANGED denyRules
     \/ \E r \in DenyRules : denyRules' = denyRules \cup {r} /\ UNCHANGED allowRules
  /\ UNCHANGED mode
  /\ Note

\* RemoveRules goes by the name of the tool, so all of its rules go.
RemoveRules ==
  /\ \/ allowRules' = {} /\ UNCHANGED denyRules
     \/ denyRules' = {} /\ UNCHANGED allowRules
  /\ UNCHANGED mode
  /\ Note

ReplaceRules ==
  /\ denyRules' \in SUBSET DenyRules
  /\ UNCHANGED <<mode, allowRules>>
  /\ Note

-----------------------------------------------------------------------------
(* The call                                                                 *)
Goes(where, input) ==
  /\ at' = where /\ arg' = input
  /\ UNCHANGED <<static, config, edits, history>>

\* The first use of the policy, up to its callback.
CheckPolicy ==
  /\ at = "policy"
  /\ seen' = config
  /\ LET refused == OutOfBounds(config, arg)
         asks    == hasHost /\ AsksCallback(config, arg)
     IN Goes(CASE refused -> "refused"
               [] ~refused /\ asks -> "permissionHooks"
               [] ~refused /\ ~asks /\ Preapproved(config, arg) -> "preToolHooks"
               [] OTHER -> "refused", arg)
  /\ UNCHANGED offered

\* RunPermissionRequest, in the callback permissionPolicy wraps the host's in.
PermissionHooks ==
  /\ at = "permissionHooks"
  /\ \E h \in HookRuns :
       /\ Goes(IF h.end = "none" THEN "host" ELSE "refused", arg)
       /\ offered' = h.updated
  /\ UNCHANGED seen

\* The host allows, perhaps with another input, or it refuses: by its
\* decision, by no decision or by an error.  The rest of the policy follows.
HostAnswers ==
  /\ at = "host"
  /\ \/ Goes("refused", arg)
     \/ \E u \in Updates :
          LET changed == IF u = NoInput THEN offered ELSE u
              checked == IF changed = NoInput THEN arg ELSE changed
          IN Goes(IF StillDenied(seen, checked) THEN "refused" ELSE "preToolHooks",
                  checked)
  /\ UNCHANGED <<seen, offered>>

PreToolHooks ==
  /\ at = "preToolHooks"
  /\ \E h \in HookRuns :
       CASE h.end # "none"      -> Goes("refused", arg)
         [] h.end = "none" /\ h.updated = NoInput -> Goes("run", arg)
         [] OTHER               -> Goes("recheck", h.updated)
  /\ UNCHANGED <<seen, offered>>

\* permissionBoundsPolicy: the same policy with a callback that says yes.
Recheck ==
  /\ at = "recheck"
  /\ seen' = config
  /\ Goes(IF \/ OutOfBounds(config, arg)
             \/ IF AsksCallback(config, arg) THEN StillDenied(config, arg)
                                             ELSE ~Preapproved(config, arg)
          THEN "refused" ELSE "run", arg)
  /\ UNCHANGED offered

Over == at \in {"run", "refused"} /\ UNCHANGED vars

Next ==
  \/ SetMode \/ AddRules \/ RemoveRules \/ ReplaceRules
  \/ CheckPolicy \/ PermissionHooks \/ HostAnswers \/ PreToolHooks \/ Recheck
  \/ Over

Spec == Init /\ [][Next]_vars

-----------------------------------------------------------------------------
(***************************************************************************)
(* Whatever the hooks, the host and the editor of the rules do, the input   *)
(* that runs is within the bounds that held throughout the call: the tool   *)
(* is visible, no rule that stayed in force denies the input, and plan mode *)
(* runs reads only (NewPolicy's second look after the callback, and the     *)
(* recheck after PreToolUse).                                               *)
(***************************************************************************)
WithinBounds ==
  at = "run" =>
    /\ bound \notin {"unlisted", "disallowed"}
    /\ arg \notin denied
    /\ modes = {"plan"} => arg = "read"

(***************************************************************************)
(* In dontAsk mode only what is preapproved runs, also when the callback or *)
(* a hook has put another input in its place.                               *)
(***************************************************************************)
DontAskHolds ==
  at = "run" /\ modes = {"dontAsk"} =>
    Preapproved(<<"dontAsk", allowed, {}>>, arg)
=============================================================================

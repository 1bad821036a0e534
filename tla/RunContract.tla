---------------------------- MODULE RunContract ----------------------------
(***************************************************************************)
(* What a Run promises its callers: it decides one outcome, then gives the *)
(* Session back, and every caller of Wait is told that outcome afterwards. *)
(***************************************************************************)
CONSTANTS
  Callers,     \* callers of Wait
  Outcomes,    \* result subtypes
  Undecided    \* a value that is no outcome

VARIABLES outcome, idle, answer

vars == <<outcome, idle, answer>>

Init ==
  /\ outcome = Undecided
  /\ idle = FALSE
  /\ answer = [w \in Callers |-> Undecided]

Decide ==
  /\ outcome = Undecided
  /\ outcome' \in Outcomes
  /\ UNCHANGED <<idle, answer>>

\* The Session is idle again.
GiveBack ==
  /\ outcome # Undecided /\ ~idle
  /\ idle' = TRUE
  /\ UNCHANGED <<outcome, answer>>

Answer(w) ==
  /\ idle /\ answer[w] = Undecided
  /\ answer' = [answer EXCEPT ![w] = outcome]
  /\ UNCHANGED <<outcome, idle>>

Next == Decide \/ GiveBack \/ \E w \in Callers : Answer(w)

Spec == Init /\ [][Next]_vars
=============================================================================

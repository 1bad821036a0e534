------------------------- MODULE ConnectionContract -------------------------
(***************************************************************************)
(* What a Connection promises its callers of a server that only answers    *)
(* requests, soon, late or never, and may exit: one exchange at a time; a  *)
(* call ends with the response to its own request, with an error, or       *)
(* without an exchange that has come to its end, and then no other one     *)
(* follows; who has closed it finds nobody exchanging.                     *)
(***************************************************************************)
CONSTANTS
  Reqs,      \* calls
  Closers    \* who closes it

VARIABLES
  open,
  exchange,   \* the call whose exchange is under way, if any, as a set
  answer,     \* "none", the request whose response a call got, or its error
  returned    \* the closers that have returned

vars == <<open, exchange, answer, returned>>

Init ==
  /\ open = TRUE
  /\ exchange = {}
  /\ answer = [r \in Reqs |-> "none"]
  /\ returned = {}

Begin(r) ==
  /\ open /\ exchange = {} /\ answer[r] = "none"
  /\ exchange' = {r}
  /\ UNCHANGED <<open, answer, returned>>

Answered(r) ==
  /\ r \in exchange /\ answer[r] = "none"
  /\ \E a \in {r, "error"} : answer' = [answer EXCEPT ![r] = a]
  /\ exchange' = {}
  /\ UNCHANGED <<open, returned>>

\* A call gives up, before its exchange or in it.
GiveUp(r) ==
  /\ answer[r] = "none"
  /\ \/ answer' = [answer EXCEPT ![r] = "cancelled"]
     \/ ~open /\ answer' = [answer EXCEPT ![r] = "closed"]
  /\ UNCHANGED <<open, exchange, returned>>

\* An exchange without its answer ends when the connection is closed.
Abandoned(r) ==
  /\ r \in exchange /\ answer[r] # "none" /\ ~open
  /\ exchange' = {}
  /\ UNCHANGED <<open, answer, returned>>

Close ==
  /\ open /\ open' = FALSE
  /\ UNCHANGED <<exchange, answer, returned>>

Return(c) ==
  /\ ~open /\ exchange = {}
  /\ returned' = returned \cup {c}
  /\ UNCHANGED <<open, exchange, answer>>

Next ==
  \/ \E r \in Reqs : Begin(r) \/ Answered(r) \/ GiveUp(r) \/ Abandoned(r)
  \/ Close
  \/ \E c \in Closers : Return(c)

Spec == Init /\ [][Next]_vars
=============================================================================

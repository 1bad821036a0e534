------------------------------ MODULE RateLimit ------------------------------
(***************************************************************************)
(* ratelimit.Tracker.  The headers of one response are folded into the most *)
(* constrained window, which replaces the current one under the lock; the   *)
(* callback follows after the lock.  Responses arrive at the same time.     *)
(***************************************************************************)
EXTENDS Integers, Sequences, FiniteSets

CONSTANTS
  Callers, Windows,   \* goroutines with a response; number of windows (5)
  MaxResponses        \* bound: responses parsed

\* What a window's headers say.  With limit 10, utilization is in tenths; a
\* window without headers, or with headers that are no numbers, is absent.
Absent  == [limit |-> 10, remaining |-> 11]
Headers == {Absent, [limit |-> 0, remaining |-> 0]} \cup
           [limit : {10}, remaining : {0, 1, 9}]

VARIABLES
  current,     \* Tracker.current
  at, prev, next,   \* of each caller: where it is, what it replaced by what
  responses,
  changes, events,  \* history: changes of the status, callbacks made
  worst             \* history: whether the last response had a window that
                    \* rejects, "unclear" if a limit is 0

vars == <<current, at, prev, next, responses, changes, events, worst>>

\* A window that was given, with status and utilization.
parseWindow(h) ==
  LET used == IF h.limit > 0 THEN h.limit - h.remaining ELSE 0
  IN [used   |-> used,
      status |-> IF h.remaining <= 0 THEN "rejected"
                 ELSE IF used >= 8 THEN "allowed_warning" ELSE "allowed"]

moreConstrained(a, b) ==
  (a.status = "rejected" /\ b.status # "rejected") \/ a.used > b.used

\* The loop over the windows, and what it has found when none was given.
None == [used |-> 0, status |-> "none"]

MostConstrained(headers) ==
  LET most[n \in 0 .. Windows] ==
        IF n = 0 THEN None
        ELSE IF \/ headers[n] = Absent
                \/ /\ most[n - 1] # None
                   /\ ~moreConstrained(parseWindow(headers[n]), most[n - 1])
             THEN most[n - 1]
             ELSE parseWindow(headers[n])
  IN most[Windows]

Init ==
  /\ current = [used |-> 0, status |-> "allowed"]
  /\ at = [c \in Callers |-> "idle"]
  /\ prev = [c \in Callers |-> current] /\ next = [c \in Callers |-> current]
  /\ responses = 0 /\ changes = <<>> /\ events = <<>> /\ worst = "some left"

-----------------------------------------------------------------------------
ParseHeaders(c) ==
  /\ at[c] = "idle" /\ responses < MaxResponses
  /\ responses' = responses + 1
  /\ \E headers \in [1..Windows -> Headers] :
       LET given == {i \in 1 .. Windows : headers[i] # Absent}
           most  == MostConstrained(headers)
       IN IF most = None
          THEN UNCHANGED <<current, at, prev, next, changes, worst>>
          ELSE /\ current' = most
               /\ prev' = [prev EXCEPT ![c] = current]
               /\ next' = [next EXCEPT ![c] = most]
               /\ at' = [at EXCEPT ![c] = "callback"]
               /\ changes' = IF current.status = most.status THEN changes
                             ELSE Append(changes, most.status)
               /\ worst' = CASE \E i \in given : headers[i].limit = 0     -> "unclear"
                             [] \A i \in given : headers[i].limit > 0
                                  /\ headers[i].remaining > 0           -> "some left"
                             [] OTHER                                  -> "rejected"
  /\ UNCHANGED events

\* Only a change of the status is told.
OnChange(c) ==
  /\ at[c] = "callback"
  /\ events' = IF prev[c].status = next[c].status THEN events
               ELSE Append(events, next[c].status)
  /\ at' = [at EXCEPT ![c] = "idle"]
  /\ UNCHANGED <<current, prev, next, responses, changes, worst>>

Next == \E c \in Callers : ParseHeaders(c) \/ OnChange(c)

Spec == Init /\ [][Next]_vars

-----------------------------------------------------------------------------
(***************************************************************************)
(* Every change of the status is told once, by the response that made it,   *)
(* although others replace the information before its callback; they may    *)
(* only be told in another order (ParseHeaders).                            *)
(***************************************************************************)
ChangesReported ==
  LET pending == {c \in Callers : at[c] = "callback" /\ prev[c].status # next[c].status}
      Count(s, status) == Cardinality({i \in DOMAIN s : s[i] = status})
  IN \A status \in {"allowed", "allowed_warning", "rejected"} :
       Count(changes, status) =
         Count(events, status) + Cardinality({c \in pending : next[c].status = status})

(***************************************************************************)
(* "Pick the most constrained window (highest utilization or rejected)":    *)
(* when no limit is 0, the state is rejected if and only if some window of  *)
(* the last response is.                                                    *)
(***************************************************************************)
RejectedWindowWins ==
  /\ worst = "rejected"  => current.status = "rejected"
  /\ worst = "some left" => current.status # "rejected"
=============================================================================

----------------------------- MODULE McpClient -----------------------------
(***************************************************************************)
(* mcp.Client: its map of connections, for one server name.  Hosts call    *)
(* ConnectServer, CallToolWithReconnect and Close at the same time.  What  *)
(* happens inside a connection is McpConnection; here a connection is      *)
(* open or closed and a call on it has an outcome.                         *)
(***************************************************************************)
EXTENDS Naturals, FiniteSets

CONSTANTS
  Connectors, Callers, Closers,  \* who calls which operation
  MaxConnections,                \* bound: connections ever opened
  MaxAttempts                    \* maxReconnectAttempts

VARIABLES
  current,   \* connections[name], 0 for none
  opened,    \* connections opened so far; they are numbered
  live,      \* those whose transport is open
  at,        \* where each caller is
  mine,      \* the connection it is making, calling or cleaning up
  attempt    \* the attempts of its Reconnect

vars == <<current, opened, live, at, mine, attempt>>

Hosts   == Connectors \cup Callers \cup Closers
Ends    == {"returned", "failed", "crashed"}
Holding == {"list", "register", "replace", "cleanup", "closing"}

Init ==
  /\ current = 0 /\ opened = 0 /\ live = {}
  /\ at = [h \in Hosts |-> CASE h \in Connectors -> "connect"
                             [] h \in Callers    -> "lookup"
                             [] OTHER            -> "close"]
  /\ mine = [h \in Hosts |-> 0]
  /\ attempt = [h \in Hosts |-> 0]

Goes(h, where) == at' = [at EXCEPT ![h] = where]
Takes(h, conn) == mine' = [mine EXCEPT ![h] = conn]

-----------------------------------------------------------------------------
(***************************************************************************)
(* Faults: wrong versions of definitions; no action uses one.              *)
(***************************************************************************)
KeepsPrevious(h) == live

-----------------------------------------------------------------------------
(***************************************************************************)
(* ConnectServer, called by a host or by Reconnect, which tries again.     *)
(***************************************************************************)
AttemptFails(h) ==
  LET again == h \in Callers /\ attempt[h] + 1 < MaxAttempts
  IN /\ Goes(h, IF again THEN "backoff" ELSE "failed")
     /\ attempt' = [attempt EXCEPT ![h] = @ + 1]

\* No process, no answer to initialize, or a cancelled context.
ConnectFails(h) ==
  /\ at[h] = "connect"
  /\ AttemptFails(h)
  /\ UNCHANGED <<current, opened, live, mine>>

ConnectOpens(h) ==
  /\ at[h] = "connect" /\ opened < MaxConnections
  /\ opened' = opened + 1
  /\ live' = live \cup {opened'}
  /\ Takes(h, opened')
  /\ Goes(h, "list")
  /\ UNCHANGED <<current, attempt>>

CleanedUp(h) == live \ {mine[h]}

ListToolsFails(h) ==
  /\ at[h] = "list"
  /\ live' = CleanedUp(h)
  /\ AttemptFails(h)
  /\ UNCHANGED <<current, opened, mine>>

ListTools(h) ==
  /\ at[h] = "list"
  /\ Goes(h, "register")
  /\ UNCHANGED <<current, opened, live, mine, attempt>>

Register(h) ==
  /\ at[h] = "register"
  /\ current' = mine[h]
  /\ Takes(h, current)
  /\ Goes(h, "replace")
  /\ UNCHANGED <<opened, live, attempt>>

Replaced(h) == live \ {mine[h]}

CleanupPrevious(h) ==
  /\ at[h] = "replace"
  /\ live' = Replaced(h)
  /\ Goes(h, IF h \in Callers THEN "lookupAgain" ELSE "returned")
  /\ UNCHANGED <<current, opened, mine, attempt>>

-----------------------------------------------------------------------------
(***************************************************************************)
(* CallToolWithReconnect and Reconnect                                     *)
(***************************************************************************)
\* What comes back from the server: a result, an error, or an error whose
\* text makes it one of an expired session (it holds -32001 or 404, say).
Answers == {"result", "error", "expired"}
IsSessionExpiredError(a) == a = "expired"

Lookup(h) ==
  /\ at[h] = "lookup"
  /\ Takes(h, current)
  /\ Goes(h, IF current = 0 THEN "failed" ELSE "call")
  /\ UNCHANGED <<current, opened, live, attempt>>

\* A closed connection answers ErrConnectionClosed; a call cancelled in
\* the middle of its exchange closes the connection.
CallFails(h) ==
  /\ at[h] \in {"call", "callAgain"}
  /\ live' \in {live, CleanedUp(h)}
  /\ Goes(h, "failed")
  /\ UNCHANGED <<current, opened, mine, attempt>>

CallAnswered(h) ==
  /\ at[h] \in {"call", "callAgain"} /\ mine[h] \in live
  /\ \E a \in Answers :
       Goes(h, CASE a = "result" -> "returned"
                 [] IsSessionExpiredError(a) /\ at[h] = "call" -> "reconnect"
                 [] OTHER -> "failed")
  /\ UNCHANGED <<current, opened, live, mine, attempt>>

ReconnectLookup(h) ==
  /\ at[h] = "reconnect"
  /\ Takes(h, current)
  /\ Goes(h, IF current = 0 THEN "failed" ELSE "cleanup")
  /\ UNCHANGED <<current, opened, live, attempt>>

CleanupExpired(h) ==
  /\ at[h] = "cleanup"
  /\ live' = CleanedUp(h)
  /\ Goes(h, "connect")
  /\ UNCHANGED <<current, opened, mine, attempt>>

\* The delay is over, or the context is.
Backoff(h) ==
  /\ at[h] = "backoff"
  /\ \E where \in {"connect", "failed"} : Goes(h, where)
  /\ UNCHANGED <<current, opened, live, mine, attempt>>

\* The connection is looked up once more; calling none is a nil dereference.
LookupAgain(h) ==
  /\ at[h] = "lookupAgain"
  /\ Takes(h, current)
  /\ Goes(h, IF current = 0 THEN "crashed" ELSE "callAgain")
  /\ UNCHANGED <<current, opened, live, attempt>>

-----------------------------------------------------------------------------
(* Client.Close                                                             *)
TakeConnections(h) ==
  /\ at[h] = "close"
  /\ Takes(h, current)
  /\ current' = 0
  /\ Goes(h, "closing")
  /\ UNCHANGED <<opened, live, attempt>>

CleanupTaken(h) ==
  /\ at[h] = "closing"
  /\ live' = CleanedUp(h)
  /\ Goes(h, "returned")
  /\ UNCHANGED <<current, opened, mine, attempt>>

Over == (\A h \in Hosts : at[h] \in Ends) /\ UNCHANGED vars

Next ==
  \/ \E h \in Hosts :
       \/ ConnectFails(h) \/ ConnectOpens(h) \/ ListToolsFails(h) \/ ListTools(h)
       \/ Register(h) \/ CleanupPrevious(h)
       \/ Lookup(h) \/ CallFails(h) \/ CallAnswered(h) \/ ReconnectLookup(h)
       \/ CleanupExpired(h) \/ Backoff(h) \/ LookupAgain(h)
       \/ TakeConnections(h) \/ CleanupTaken(h)
  \/ Over

Spec == Init /\ [][Next]_vars

-----------------------------------------------------------------------------
(***************************************************************************)
(* No connection is lost: one that is open is in the map or in the hands   *)
(* of an operation that will put it there or close it.  So once every      *)
(* operation has returned, the process of at most one connection runs, and *)
(* Close can still reach it (ConnectServer, Reconnect, Close).             *)
(***************************************************************************)
NoConnectionLost ==
  \A c \in live : c = current \/ \E h \in Hosts : at[h] \in Holding /\ mine[h] = c

(***************************************************************************)
(* After a Reconnect the map has a connection, unless Close has emptied it:  *)
(* nobody else removes one, so only Close makes the retry fail on nil.       *)
(***************************************************************************)
RetryFindsConnection ==
  (\E h \in Callers : at[h] = "crashed") => \E h \in Closers : at[h] # "close"
=============================================================================

---------------------------- MODULE McpHandshake ----------------------------
(***************************************************************************)
(* The repository's MCP client talking to its own MCP server: connectStdio, *)
(* ListTools and CallTool over a pair of pipes to SdkServer.HandleRequest,  *)
(* whose host feeds it lines and writes what it returns, while it registers *)
(* and removes the tool that is called.                                     *)
(***************************************************************************)
EXTENDS Naturals, Sequences, FiniteSetsExt

CONSTANT MaxRequests   \* bound: requests of the client

Methods == <<"initialize", "tools/list", "tools/call">>
NoId    == 0

VARIABLES
  glue,                 \* the host writes "all" answers, or those with an ID
  registered,           \* the server has the tool
  requests, answers,    \* the lines in the two pipes
  handling,             \* the call whose handler runs, NoId for none
  nextId,               \* Connection.nextID
  at,                   \* the client
  taken                 \* history: the answers it took, in order

vars == <<glue, registered, requests, answers, handling, nextId, at, taken>>

Init ==
  /\ glue \in {"all", "withId"} /\ registered = TRUE
  /\ requests = <<>> /\ answers = <<>> /\ handling = NoId
  /\ nextId = 0 /\ at = "idle" /\ taken = <<>>

-----------------------------------------------------------------------------
(* The client.  Each request waits for one line; the answer to initialize   *)
(* is followed by a notification, which waits for none.                     *)
MethodOf(id) == Methods[Min({id, 3})]

Send ==
  /\ at = "idle" /\ nextId < MaxRequests
  /\ nextId' = nextId + 1
  /\ requests' = Append(requests, [id |-> nextId', method |-> MethodOf(nextId')])
  /\ at' = "waits"
  /\ UNCHANGED <<glue, registered, answers, handling, taken>>

\* Nothing compares the ID of the answer with that of the request.  An error
\* ends connectStdio and ListTools, which clean the connection up.
Receive ==
  /\ at = "waits" /\ answers # <<>>
  /\ LET a == Head(answers)
     IN /\ taken' = Append(taken, a.id)
        /\ at' = CASE ~a.ok /\ nextId < 3 -> "closed"
                   [] a.ok /\ nextId = 1  -> "connected"
                   [] OTHER               -> "idle"
  /\ answers' = Tail(answers)
  /\ UNCHANGED <<glue, registered, requests, handling, nextId>>

SendNotification ==
  /\ at = "connected"
  /\ requests' = Append(requests, [id |-> NoId, method |-> "notifications/initialized"])
  /\ at' = "idle"
  /\ UNCHANGED <<glue, registered, answers, handling, nextId, taken>>

-----------------------------------------------------------------------------
(* The server                                                               *)
Answer(id, ok)  == [id |-> id, ok |-> ok]
Writes(a) == answers' = IF glue = "all" \/ a.id # NoId THEN Append(answers, a)
                                                       ELSE answers

\* A call runs its handler outside the lock; an unknown method is an error,
\* also in a notification, whose answer has no ID.
HandleRequest ==
  /\ requests # <<>> /\ handling = NoId
  /\ LET r == Head(requests)
     IN IF r.method = "tools/call" /\ registered
        THEN handling' = r.id /\ UNCHANGED answers
        ELSE /\ Writes(Answer(r.id, r.method \in {"initialize", "tools/list"}))
             /\ UNCHANGED handling
  /\ requests' = Tail(requests)
  /\ UNCHANGED <<glue, registered, nextId, at, taken>>

\* The handler's failure is a result with IsError, not an error.
HandlerReturns ==
  /\ handling # NoId
  /\ Writes(Answer(handling, TRUE))
  /\ handling' = NoId
  /\ UNCHANGED <<glue, registered, requests, nextId, at, taken>>

RegisterOrRemoveTool ==
  /\ registered' = ~registered
  /\ UNCHANGED <<glue, requests, answers, handling, nextId, at, taken>>

Next == Send \/ Receive \/ SendNotification
        \/ HandleRequest \/ HandlerReturns \/ RegisterOrRemoveTool

Spec == Init /\ [][Next]_vars

-----------------------------------------------------------------------------
(***************************************************************************)
(* The client compares no IDs, yet takes the answers to its own requests:   *)
(* one at a time is outstanding, whatever tools come and go.  A host that   *)
(* writes every answer HandleRequest returns also answers the notification  *)
(* of connectStdio, with an error that ListTools takes for its own: then    *)
(* the connection is cleaned up, before a call can take a wrong answer.     *)
(***************************************************************************)
CallsTakeOwnAnswers ==
  /\ \A i \in DOMAIN taken : taken[i] = i \/ (i = 2 /\ glue = "all" /\ at = "closed")
  /\ Len(requests) + Len(answers) <= 2
=============================================================================

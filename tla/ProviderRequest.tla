--------------------------- MODULE ProviderRequest ---------------------------
(***************************************************************************)
(* The history of a conversation and the request each turn makes of it:     *)
(* what runLoop appends, what buildAPIMessages sends to the Messages API    *)
(* and what convertToOpenAIRequest makes of that.  A host that uses an      *)
(* api.Client itself sends its history as it is, and appends the messages   *)
(* CreateMessage returns.  A text, an image or a tool call is its number.   *)
(***************************************************************************)
EXTENDS Naturals, Sequences, Functions

CONSTANTS MaxMessages,  \* bound: messages in the history
          MaxParts      \* bound: blocks of a response

VARIABLES
  keeper,       \* who keeps the history: a Session, or the host
  history,      \* Session.messages
  step,         \* "idle", "asking", "answered": a turn of the Run
  parts,        \* blocks so far, to number them
  said,         \* history: what an OpenAI service has answered the host
  unanswered    \* history: calls of Runs that ended before their results

vars == <<keeper, history, step, parts, said, unanswered>>

Init ==
  /\ keeper \in {"session", "host"} /\ history = <<>> /\ step = "idle"
  /\ parts = 0 /\ said = <<>> /\ unanswered = {}

Block(type, id, input) == [type |-> type, id |-> id, input |-> input]
Ids(content)           == [i \in DOMAIN content |-> content[i].id]

\* What a loop over s appends to an empty slice at the chosen places.
Selected(s, chosen) ==
  LET slice[k \in 0 .. Len(s)] ==
        IF k = 0 THEN <<>>
        ELSE IF k \in chosen THEN Append(slice[k - 1], s[k]) ELSE slice[k - 1]
  IN  slice[Len(s)]

OfType(content, type) == Selected(content, {i \in DOMAIN content : content[i].type = type})

-----------------------------------------------------------------------------
(***************************************************************************)
(* The conversions                                                         *)
(***************************************************************************)
\* Inputs and arguments: an "object", none ("nil" or "null"), or "junk" that does
\* not parse.  A tool call without input gets an empty object.
Normalized(b) == IF b.type = "tool_use" /\ b.input = "nil" THEN [b EXCEPT !.input = "object"] ELSE b

buildAPIMessages(messages) ==
  [i \in DOMAIN messages |->
     [role    |-> messages[i].role,
      content |-> [j \in DOMAIN messages[i].content |-> Normalized(messages[i].content[j])]]]

OpenAI(role, text, calls, answers) ==
  [role |-> role, text |-> text, calls |-> calls, answers |-> answers]

\* json.Marshal of a nil map is "null".
ToolCall(b) == [id |-> b.id, arguments |-> IF b.input = "nil" THEN "null" ELSE b.input]

\* A fault: a wrong version of the definition below, which no action uses.
FirstResultOnly(content) ==
  SubSeq([i \in DOMAIN content |-> OpenAI("tool", <<>>, <<>>, content[i].id)], 1, 1)

\* Texts first, then a message for each result; thinking and images go.
UserToOpenAI(content) ==
  LET texts   == OfType(content, "text")
      results == OfType(content, "tool_result")
  IN  (IF texts = <<>> THEN <<>> ELSE <<OpenAI("user", Ids(texts), <<>>, 0)>>)
      \o [i \in DOMAIN results |-> OpenAI("tool", <<>>, <<>>, results[i].id)]

AssistantToOpenAI(content) ==
  LET uses == OfType(content, "tool_use")
  IN  <<OpenAI("assistant", Ids(OfType(content, "text")),
               [i \in DOMAIN uses |-> ToolCall(uses[i])], 0)>>

convertMessageToOpenAI(m) ==
  IF m.role = "user" THEN UserToOpenAI(m.content) ELSE AssistantToOpenAI(m.content)

convertToOpenAIRequest(messages) ==
  LET request[k \in 0 .. Len(messages)] ==
        IF k = 0 THEN <<OpenAI("system", <<>>, <<>>, 0)>>
        ELSE request[k - 1] \o convertMessageToOpenAI(messages[k])
  IN  request[Len(messages)]

\* Arguments that are no JSON object leave the input nil.
convertOpenAIResponse(m) ==
  [i \in DOMAIN m.text |-> Block("text", m.text[i], "none")]
  \o [i \in DOMAIN m.calls |->
        Block("tool_use", m.calls[i].id,
              IF m.calls[i].arguments = "object" THEN "object" ELSE "nil")]

Request == convertToOpenAIRequest(IF keeper = "session" THEN buildAPIMessages(history)
                                                        ELSE history)

-----------------------------------------------------------------------------
(***************************************************************************)
(* The turns                                                               *)
(***************************************************************************)
appendMessage(role, content) ==
  /\ Len(history) < MaxMessages
  /\ history' = Append(history, [role |-> role, content |-> content])

\* A Run's prompt is a text; a host may send an image.
Prompt(type) ==
  /\ step = "idle" /\ (keeper = "session" => type = "text")
  /\ appendMessage("user", <<Block(type, parts + 1, "none")>>)
  /\ parts' = parts + 1
  /\ step' = "asking"
  /\ UNCHANGED <<keeper, said, unanswered>>

\* What readStream has accumulated; a tool whose input did not parse has none.
StreamedAnswer(types, input) ==
  /\ step = "asking" /\ keeper = "session"
  /\ appendMessage("assistant", [i \in DOMAIN types |->
       Block(types[i], parts + i, IF types[i] = "tool_use" THEN input ELSE "none")])
  /\ parts' = parts + Len(types)
  /\ step' = IF "tool_use" \in Range(types) THEN "answered" ELSE "idle"
  /\ UNCHANGED <<keeper, said, unanswered>>

\* The answer of CreateMessage; without a choice it is nil, and not appended.
ReceivedAnswer(texts, calls, arguments) ==
  LET m == OpenAI("assistant", [i \in 1 .. texts |-> parts + i],
                  [i \in 1 .. calls |-> [id |-> parts + texts + i, arguments |-> arguments]], 0)
  IN /\ step = "asking" /\ keeper = "host"
     /\ appendMessage("assistant", convertOpenAIResponse(m))
     /\ said' = Append(said, m)
     /\ parts' = parts + texts + calls
     /\ step' = IF calls > 0 THEN "answered" ELSE "idle"
     /\ UNCHANGED <<keeper, unanswered>>

\* RunTools returns one result for each call, in order; the next turn asks.
Results ==
  LET uses == OfType(history[Len(history)].content, "tool_use")
  IN /\ step = "answered"
     /\ appendMessage("user", [i \in DOMAIN uses |-> Block("tool_result", uses[i].id, "none")])
     /\ step' = "asking"
     /\ UNCHANGED <<keeper, parts, said, unanswered>>

\* The Run ends: an error of the provider, no more turns, its cancellation or
\* its budget, with tools still to be run or not.
RunEnds ==
  /\ step \in {"asking", "answered"}
  /\ LET uses == OfType(history[Len(history)].content, "tool_use")
     IN unanswered' = IF step = "asking" THEN unanswered ELSE unanswered \cup Range(Ids(uses))
  /\ step' = "idle"
  /\ UNCHANGED <<keeper, history, parts, said>>

\* Session.Clear; a new host conversation.
Clear ==
  /\ step = "idle"
  /\ history' = <<>> /\ parts' = 0 /\ said' = <<>> /\ unanswered' = {}
  /\ UNCHANGED <<keeper, step>>

Next ==
  \/ \E type \in {"text", "image"} : Prompt(type)
  \/ \E types \in UNION {[1 .. n -> {"text", "thinking", "tool_use"}] : n \in 0 .. MaxParts},
       input \in {"object", "nil"} : StreamedAnswer(types, input)
  \/ \E texts \in 0 .. 1, calls \in 0 .. MaxParts - 1, arguments \in {"object", "junk"} :
       ReceivedAnswer(texts, calls, arguments)
  \/ Results \/ RunEnds \/ Clear

Spec == Init /\ [][Next]_vars

-----------------------------------------------------------------------------
(***************************************************************************)
(* In a request every tool call is followed directly by its answers in its  *)
(* order, and nothing else is an answer: a provider refuses any other.  The *)
(* exceptions are the calls of Runs that ended before their results; the    *)
(* next Run of the Session sends those again.                               *)
(***************************************************************************)
CallsAnswered ==
  step = "asking" =>
    LET answered == {i \in DOMAIN Request : \E k \in DOMAIN Request[i].calls :
                                              Request[i].calls[k].id \notin unanswered}
        after(i) == {i + k : k \in DOMAIN Request[i].calls}
    IN  /\ \A i \in answered : \A k \in DOMAIN Request[i].calls :
             /\ i + k \in DOMAIN Request
             /\ Request[i + k].answers = Request[i].calls[k].id
        /\ {i \in DOMAIN Request : Request[i].role = "tool"} = UNION {after(i) : i \in answered}

\* An answer as it is sent back: arguments that did not parse are lost.
Sent(m) ==
  OpenAI(m.role, m.text,
         [k \in DOMAIN m.calls |->
            [id |-> m.calls[k].id,
             arguments |-> IF m.calls[k].arguments = "junk" THEN "null" ELSE m.calls[k].arguments]],
         m.answers)

(***************************************************************************)
(* What a service answered through CreateMessage is what it is sent back,   *)
(* and no call of a Session is sent without arguments.                      *)
(***************************************************************************)
AnswersSentBack ==
  step = "asking" =>
    IF keeper = "host"
    THEN Selected(Request, {i \in DOMAIN Request : Request[i].role = "assistant"})
           = [i \in DOMAIN said |-> Sent(said[i])]
    ELSE \A i \in DOMAIN Request : \A k \in DOMAIN Request[i].calls :
           Request[i].calls[k].arguments # "null"
=============================================================================

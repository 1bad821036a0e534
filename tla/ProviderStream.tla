--------------------------- MODULE ProviderStream ---------------------------
(***************************************************************************)
(* One request to a provider (api/client.go, api/openai.go): the producer  *)
(* goroutine of CreateMessageStream with its retries, the two channels, and *)
(* the reader of the agentic loop (readStream, processStreamEvent), or the *)
(* single call CreateMessage.                                              *)
(*                                                                         *)
(* The server answers with content blocks, each sent in fragments; said is *)
(* what it has sent.  A fragment is the number of the block it belongs to, *)
(* so that the text a block accumulates tells where every piece came from. *)
(***************************************************************************)
EXTENDS Integers, Sequences, FiniteSets

CONSTANTS
  Cap,         \* capacity of eventCh (64 in the code)
  MaxRetries,  \* maxRetries
  MaxBlocks,   \* bound: content blocks in a response
  MaxFrags     \* bound: fragments of a block

VARIABLES
  provider,      \* Client.config.Provider
  streaming,     \* CreateMessageStream, or CreateMessage
  said, saidAll, \* the server: its blocks so far, and whether it is finished
  pc, attempt,   \* the producer (CreateMessage runs it in its caller)
  outbox,        \* events converted from the last chunk, still to be sent
  textOpen,      \* createOpenAIStream: textBlockStarted
  failed,        \* what the producer has reported, or will
  eventCh, eventsClosed,
  errCh, errsClosed,
  ctxDone,       \* the attempt's context
  errs,          \* readStream: errs is not nil yet
  verdict,       \* what the reader has returned, "none" before
  msg,           \* assistantMsg.Content
  blocks         \* toolUseBlocks: the input of each, by the number of its block

serverVars   == <<said, saidAll>>
producerVars == <<pc, attempt, outbox, textOpen, failed>>
channelVars  == <<eventCh, eventsClosed, errCh, errsClosed>>
readerVars   == <<errs, verdict, msg, blocks>>
vars == <<provider, streaming, serverVars, producerVars, channelVars, ctxDone,
          readerVars>>

NoInput == <<>>

\* detectProvider, by what of the base URL, the key and the model name is a
\* sign of an OpenAI-compatible service.
detectProvider(signs) == IF signs = {} THEN "anthropic" ELSE "openai"

\* The configuration names its provider, or NewClient detects it.
Init ==
  /\ provider \in {"anthropic", "openai"} \cup
                  {detectProvider(signs) : signs \in SUBSET {"url", "key", "model"}}
  /\ streaming \in BOOLEAN
  /\ said = <<>> /\ saidAll = FALSE
  /\ pc = "request" /\ attempt = 0 /\ outbox = <<>> /\ textOpen = FALSE
  /\ failed = "none"
  /\ eventCh = <<>> /\ eventsClosed = FALSE
  /\ errCh = <<>> /\ errsClosed = FALSE
  /\ ctxDone = FALSE
  /\ errs = TRUE /\ verdict = "none" /\ msg = <<>> /\ blocks = <<>>

-----------------------------------------------------------------------------
(***************************************************************************)
(* Faults: wrong versions of guards and effects below; no action uses one. *)
(***************************************************************************)
IgnoresContext  == FALSE
ForgetsPending  == "ok"
IgnoresIndex(e) == 1

-----------------------------------------------------------------------------
(***************************************************************************)
(* The request and its retries                                             *)
(***************************************************************************)
\* The producer reports an error and closes its channels; CreateMessage returns.
Report(e) ==
  /\ failed' = e
  /\ pc' = "reporting"
  /\ UNCHANGED <<attempt, outbox, textOpen>>

\* Only the Messages API is retried.
Retries == provider = "anthropic" /\ attempt < MaxRetries

\* HTTPClient.Do fails, and not for the context: isRetryableError, or not.
\* Otherwise the status is 429, 529 or 5xx, which is retried too, or another.
RequestFails ==
  /\ pc = "request"
  /\ \/ Retries /\ pc' = "backoff" /\ UNCHANGED <<attempt, outbox, textOpen, failed>>
     \/ Report("error")
  /\ UNCHANGED <<provider, streaming, serverVars, channelVars, ctxDone, readerVars>>

RequestCancelled ==
  /\ pc = "request" /\ ctxDone
  /\ Report("error")
  /\ UNCHANGED <<provider, streaming, serverVars, channelVars, ctxDone, readerVars>>

\* Status 200.  createOpenAIStream announces the message first.
RequestSucceeds ==
  /\ pc = "request"
  /\ pc' = IF streaming THEN "scan" ELSE "body"
  /\ outbox' = IF streaming /\ provider = "openai"
               THEN <<[type |-> "message_start"]>> ELSE <<>>
  /\ UNCHANGED <<provider, streaming, serverVars, attempt, textOpen, failed,
                 channelVars, ctxDone, readerVars>>

BackoffElapses ==
  /\ pc = "backoff"
  /\ pc' = "request" /\ attempt' = attempt + 1
  /\ UNCHANGED <<provider, streaming, serverVars, outbox, textOpen, failed,
                 channelVars, ctxDone, readerVars>>

\* CreateMessage sleeps, whatever its context.
BackoffCancelled ==
  /\ pc = "backoff" /\ ctxDone /\ streaming
  /\ Report("ctx")
  /\ UNCHANGED <<provider, streaming, serverVars, channelVars, ctxDone, readerVars>>

\* CreateMessage reads and decodes the whole body, or fails to.
BodyRead ==
  /\ pc = "body"
  /\ \/ pc' = "ended" /\ verdict' = "ok" /\ UNCHANGED failed
     \/ pc' = "reporting" /\ failed' = "error" /\ UNCHANGED verdict
  /\ UNCHANGED <<provider, streaming, serverVars, attempt, outbox, textOpen,
                 channelVars, ctxDone, errs, msg, blocks>>

-----------------------------------------------------------------------------
(***************************************************************************)
(* What the server sends, and the events the producer makes of it          *)
(***************************************************************************)
Start(b, i)    == [type |-> "start", index |-> i, block |-> b]
Delta(b, i)    == [type |-> "delta", index |-> i, block |-> b]
Stop(i)        == [type |-> "stop", index |-> i]
Opened         == Len(said)
IsTool(b)      == said[b].tool
Scanning       == pc = "scan" /\ outbox = <<>> /\ ~saidAll

\* The Messages API numbers its blocks, and its events are passed on as they are.
Numbered(b)    == b - 1

\* createOpenAIStream numbers none of its events, so that every index is 0.
Unnumbered(b)  == 0
IndexOf(b)     == IF provider = "openai" THEN Unnumbered(b) ELSE Numbered(b)

\* A new block; a tool call ends an open text block of createOpenAIStream.  The
\* Messages API ends the block before (here, in the same step).
ServerOpens(tool) ==
  /\ Scanning /\ Opened < MaxBlocks
  /\ provider = "openai" => tool \/ ~textOpen
  /\ LET b == Opened + 1
         closes == IF provider = "openai" THEN textOpen ELSE Opened > 0
     IN /\ said' = Append(said, [tool |-> tool, frags |-> IF tool THEN 0 ELSE 1])
        /\ outbox' = (IF closes THEN <<Stop(IndexOf(Opened))>> ELSE <<>>)
                       \o <<Start([tool |-> tool, number |-> b], IndexOf(b))>>
                       \o (IF tool THEN <<>> ELSE <<Delta(b, IndexOf(b))>>)
        /\ textOpen' = (provider = "openai" /\ ~tool)
  /\ UNCHANGED <<provider, streaming, saidAll, pc, attempt, failed, channelVars,
                 ctxDone, readerVars>>

\* One more fragment of the last block: text, or part of a tool's input.
ServerContinues ==
  /\ Scanning /\ Opened > 0 /\ said[Opened].frags < MaxFrags
  /\ said' = [said EXCEPT ![Opened].frags = @ + 1]
  /\ outbox' = <<Delta(Opened, IndexOf(Opened))>>
  /\ UNCHANGED <<provider, streaming, saidAll, pc, attempt, textOpen, failed,
                 channelVars, ctxDone, readerVars>>

\* content_block_stop of the last block and message_delta, or finish_reason:
\* createOpenAIStream then stops the text block and every tool call.
ToolCalls == Cardinality({b \in 1 .. Opened : IsTool(b)})
ServerFinishes ==
  /\ Scanning /\ Opened > 0
  /\ saidAll' = TRUE
  /\ outbox' = IF provider = "anthropic" THEN <<Stop(IndexOf(Opened))>>
               ELSE (IF textOpen THEN <<Stop(0)>> ELSE <<>>)
                      \o [k \in 1 .. ToolCalls |-> Stop(0)]
  /\ UNCHANGED <<provider, streaming, said, pc, attempt, textOpen, failed,
                 channelVars, ctxDone, readerVars>>

\* The scanner stops: [DONE], the end of the body, or an error reading it, which
\* only the Messages client looks for.
ScanEnds ==
  /\ pc = "scan" /\ outbox = <<>>
  /\ IF provider = "openai"
     THEN /\ outbox' = <<[type |-> "message_stop"]>> /\ pc' = "lastSend"
          /\ UNCHANGED failed
     ELSE /\ UNCHANGED outbox
          /\ \/ pc' = "closeErrs" /\ UNCHANGED failed
             \/ pc' = "reporting" /\ failed' = "error"
  /\ UNCHANGED <<provider, streaming, serverVars, attempt, textOpen, channelVars,
                 ctxDone, readerVars>>

\* eventCh <- event.
SendEvent ==
  /\ pc \in {"scan", "lastSend"} /\ outbox # <<>> /\ Len(eventCh) < Cap
  /\ eventCh' = Append(eventCh, Head(outbox)) /\ outbox' = Tail(outbox)
  /\ pc' = IF pc = "lastSend" THEN "closeErrs" ELSE pc
  /\ UNCHANGED <<provider, streaming, serverVars, attempt, textOpen, failed,
                 eventsClosed, errCh, errsClosed, ctxDone, readerVars>>

\* The other branch of the Messages client's select.
ContextSeen == ctxDone /\ provider = "anthropic"
SendCancelled ==
  /\ pc = "scan" /\ outbox # <<>> /\ ContextSeen
  /\ Report("ctx")
  /\ UNCHANGED <<provider, streaming, serverVars, channelVars, ctxDone, readerVars>>

\* errCh <- err, which has room; CreateMessage returns it.
SendError ==
  /\ pc = "reporting"
  /\ IF streaming THEN /\ errCh' = <<failed>> /\ pc' = "closeErrs"
                       /\ UNCHANGED verdict
     ELSE /\ verdict' = failed /\ pc' = "ended" /\ UNCHANGED errCh
  /\ UNCHANGED <<provider, streaming, serverVars, attempt, outbox, textOpen, failed,
                 eventCh, eventsClosed, errsClosed, ctxDone, errs, msg, blocks>>

\* The deferred closes run last to first: errCh before eventCh.
CloseErrs ==
  /\ pc = "closeErrs"
  /\ errsClosed' = TRUE /\ pc' = "closeEvents"
  /\ UNCHANGED <<provider, streaming, serverVars, attempt, outbox, textOpen, failed,
                 eventCh, eventsClosed, errCh, ctxDone, readerVars>>

CloseEvents ==
  /\ pc = "closeEvents"
  /\ eventsClosed' = TRUE /\ pc' = "ended"
  /\ UNCHANGED <<provider, streaming, serverVars, attempt, outbox, textOpen, failed,
                 eventCh, errCh, errsClosed, ctxDone, readerVars>>

-----------------------------------------------------------------------------
(***************************************************************************)
(* readStream                                                              *)
(***************************************************************************)
\* The position in msg.Content an event is for.
Position(e) == e.index + 1
\* parseJSON accepts the text of a tool block if it is all of one tool's input.
Parses(text) ==
  text # <<>> /\ IsTool(text[1])
    /\ text = [k \in 1 .. said[text[1]].frags |-> text[1]]

\* processStreamEvent.  The text of a block is the list of its fragments.
processStreamEvent(e) ==
  CASE e.type = "start" ->
         /\ msg' = Append(msg, [tool |-> e.block.tool, number |-> e.block.number,
                                text |-> <<>>])
         /\ blocks' = IF e.block.tool
                      THEN Append(blocks, [number |-> e.block.number,
                                           input |-> NoInput])
                      ELSE blocks
    [] e.type = "delta" /\ Position(e) <= Len(msg) ->
         msg' = [msg EXCEPT ![Position(e)].text = Append(@, e.block)]
           /\ UNCHANGED blocks
    [] e.type = "stop" /\ Position(e) <= Len(msg)
         /\ msg[Position(e)].tool /\ Parses(msg[Position(e)].text) ->
         LET m == msg[Position(e)] IN
         /\ msg' = [msg EXCEPT ![Position(e)].text = <<>>]
         /\ blocks' = [k \in DOMAIN blocks |->
                         IF blocks[k].number = m.number
                         THEN [blocks[k] EXCEPT !.input = m.text] ELSE blocks[k]]
    [] OTHER -> UNCHANGED <<msg, blocks>>

Reading == streaming /\ verdict = "none"

ReadEvent ==
  /\ Reading /\ eventCh # <<>>
  /\ processStreamEvent(Head(eventCh)) /\ eventCh' = Tail(eventCh)
  /\ UNCHANGED <<provider, streaming, serverVars, producerVars, eventsClosed, errCh,
                 errsClosed, ctxDone, errs, verdict>>

\* return runs the deferred cancel of the attempt's context.
ReturnWith(v) == verdict' = v /\ ctxDone' = TRUE /\ UNCHANGED <<msg, blocks>>

\* errs: an error ends the attempt, a closed channel is not selected again.
ReadError ==
  /\ Reading /\ errs
  /\ \/ /\ errCh # <<>> /\ ReturnWith(errCh[1]) /\ errCh' = <<>>
        /\ UNCHANGED errs
     \/ /\ errCh = <<>> /\ errsClosed /\ errs' = FALSE
        /\ UNCHANGED <<errCh, ctxDone, verdict, msg, blocks>>
  /\ UNCHANGED <<provider, streaming, serverVars, producerVars, eventCh,
                 eventsClosed, errsClosed>>

\* events is closed: an error already published is read first.
AtClose == IF errs /\ errCh # <<>> THEN errCh[1]
           ELSE IF ctxDone /\ ~(errs /\ errsClosed) THEN "ctx" ELSE "ok"
ReadClosed ==
  /\ Reading /\ eventCh = <<>> /\ eventsClosed
  /\ ReturnWith(AtClose)
  /\ UNCHANGED <<provider, streaming, serverVars, producerVars, channelVars, errs>>

ReadCancelled ==
  /\ Reading /\ ctxDone
  /\ ReturnWith("ctx")
  /\ UNCHANGED <<provider, streaming, serverVars, producerVars, channelVars, errs>>

\* The host cancels the Run.
Cancel ==
  /\ ~ctxDone /\ ctxDone' = TRUE
  /\ UNCHANGED <<provider, streaming, serverVars, producerVars, channelVars,
                 readerVars>>

-----------------------------------------------------------------------------
Server == ServerContinues \/ ServerFinishes \/ \E tool \in BOOLEAN : ServerOpens(tool)

\* The producer's own steps, and those in which it waits for the server.
Waits == RequestFails \/ RequestSucceeds \/ ScanEnds \/ BodyRead \/ Server
Steps == \/ RequestCancelled \/ BackoffElapses \/ BackoffCancelled
         \/ SendEvent \/ SendCancelled \/ SendError \/ CloseErrs \/ CloseEvents

readStream == ReadEvent \/ ReadError \/ ReadClosed \/ ReadCancelled

Next == Waits \/ Steps \/ readStream \/ Cancel

\* A server may be silent for ever, but a done context ends every exchange.
Fairness == WF_vars(Steps) /\ WF_vars(ctxDone /\ Waits) /\ WF_vars(readStream)

Spec == Init /\ [][Next]_vars /\ Fairness

-----------------------------------------------------------------------------
(***************************************************************************)
(* Properties                                                              *)
(***************************************************************************)
\* No error of the producer is lost between the two channels: an attempt that
\* readStream takes for complete is one in which nothing failed, however the
\* select interleaves events, the error and the two closes.  The OpenAI producer
\* never reports that its scanner failed: that is an end, and no failure, here.
ErrorsReported == verdict = "ok" => failed = "none"

\* What an accepted response says is in the assistant's message, each text in its
\* block, and each tool has the input the server sent for it.
WholeBlock(b) == [k \in 1 .. said[b].frags |-> b]
MessageIsWhole ==
  /\ Len(msg) = Len(said)
  /\ \A b \in DOMAIN said :
       IF IsTool(b)
       THEN \E k \in DOMAIN blocks : blocks[k] = [number |-> b, input |-> WholeBlock(b)]
       ELSE msg[b].text = WholeBlock(b)
Accepted == streaming /\ verdict = "ok" /\ saidAll

\* ... for every response of the Messages API, and of the OpenAI adapter those of
\* a single block.
AcceptedIsWhole ==
  Accepted /\ (provider = "openai" => Len(said) = 1) => MessageIsWhole

\* "We'll parse the full input when the block stops" (processStreamEvent): every
\* accepted response gives its tools their inputs, whoever the provider is.
EveryProviderWhole == Accepted => MessageIsWhole

\* "Each provider attempt has a child context so fallback/early exit cancels the
\* preceding producer" (readStream): no producer goroutine stays behind.
Left == streaming /\ verdict # "none"
ProducerEnds == provider = "anthropic" => (Left ~> pc = "ended")
=============================================================================

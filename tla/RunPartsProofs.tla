--------------------------- MODULE RunPartsProofs ---------------------------
(***************************************************************************)
(* Proofs about what a Run is made of, as parts of Services: its loop, the  *)
(* admission of its tool calls, the commands, edits, stores and MCP         *)
(* connections of its tools, and the stream of a provider, for every value  *)
(* of the constants.  The invariant of a part is over its own variables,    *)
(* which no other part touches.                                             *)
(***************************************************************************)
EXTENDS Services, SequenceTheorems, FiniteSetTheorems, TLAPS

-----------------------------------------------------------------------------
LEMMA ProviderStep == [Next]_vars => Provider!Next \/ UNCHANGED providerVars
<1>1. \A s : Only(s) /\ s # "provider" => UNCHANGED providerVars
    BY DEF Only
<1> QED BY <1>1 DEF Next, vars

-----------------------------------------------------------------------------
(***************************************************************************)
(* ProviderStream: the report of an error                                  *)
(***************************************************************************)
ProducerPlaces == {"request", "backoff", "scan", "body", "lastSend", "reporting",
                   "closeErrs", "closeEvents", "ended"}
Closing == {"closeErrs", "closeEvents", "ended"}

ReportTypes ==
  /\ streaming \in BOOLEAN /\ errs \in BOOLEAN
  /\ eventsClosed \in BOOLEAN /\ errsClosed \in BOOLEAN
  /\ producerPc \in ProducerPlaces
  /\ failed \in {"none", "error", "ctx"}
  /\ verdict \in {"none", "ok", "error", "ctx"}

\* What failed is reported once, before the channels close, errors first; it
\* stays in its channel until the reader takes it for its verdict.
ReportInv ==
  /\ failed # "none" => producerPc \in Closing \cup {"reporting"}
  /\ producerPc = "reporting" => failed # "none"
  /\ errsClosed => producerPc \in {"closeEvents", "ended"}
  /\ eventsClosed => producerPc = "ended"
  /\ errCh = <<>> \/ (errCh = <<failed>> /\ failed # "none")
  /\ ~errs => errsClosed
  /\ streaming /\ verdict = "none" /\ failed # "none" /\ producerPc \in Closing
       => errCh = <<failed>> /\ errs
  /\ verdict = "ok" => producerPc = "ended" /\ failed = "none"

ErrorInv == ReportTypes /\ ReportInv

\* What these invariants read.
reportVars == <<streaming, producerPc, failed, eventsClosed, errCh, errsClosed, errs,
                verdict>>

LEMMA ErrorInit == Init => ErrorInv
  BY DEF Init, Provider!Init, ErrorInv, ReportTypes, ReportInv, ProducerPlaces

LEMMA ErrorKept == ErrorInv /\ UNCHANGED reportVars => ErrorInv'
  BY DEF ErrorInv, ReportTypes, ReportInv, reportVars

\* The steps that report nothing and close nothing.
LEMMA ErrorFrames ==
  ASSUME Provider!Server \/ Provider!ReadEvent \/ Provider!Cancel
  PROVE  UNCHANGED reportVars
<1> USE DEF reportVars, Provider!channelVars, Provider!readerVars, Provider!producerVars
<1>1. CASE Provider!ServerContinues \/ Provider!ServerFinishes
    BY <1>1 DEF Provider!ServerContinues, Provider!ServerFinishes
<1>2. ASSUME NEW tool_ \in BOOLEAN, Provider!ServerOpens(tool_)
      PROVE  UNCHANGED reportVars
    BY <1>2 DEF Provider!ServerOpens
<1>3. CASE Provider!ReadEvent
    BY <1>3 DEF Provider!ReadEvent
<1>4. CASE Provider!Cancel
    BY <1>4 DEF Provider!Cancel
<1> QED BY <1>1, <1>2, <1>3, <1>4 DEF Provider!Server

LEMMA ErrorCorrect ==
  ASSUME ErrorInv, Provider!Next \/ UNCHANGED providerVars
  PROVE  ErrorInv'
<1> USE DEF Provider!channelVars, Provider!readerVars, Provider!producerVars,
            Provider!Report, ProducerPlaces, Closing
<1>1. CASE UNCHANGED reportVars
    BY <1>1, ErrorKept
<1>2. CASE Provider!RequestFails \/ Provider!RequestCancelled
    BY <1>2 DEF Provider!RequestFails, Provider!RequestCancelled, ErrorInv, ReportTypes, ReportInv
<1>3. CASE Provider!RequestSucceeds \/ Provider!BackoffElapses
    BY <1>3 DEF Provider!RequestSucceeds, Provider!BackoffElapses, ErrorInv, ReportTypes, ReportInv
<1>4. CASE Provider!BackoffCancelled \/ Provider!SendCancelled
    BY <1>4 DEF Provider!BackoffCancelled, Provider!SendCancelled, ErrorInv, ReportTypes, ReportInv
<1>5. CASE Provider!BodyRead
    BY <1>5 DEF Provider!BodyRead, ErrorInv, ReportTypes, ReportInv
<1>6. CASE Provider!ScanEnds
    BY <1>6 DEF Provider!ScanEnds, ErrorInv, ReportTypes, ReportInv
<1>7. CASE Provider!SendEvent
    BY <1>7 DEF Provider!SendEvent, ErrorInv, ReportTypes, ReportInv
<1>8. CASE Provider!SendError
    BY <1>8 DEF Provider!SendError, ErrorInv, ReportTypes, ReportInv
<1>9. CASE Provider!CloseErrs
    BY <1>9 DEF Provider!CloseErrs, ErrorInv, ReportTypes, ReportInv
<1>14. CASE Provider!CloseEvents
    BY <1>14 DEF Provider!CloseEvents, ErrorInv, ReportTypes, ReportInv
<1>10. CASE Provider!ReadError
  <2> USE <1>10 DEF Provider!ReadError, Provider!Reading, Provider!ReturnWith
  <2>1. CASE errCh # <<>> /\ verdict' = errCh[1] /\ errCh' = <<>> /\ errs' = errs
    <3>1. verdict' = failed /\ failed # "none"
        BY <2>1 DEF ErrorInv, ReportInv
    <3> QED BY <2>1, <3>1 DEF ErrorInv, ReportTypes, ReportInv
  <2>2. CASE errCh = <<>> /\ errsClosed /\ errs' = FALSE /\ errCh' = errCh /\ verdict' = verdict
      BY <2>2 DEF ErrorInv, ReportTypes, ReportInv
  <2> QED BY <2>1, <2>2
<1>11. CASE Provider!ReadClosed
    BY <1>11 DEF Provider!ReadClosed, Provider!Reading, Provider!ReturnWith,
                 Provider!AtClose, ErrorInv, ReportTypes, ReportInv
<1>12. CASE Provider!ReadCancelled
    BY <1>12 DEF Provider!ReadCancelled, Provider!Reading, Provider!ReturnWith,
                 ErrorInv, ReportTypes, ReportInv
<1>13. UNCHANGED providerVars => UNCHANGED reportVars
    BY DEF providerVars, reportVars
<1> QED
    BY <1>1, <1>2, <1>3, <1>4, <1>5, <1>6, <1>7, <1>8, <1>9, <1>10, <1>11, <1>12, <1>13,
       <1>14,        ErrorFrames
    DEF Provider!Next, Provider!Waits, Provider!Steps, Provider!readStream

(***************************************************************************)
(* No error of a producer is lost between its two channels, however the     *)
(* reader's select interleaves the events, the error and the two closes     *)
(* (ErrorsReported of ProviderStream).                                      *)
(***************************************************************************)
THEOREM ErrorsCorrect == Spec => []ErrorsReported
<1>1. ErrorInv => ErrorsReported
    BY DEF ErrorInv, ReportInv, ErrorsReported, Provider!ErrorsReported
<1>2. ErrorInv /\ [Next]_vars => ErrorInv'
    BY ProviderStep, ErrorCorrect
<1> QED BY <1>1, <1>2, ErrorInit, PTL DEF Spec

-----------------------------------------------------------------------------
(***************************************************************************)
(* ProviderStream: the message of an accepted response.                     *)
(*                                                                         *)
(* A cursor is a place in the response: how many blocks have begun, how     *)
(* many fragments of the last one have come, and whether that one is        *)
(* stopped.  The reader has one, which msg and blocks show, the server is   *)
(* at the end of what it has said, and the events on their way lead from    *)
(* the one to the other.                                                    *)
(***************************************************************************)
Cursor == [block : Nat, frags : Nat, closed : BOOLEAN]
Spoken == [tool : BOOLEAN, frags : Nat]

\* The event e leads from c to d in the response s, which is finished if all is.
Begins(s, c, e, d) ==
  /\ e.type = "start" /\ e.index = c.block /\ e.block.number = c.block + 1
  /\ c.block < Len(s) /\ e.block.tool = s[c.block + 1].tool
  /\ c.closed \/ c.block = 0
  /\ d = [block |-> c.block + 1, frags |-> 0, closed |-> FALSE]
Extends(c, e, d) ==
  /\ e.type = "delta" /\ e.block = c.block /\ e.index = c.block - 1
  /\ c.block > 0 /\ ~c.closed
  /\ d = [block |-> c.block, frags |-> c.frags + 1, closed |-> FALSE]
Ends(s, all, c, e, d) ==
  /\ e.type = "stop" /\ e.index = c.block - 1
  /\ c.block > 0 /\ ~c.closed /\ c.frags = s[c.block].frags
  /\ c.block < Len(s) \/ (all /\ c.block = Len(s))
  /\ d = [block |-> c.block, frags |-> c.frags, closed |-> TRUE]
Advance(s, all, c, e, d) ==
  \/ e.type \in {"message_start", "message_stop"} /\ d = c
  \/ Begins(s, c, e, d) \/ Extends(c, e, d) \/ Ends(s, all, c, e, d)

Leads(s, all, es, c, d) ==
  \E f \in [0 .. Len(es) -> Cursor] :
    /\ f[0] = c /\ f[Len(es)] = d
    /\ \A i \in 1 .. Len(es) : Advance(s, all, f[i - 1], es[i], f[i])

LEMMA LeadsNowhere ==
  ASSUME NEW s, NEW all, NEW c \in Cursor
  PROVE  Leads(s, all, <<>>, c, c)
<1> DEFINE f == [i \in 0 .. 0 |-> c]
<1>1. Len(<<>>) = 0
    BY EmptySeq
<1>2. f \in [0 .. Len(<<>>) -> Cursor] /\ f[0] = c
    BY <1>1
<1> HIDE DEF f
<1> QED BY <1>1, <1>2 DEF Leads

LEMMA LeadsHere ==
  ASSUME NEW s, NEW all, NEW c, NEW d, Leads(s, all, <<>>, c, d)
  PROVE  c = d
<1>1. Len(<<>>) = 0
    BY EmptySeq
<1> QED BY <1>1 DEF Leads

LEMMA LeadsOne ==
  ASSUME NEW s, NEW all, NEW c \in Cursor, NEW d \in Cursor, NEW e, Advance(s, all, c, e, d)
  PROVE  Leads(s, all, <<e>>, c, d)
<1> DEFINE f == [i \in 0 .. 1 |-> IF i = 0 THEN c ELSE d]
<1>1. Len(<<e>>) = 1 /\ <<e>>[1] = e
    OBVIOUS
<1>2. f \in [0 .. 1 -> Cursor] /\ f[0] = c /\ f[1] = d
    OBVIOUS
<1> HIDE DEF f
<1>3. \A i \in 1 .. 1 : i = 1 /\ i - 1 = 0
    OBVIOUS
<1> QED BY <1>1, <1>2, <1>3 DEF Leads

LEMMA LeadsOver ==
  ASSUME NEW S, NEW es \in Seq(S), NEW w \in Seq(S), NEW s, NEW all, NEW c, NEW d, NEW d2,
         Leads(s, all, es, c, d), Leads(s, all, w, d, d2)
  PROVE  Leads(s, all, es \o w, c, d2)
<1> DEFINE n == Len(es)
           m == Len(w)
<1>1. PICK f \in [0 .. n -> Cursor] :
        /\ f[0] = c /\ f[n] = d
        /\ \A i \in 1 .. n : Advance(s, all, f[i - 1], es[i], f[i])
    BY DEF Leads
<1>2. PICK h \in [0 .. m -> Cursor] :
        /\ h[0] = d /\ h[m] = d2
        /\ \A i \in 1 .. m : Advance(s, all, h[i - 1], w[i], h[i])
    BY DEF Leads
<1>3. /\ n \in Nat /\ m \in Nat /\ Len(es \o w) = n + m
      /\ \A i \in 1 .. n + m : (es \o w)[i] = IF i <= n THEN es[i] ELSE w[i - n]
    BY LenProperties, ConcatProperties
<1> HIDE DEF n, m
<1> DEFINE g == [i \in 0 .. n + m |-> IF i <= n THEN f[i] ELSE h[i - n]]
<1>4. /\ g \in [0 .. n + m -> Cursor]
      /\ \A i \in 0 .. n : g[i] = f[i]
      /\ \A i \in n .. n + m : g[i] = h[i - n]
  <2>1. \A i \in 0 .. n + m : i <= n => i \in 0 .. n /\ f[i] \in Cursor /\ g[i] = f[i]
    <3>1. \A i \in 0 .. n + m : i <= n => i \in 0 .. n
        BY <1>3
    <3> QED BY <3>1
  <2>2. \A i \in n .. n + m : i - n \in 0 .. m /\ h[i - n] \in Cursor
    <3>1. \A i \in n .. n + m : i - n \in 0 .. m
        BY <1>3
    <3> QED BY <3>1
  <2>3. \A i \in n .. n + m : i > n => g[i] = h[i - n]
      BY <1>3
  <2>4. g[n] = h[n - n]
      BY <1>1, <1>2, <1>3, <2>1
  <2> QED BY <1>3, <2>1, <2>2, <2>3, <2>4
<1> HIDE DEF g
<1>5. ASSUME NEW i \in 1 .. n + m
      PROVE  Advance(s, all, g[i - 1], (es \o w)[i], g[i])
  <2>1. CASE i <= n
    <3>1. g[i - 1] = f[i - 1] /\ g[i] = f[i] /\ (es \o w)[i] = es[i] /\ i \in 1 .. n
        BY <1>3, <1>4, <2>1
    <3> QED BY <1>1, <3>1
  <2>2. CASE i > n
    <3>1. /\ g[i - 1] = h[(i - n) - 1] /\ g[i] = h[i - n] /\ (es \o w)[i] = w[i - n]
          /\ i - n \in 1 .. m
        BY <1>3, <1>4, <2>2
    <3> QED BY <1>2, <3>1
  <2> QED BY <1>3, <2>1, <2>2
<1>6. g[0] = c /\ g[n + m] = d2
    BY <1>1, <1>2, <1>3, <1>4
<1> QED BY <1>3, <1>4, <1>5, <1>6 DEF Leads

LEMMA LeadsOff ==
  ASSUME NEW S, NEW es \in Seq(S), es # <<>>, NEW s, NEW all, NEW c, NEW d,
         Leads(s, all, es, c, d)
  PROVE  \E c2 \in Cursor : /\ Advance(s, all, c, Head(es), c2)
                            /\ Leads(s, all, Tail(es), c2, d)
<1> DEFINE n == Len(es)
<1>1. PICK f \in [0 .. n -> Cursor] :
        /\ f[0] = c /\ f[n] = d
        /\ \A i \in 1 .. n : Advance(s, all, f[i - 1], es[i], f[i])
    BY DEF Leads
<1>2. /\ n \in Nat \ {0} /\ Head(es) = es[1] /\ Len(Tail(es)) = n - 1
      /\ \A i \in 1 .. n - 1 : Tail(es)[i] = es[i + 1]
    BY EmptySeq, HeadTailProperties
<1> HIDE DEF n
<1> DEFINE g == [i \in 0 .. n - 1 |-> f[i + 1]]
<1>3. /\ g \in [0 .. n - 1 -> Cursor] /\ \A i \in 0 .. n - 1 : g[i] = f[i + 1]
    BY <1>2
<1> HIDE DEF g
<1>4. ASSUME NEW i \in 1 .. n - 1
      PROVE  Advance(s, all, g[i - 1], Tail(es)[i], g[i])
  <2>1. /\ g[i - 1] = f[(i + 1) - 1] /\ g[i] = f[i + 1] /\ Tail(es)[i] = es[i + 1]
        /\ i + 1 \in 1 .. n
      BY <1>2, <1>3
  <2> QED BY <1>1, <2>1
<1>5. g[0] = f[1] /\ g[n - 1] = d /\ f[1] \in Cursor
    BY <1>1, <1>2, <1>3
<1>6. Leads(s, all, Tail(es), f[1], d)
    BY <1>2, <1>3, <1>4, <1>5 DEF Leads
<1>7. Advance(s, all, c, Head(es), f[1])
  <2>1. 1 \in 1 .. n /\ 1 - 1 = 0
      BY <1>2
  <2> QED BY <1>1, <1>2, <2>1
<1> QED BY <1>5, <1>6, <1>7

\* What has been said of a response stays: only its last block grows.
Grows(s, all, s2, all2) ==
  /\ Len(s) <= Len(s2) /\ (all => all2 /\ s2 = s)
  /\ \A b \in 1 .. Len(s) : /\ s2[b].tool = s[b].tool
                            /\ b < Len(s) \/ all => s2[b] = s[b]

LEMMA AdvanceStill ==
  ASSUME NEW s \in Seq(Spoken), NEW all \in BOOLEAN, NEW s2 \in Seq(Spoken),
         NEW all2 \in BOOLEAN,
         Grows(s, all, s2, all2), NEW c \in Cursor, NEW e, NEW d, Advance(s, all, c, e, d)
  PROVE  Advance(s2, all2, c, e, d)
<1>1. Len(s) \in Nat /\ Len(s2) \in Nat /\ Len(s) <= Len(s2) /\ c.block \in Nat
    BY LenProperties DEF Grows, Cursor
<1>2. CASE Begins(s, c, e, d)
  <2>1. c.block < Len(s) /\ c.block + 1 \in 1 .. Len(s)
      BY <1>1, <1>2 DEF Begins
  <2>2. c.block < Len(s2) /\ s2[c.block + 1].tool = s[c.block + 1].tool
      BY <1>1, <2>1 DEF Grows
  <2> QED BY <1>2, <2>2 DEF Begins, Advance
<1>3. CASE Ends(s, all, c, e, d)
  <2>1. c.block \in 1 .. Len(s) /\ (c.block < Len(s) \/ all)
      BY <1>1, <1>3 DEF Ends
  <2>2. s2[c.block] = s[c.block]
      BY <2>1 DEF Grows
  <2>3. c.block < Len(s2) \/ (all2 /\ c.block = Len(s2))
    <3>1. CASE c.block < Len(s)
        BY <1>1, <3>1
    <3>2. CASE all /\ c.block = Len(s)
        BY <3>2 DEF Grows
    <3> QED BY <1>3, <3>1, <3>2 DEF Ends
  <2> QED BY <1>3, <2>2, <2>3 DEF Ends, Advance
<1> QED BY <1>2, <1>3 DEF Advance

LEMMA LeadsStill ==
  ASSUME NEW S, NEW es \in Seq(S),
         NEW s \in Seq(Spoken), NEW all \in BOOLEAN, NEW s2 \in Seq(Spoken),
         NEW all2 \in BOOLEAN, Grows(s, all, s2, all2), NEW c, NEW d, Leads(s, all, es, c, d)
  PROVE  Leads(s2, all2, es, c, d)
<1>1. PICK f \in [0 .. Len(es) -> Cursor] :
        /\ f[0] = c /\ f[Len(es)] = d
        /\ \A i \in 1 .. Len(es) : Advance(s, all, f[i - 1], es[i], f[i])
    BY DEF Leads
<1>2. ASSUME NEW i \in 1 .. Len(es)
      PROVE  Advance(s2, all2, f[i - 1], es[i], f[i])
  <2>1. Len(es) \in Nat
      BY LenProperties
  <2>2. f[i - 1] \in Cursor
      BY <2>1
  <2> QED BY <1>1, <2>2, AdvanceStill
<1> QED BY <1>1, <1>2 DEF Leads
-----------------------------------------------------------------------------
Event == [type : {"message_start", "message_stop"}]
  \cup [type : {"start"}, index : Nat, block : [tool : BOOLEAN, number : Nat]]
  \cup [type : {"delta"}, index : Nat, block : Nat]
  \cup [type : {"stop"}, index : Nat]

StreamTypes ==
  /\ provider \in {"anthropic", "openai"}
  /\ served \in Seq(Spoken) /\ servedAll \in BOOLEAN /\ textOpen \in BOOLEAN
  /\ outbox \in Seq(Event) /\ eventCh \in Seq(Event)
  /\ msg \in Seq([tool : BOOLEAN, number : Nat, text : Seq(Nat)])
  /\ blocks \in Seq([number : Nat, input : Seq(Nat)])

\* Where the producer has nothing to send, and what a complete attempt has left.
OutboxInv ==
  /\ producerPc \in {"request", "backoff", "body"} => outbox = <<>>
  /\ producerPc = "body" => ~streaming
  /\ producerPc = "lastSend" => Len(outbox) <= 1
  /\ producerPc \in Closing /\ failed = "none" => outbox = <<>>
  /\ streaming /\ verdict = "ok" => eventCh = <<>>

ServedInv ==
  /\ servedAll \/ textOpen => Len(served) > 0
  /\ provider = "openai" /\ Len(served) = 1 => (textOpen <=> ~served[1].tool)

\* n fragments of the block b, as a text.
TextOf(b, n) == [k \in 1 .. n |-> b]

HasInput(b, text) == \E k \in DOMAIN blocks : blocks[k] = [number |-> b, input |-> text]

\* What the reader has of the block b, once it is stopped and before.
Whole(b, block) == IF block.tool THEN HasInput(b, TextOf(b, block.frags))
                   ELSE msg[b].text = TextOf(b, block.frags)
Part(b, n, block) == msg[b].text = TextOf(b, n) /\ (block.tool => HasInput(b, <<>>))

\* The reader is at the cursor r.
Shows(s, all, r) ==
  /\ Len(msg) = r.block /\ r.block <= Len(s)
  /\ r.closed => r.block > 0 /\ (r.block < Len(s) \/ all)
  /\ \A b \in 1 .. r.block :
       /\ msg[b].tool = s[b].tool /\ msg[b].number = b
       /\ b < r.block \/ r.closed => Whole(b, s[b])
       /\ b = r.block /\ ~r.closed => Part(b, r.frags, s[b])

\* The server is at the end of what it has said.
Spoke(s, all) == [block |-> Len(s), frags |-> IF Len(s) = 0 THEN 0 ELSE s[Len(s)].frags,
                  closed |-> all]

\* The OpenAI adapter numbers no event: only a single block is followed.
MessageInv ==
  (provider = "openai" => Len(served) <= 1) =>
     \E r \in Cursor : /\ Shows(served, servedAll, r)
                       /\ Leads(served, servedAll, eventCh \o outbox, r,
                                Spoke(served, servedAll))

ContentInv == StreamTypes /\ OutboxInv /\ ServedInv /\ MessageInv

LEMMA ContentInit == Init => ContentInv
<1> SUFFICES ASSUME Init PROVE ContentInv
    OBVIOUS
<1>1. Provider!Init /\ <<>> \o <<>> = <<>> /\ Len(<<>>) = 0
  <2>1. <<>> \in Seq(Nat) /\ Len(<<>>) = 0
      BY EmptySeq
  <2> QED BY <2>1, ConcatEmptySeq DEF Init
<1>2. \A S : <<>> \in Seq(S)
    BY EmptySeq
<1>3. StreamTypes /\ OutboxInv /\ ServedInv
  <2>1. provider \in {"anthropic", "openai"}
      BY <1>1 DEF Provider!Init, Provider!detectProvider
  <2>2. StreamTypes
      BY <1>1, <1>2, <2>1 DEF Provider!Init, StreamTypes
  <2> QED BY <1>1, <2>2 DEF Provider!Init, OutboxInv, ServedInv
<1> DEFINE r == [block |-> 0, frags |-> 0, closed |-> FALSE]
<1>4. r \in Cursor /\ Spoke(served, servedAll) = r
    BY <1>1 DEF Provider!Init, Cursor, Spoke
<1>5. Shows(served, servedAll, r)
    BY <1>1 DEF Provider!Init, Shows
<1>6. Leads(served, servedAll, eventCh \o outbox, r, r)
    BY <1>1, <1>4, LeadsNowhere DEF Provider!Init
<1> QED BY <1>3, <1>4, <1>5, <1>6 DEF ContentInv, MessageInv

LEMMA ContentMeans == ErrorInv /\ ContentInv => AcceptedIsWhole
<1> SUFFICES ASSUME ErrorInv, ContentInv, streaming, verdict = "ok", servedAll,
                    provider = "openai" => Len(served) = 1
             PROVE  Provider!MessageIsWhole
    BY DEF AcceptedIsWhole, Provider!AcceptedIsWhole, Provider!Accepted
<1>1. eventCh = <<>> /\ outbox = <<>> /\ Len(served) \in Nat \ {0} /\
      DOMAIN served = 1 .. Len(served)
  <2>1. Len(served) \in Nat /\ DOMAIN served = 1 .. Len(served)
      BY LenProperties DEF ContentInv, StreamTypes
  <2> QED BY <2>1 DEF ErrorInv, ReportInv, ContentInv, OutboxInv, ServedInv, Closing
<1>2. <<>> \o <<>> = <<>>
    BY EmptySeq, ConcatEmptySeq
<1>3. PICK r \in Cursor : /\ Shows(served, servedAll, r)
                          /\ Leads(served, servedAll, <<>>, r, Spoke(served, servedAll))
  <2>1. provider = "openai" => Len(served) <= 1
      BY <1>1
  <2> QED BY <1>1, <1>2, <2>1 DEF ContentInv, MessageInv
<1>4. r = Spoke(served, servedAll)
    BY <1>3, LeadsHere
<1>5. r.block = Len(served) /\ r.closed
    BY <1>4 DEF Spoke
<1>6. ASSUME NEW b \in DOMAIN served
      PROVE  Whole(b, served[b])
    BY <1>1, <1>3, <1>5 DEF Shows
<1>7. Len(msg) = Len(served)
    BY <1>3, <1>5 DEF Shows
<1> QED BY <1>6, <1>7 DEF Provider!MessageIsWhole, Provider!IsTool, Provider!WholeBlock,
           Whole, HasInput, TextOf

-----------------------------------------------------------------------------
(* The reader                                                               *)
LEMMA ReaderTypes ==
  ASSUME StreamTypes, NEW e \in Event, Provider!processStreamEvent(e)
  PROVE  /\ msg' \in Seq([tool : BOOLEAN, number : Nat, text : Seq(Nat)])
         /\ blocks' \in Seq([number : Nat, input : Seq(Nat)])
<1> DEFINE M == [tool : BOOLEAN, number : Nat, text : Seq(Nat)]
           B == [number : Nat, input : Seq(Nat)]
           p == Provider!Position(e)
<1>1. msg \in Seq(M) /\ blocks \in Seq(B) /\ Len(msg) \in Nat
    BY LenProperties DEF StreamTypes
<1>2. CASE e.type = "start"
  <2> DEFINE m == [tool |-> e.block.tool, number |-> e.block.number, text |-> <<>>]
             n == [number |-> e.block.number, input |-> <<>>]
  <2>1. e.block \in [tool : BOOLEAN, number : Nat] /\ <<>> \in Seq(Nat)
      BY <1>2, EmptySeq DEF Event
  <2>2. m \in M /\ n \in B
      BY <2>1
  <2>3. msg' = Append(msg, m) /\ (blocks' = Append(blocks, n) \/ blocks' = blocks)
      BY <1>2 DEF Provider!processStreamEvent, Provider!NoInput
  <2> HIDE DEF m, n, M, B
  <2>4. Append(msg, m) \in Seq(M) /\ Append(blocks, n) \in Seq(B)
      BY <1>1, <2>2, AppendProperties
  <2> QED BY <1>1, <2>3, <2>4 DEF M, B
<1>3. CASE e.type = "delta" /\ p <= Len(msg)
  <2> DEFINE m == [msg[p] EXCEPT !.text = Append(msg[p].text, e.block)]
  <2>1. e.block \in Nat /\ p \in 1 .. Len(msg)
      BY <1>1, <1>3 DEF Event, Provider!Position
  <2>2. msg[p] \in M
      BY <1>1, <2>1, ElementOfSeq
  <2>3. Append(msg[p].text, e.block) \in Seq(Nat)
      BY <2>1, <2>2, AppendProperties
  <2>4. m \in M
      BY <2>2, <2>3
  <2>5. msg' = [msg EXCEPT ![p] = m] /\ blocks' = blocks
      BY <1>3 DEF Provider!processStreamEvent
  <2> HIDE DEF m, M, p
  <2>6. msg' \in Seq(M)
      BY <1>1, <2>1, <2>4, <2>5, ExceptSeq
  <2> QED BY <1>1, <2>5, <2>6 DEF M
<1>4. CASE e.type = "stop" /\ p <= Len(msg) /\ msg[p].tool /\ Provider!Parses(msg[p].text)
  <2> DEFINE m == [msg[p] EXCEPT !.text = <<>>]
             b(k) == IF blocks[k].number = msg[p].number
                     THEN [blocks[k] EXCEPT !.input = msg[p].text] ELSE blocks[k]
  <2>1. p \in 1 .. Len(msg)
      BY <1>1, <1>4 DEF Event, Provider!Position
  <2>2. msg[p] \in M /\ <<>> \in Seq(Nat)
      BY <1>1, <2>1, ElementOfSeq, EmptySeq
  <2>3. m \in M
      BY <2>2
  <2>4. msg' = [msg EXCEPT ![p] = m] /\ blocks' = [k \in DOMAIN blocks |-> b(k)]
      BY <1>4 DEF Provider!processStreamEvent
  <2>5. DOMAIN blocks = 1 .. Len(blocks) /\ Len(blocks) \in Nat
      BY <1>1, LenProperties
  <2>6. \A k \in 1 .. Len(blocks) : b(k) \in B
    <3>1. \A k \in 1 .. Len(blocks) : blocks[k] \in B
        BY <1>1, ElementOfSeq
    <3> QED BY <2>2, <3>1
  <2> HIDE DEF m, M, p, b, B
  <2>7. msg' \in Seq(M)
      BY <1>1, <2>1, <2>3, <2>4, ExceptSeq
  <2>8. blocks' \in Seq(B)
      BY <2>4, <2>5, <2>6, IsASeq
  <2> QED BY <2>7, <2>8 DEF M, B
<1>5. CASE msg' = msg /\ blocks' = blocks
    BY <1>1, <1>5
<1> QED BY <1>2, <1>3, <1>4, <1>5 DEF Provider!processStreamEvent, Event

LEMMA ReadAdvances ==
  ASSUME StreamTypes, NEW e \in Event, Provider!processStreamEvent(e),
          UNCHANGED <<served, servedAll>>,
         NEW r \in Cursor, NEW r2 \in Cursor, Shows(served, servedAll, r),
         Advance(served, servedAll, r, e, r2)
  PROVE  Shows(served, servedAll, r2)'
<1>1. /\ Len(msg) = r.block /\ r.block \in Nat /\ r.frags \in Nat /\ Len(served) \in Nat
      /\ r.block <= Len(served) /\ r.closed \in BOOLEAN
      /\ r.closed => r.block > 0 /\ (r.block < Len(served) \/ servedAll)
    BY LenProperties DEF StreamTypes, Shows, Cursor
<1>2. /\ msg \in Seq([tool : BOOLEAN, number : Nat, text : Seq(Nat)])
      /\ blocks \in Seq([number : Nat, input : Seq(Nat)])
      /\ \A b \in 1 .. r.block :
           msg[b] \in [tool : BOOLEAN, number : Nat, text : Seq(Nat)]
    BY <1>1, ElementOfSeq DEF StreamTypes
<1>3. CASE e.type \in {"message_start", "message_stop"} /\ r2 = r
  <2>1. msg' = msg /\ blocks' = blocks
      BY <1>3 DEF Provider!processStreamEvent
  <2> QED BY <1>3, <2>1 DEF Shows, Whole, Part, HasInput
<1>4. CASE Begins(served, r, e, r2)
  <2> DEFINE n == [tool |-> e.block.tool, number |-> e.block.number, text |-> <<>>]
             i == [number |-> e.block.number, input |-> <<>>]
  <2>1. e.block \in [tool : BOOLEAN, number : Nat] /\ <<>> \in Seq(Nat)
      BY <1>4, EmptySeq DEF Event, Begins
  <2>2. /\ msg' = Append(msg, n)
        /\ blocks' = IF e.block.tool THEN Append(blocks, i) ELSE blocks
      BY <1>4 DEF Provider!processStreamEvent, Provider!NoInput, Begins
  <2>3. /\ Len(msg') = r.block + 1 /\ \A b \in 1 .. r.block : msg'[b] = msg[b]
        /\ msg'[r.block + 1] = n
    <3>1. n \in [tool : BOOLEAN, number : Nat, text : Seq(Nat)]
        BY <2>1
    <3> HIDE DEF n
    <3> QED BY <1>1, <1>2, <2>2, <3>1, AppendProperties
  <2>4. /\ \A b, text : HasInput(b, text) => HasInput(b, text)'
        /\ e.block.tool => HasInput(r.block + 1, <<>>)'
    <3>1. i \in [number : Nat, input : Seq(Nat)] /\ i = [number |-> r.block + 1, input |-> <<>>]
        BY <1>4, <2>1 DEF Begins
    <3> HIDE DEF i
    <3>2. CASE ~e.block.tool
        BY <2>2, <3>2 DEF HasInput
    <3>3. CASE e.block.tool
      <4>1. blocks' = Append(blocks, i)
          BY <2>2, <3>3
      <4>2. /\ DOMAIN blocks' = 1 .. Len(blocks) + 1 /\ DOMAIN blocks = 1 .. Len(blocks)
            /\ \A k \in 1 .. Len(blocks) : blocks'[k] = blocks[k]
            /\ blocks'[Len(blocks) + 1] = i /\ Len(blocks) \in Nat
          BY <1>2, <3>1, <4>1, AppendProperties, LenProperties
      <4> QED BY <3>1, <4>2 DEF HasInput
    <3> QED BY <3>2, <3>3
  <2>5. /\ r2.block = r.block + 1 /\ r2.frags = 0 /\ r2.closed = FALSE /\ r.block < Len(served)
        /\ n.tool = served[r.block + 1].tool /\ n.number = r.block + 1 /\ n.text = <<>>
        /\ (r.closed \/ r.block = 0) /\ (e.block.tool <=> served[r.block + 1].tool)
      BY <1>4 DEF Begins
  <2>6. TextOf(r.block + 1, 0) = <<>>
      BY DEF TextOf
  <2> HIDE DEF n, i
  <2>7. Part(r.block + 1, 0, served[r.block + 1])'
      BY <2>3, <2>4, <2>5, <2>6 DEF Part
  <2>8. \A b \in 1 .. r.block : Whole(b, served[b])'
    <3>1. \A b \in 1 .. r.block : Whole(b, served[b])
        BY <2>5 DEF Shows
    <3> QED BY <2>3, <2>4, <3>1 DEF Whole
  <2>9. \A b \in 1 .. r.block : msg'[b].tool = served[b].tool /\ msg'[b].number = b
      BY <2>3 DEF Shows
  <2> QED BY <1>1, <2>3, <2>5, <2>7, <2>8, <2>9 DEF Shows
<1>5. CASE Extends(r, e, r2)
  <2> DEFINE p == r.block
             t == Append(msg[p].text, p)
  <2>1. /\ p \in 1 .. p /\ e.block = p /\ Provider!Position(e) = p /\ e.type = "delta"
        /\ ~r.closed /\ r2.block = p /\ r2.frags = r.frags + 1 /\ r2.closed = FALSE
      BY <1>1, <1>5 DEF Extends, Provider!Position, Event
  <2>2. msg' = [msg EXCEPT ![p].text = t] /\ blocks' = blocks
      BY <1>1, <2>1 DEF Provider!processStreamEvent
  <2>3. /\ msg[p].text = TextOf(p, r.frags) /\ (served[p].tool => HasInput(p, <<>>))
      BY <2>1 DEF Shows, Part
  <2>4. t = TextOf(p, r.frags + 1)
      BY <1>1, <2>3 DEF TextOf
  <2>5. /\ Len(msg') = r.block /\ msg'[p].text = t
        /\ \A b \in 1 .. r.block : /\ msg'[b].tool = msg[b].tool /\ msg'[b].number = msg[b].number
                                   /\ b # p => msg'[b] = msg[b]
    <3> DEFINE M == [tool : BOOLEAN, number : Nat, text : Seq(Nat)]
               m == [msg[p] EXCEPT !.text = t]
    <3>1. msg \in Seq(M) /\ p \in 1 .. Len(msg) /\ msg[p] \in M /\ p \in Nat
        BY <1>1, <1>2, <2>1
    <3>2. t \in Seq(Nat)
        BY <3>1, AppendProperties
    <3> HIDE DEF t
    <3>3. /\ m \in M /\ m.text = t /\ m.tool = msg[p].tool /\ m.number = msg[p].number
        BY <3>1, <3>2
    <3>4. msg' = [msg EXCEPT ![p] = m]
        BY <2>2
    <3> HIDE DEF m, M
    <3>5. msg' \in Seq(M)
        BY <3>1, <3>3, <3>4, ExceptSeq
    <3>6. DOMAIN msg = 1 .. Len(msg) /\ DOMAIN msg' = DOMAIN msg
        BY <3>1, <3>4, LenProperties
    <3>7. Len(msg') = Len(msg)
        BY <3>1, <3>5, <3>6, LenProperties
    <3>8. msg'[p] = m /\ \A b \in 1 .. Len(msg) : b # p => msg'[b] = msg[b]
        BY <3>1, <3>4, <3>6
    <3> QED BY <1>1, <3>3, <3>7, <3>8
  <2>6. \A b \in 1 .. r.block : b < p => Whole(b, served[b])'
    <3>1. \A b \in 1 .. r.block : b < p => Whole(b, served[b]) /\ b # p
        BY <1>1 DEF Shows
    <3> QED BY <2>2, <2>5, <3>1 DEF Whole, HasInput
  <2> HIDE DEF t
  <2>7. Part(p, r.frags + 1, served[p])'
      BY <2>2, <2>3, <2>4, <2>5 DEF Part, HasInput
  <2> QED BY <1>1, <2>1, <2>5, <2>6, <2>7 DEF Shows
<1>6. CASE Ends(served, servedAll, r, e, r2)
  <2> DEFINE p == r.block
  <2>1. /\ p \in 1 .. p /\ Provider!Position(e) = p /\ e.type = "stop" /\ p <= Len(msg)
        /\ ~r.closed /\ r.frags = served[p].frags /\ r2.block = p /\ r2.closed = TRUE
        /\ p < Len(served) \/ servedAll
      BY <1>1, <1>6 DEF Ends, Provider!Position, Event
  <2>2. /\ msg[p].text = TextOf(p, r.frags) /\ (served[p].tool => HasInput(p, <<>>))
        /\ msg[p].tool = served[p].tool /\ msg[p].number = p
      BY <2>1 DEF Shows, Part
  <2>3. Part(p, r.frags, served[p]) /\ \A b \in 1 .. p : b < p => Whole(b, served[b]) /\ b # p
      BY <1>1, <2>1 DEF Shows
  <2>4. TextOf(p, 0) = <<>>
      BY DEF TextOf
  <2>5. CASE ~served[p].tool \/ r.frags = 0
    <3>1. ~(msg[p].tool /\ Provider!Parses(msg[p].text))
        BY <2>2, <2>4, <2>5 DEF Provider!Parses
    <3>2. msg' = msg /\ blocks' = blocks
        BY <2>1, <3>1 DEF Provider!processStreamEvent
    <3>3. Whole(p, served[p])
        BY <2>1, <2>2, <2>4, <2>5 DEF Whole
    <3> QED BY <1>1, <2>1, <2>2, <2>3, <3>2, <3>3 DEF Shows, Whole, HasInput
  <2>6. CASE served[p].tool /\ r.frags > 0
    <3>1. TextOf(p, r.frags)[1] = p /\ TextOf(p, r.frags) # <<>>
        BY <1>1, <2>6 DEF TextOf
    <3>2. msg[p].tool /\ Provider!Parses(msg[p].text)
        BY <2>1, <2>2, <2>6, <3>1 DEF Provider!Parses, Provider!IsTool, TextOf
    <3>3. /\ msg' = [msg EXCEPT ![p].text = <<>>]
          /\ blocks' = [k \in DOMAIN blocks |-> IF blocks[k].number = p
                          THEN [blocks[k] EXCEPT !.input = TextOf(p, r.frags)] ELSE blocks[k]]
        BY <2>1, <2>2, <3>2 DEF Provider!processStreamEvent
    <3>4. Len(msg') = p /\ \A b \in 1 .. p : /\ msg'[b].tool = msg[b].tool
                                             /\ msg'[b].number = msg[b].number
                                             /\ b # p => msg'[b] = msg[b]
        BY <1>1, <1>2, <2>1, <3>3
    <3>5. \A b, text : b # p /\ HasInput(b, text) => HasInput(b, text)'
        BY <3>3 DEF HasInput
    <3>6. HasInput(p, TextOf(p, r.frags))'
        BY <2>2, <2>6, <3>3 DEF HasInput
    <3>7. Whole(p, served[p])'
        BY <2>1, <2>6, <3>6 DEF Whole
    <3>8. \A b \in 1 .. p : b < p => Whole(b, served[b])'
        BY <2>3, <3>4, <3>5 DEF Whole
    <3>9. \A b \in 1 .. p : msg'[b].tool = served[b].tool /\ msg'[b].number = b
        BY <3>4 DEF Shows
    <3> QED BY <1>1, <2>1, <3>4, <3>7, <3>8, <3>9 DEF Shows
  <2> QED BY <1>1, <2>5, <2>6 DEF StreamTypes, Cursor, Spoken
<1> QED BY <1>3, <1>4, <1>5, <1>6 DEF Advance

-----------------------------------------------------------------------------
(* The server                                                               *)
LEMMA ShowsStill ==
  ASSUME NEW s \in Seq(Spoken), NEW all \in BOOLEAN, NEW s2 \in Seq(Spoken),
         NEW all2 \in BOOLEAN, Grows(s, all, s2, all2),
         NEW r \in Cursor, Shows(s, all, r)
  PROVE  Shows(s2, all2, r)
<1>1. /\ Len(s) \in Nat /\ Len(s2) \in Nat /\ Len(s) <= Len(s2) /\ (all => all2 /\ s2 = s)
      /\ \A b \in 1 .. Len(s) : /\ s2[b].tool = s[b].tool
                                /\ b < Len(s) \/ all => s2[b] = s[b]
    BY LenProperties DEF Grows
<1>2. /\ Len(msg) = r.block /\ r.block <= Len(s) /\ r.block \in Nat
      /\ r.closed => r.block > 0 /\ (r.block < Len(s) \/ all)
    BY DEF Shows, Cursor
<1>3. ASSUME NEW b \in 1 .. r.block, b < r.block \/ r.closed
      PROVE  Whole(b, s2[b])
  <2>1. Whole(b, s[b])
      BY <1>3 DEF Shows
  <2>2. b \in 1 .. Len(s) /\ (b < Len(s) \/ all)
      BY <1>1, <1>2, <1>3
  <2>3. s2[b] = s[b]
      BY <1>1, <2>2
  <2> QED BY <2>1, <2>3
<1>4. ASSUME NEW b \in 1 .. r.block, b = r.block, ~r.closed
      PROVE  Part(b, r.frags, s2[b])
  <2>1. Part(b, r.frags, s[b])
      BY <1>4 DEF Shows
  <2>2. b \in 1 .. Len(s)
      BY <1>1, <1>2
  <2> QED BY <1>1, <2>1, <2>2 DEF Part
<1>5. \A b \in 1 .. r.block : msg[b].tool = s2[b].tool /\ msg[b].number = b
  <2>1. \A b \in 1 .. r.block : b \in 1 .. Len(s)
      BY <1>1, <1>2
  <2> QED BY <1>1, <2>1 DEF Shows
<1>6. r.block <= Len(s2) /\ (r.closed => r.block > 0 /\ (r.block < Len(s2) \/ all2))
    BY <1>1, <1>2
<1> QED BY <1>2, <1>3, <1>4, <1>5, <1>6 DEF Shows

\* The server has sent what leads from where it was to where it is.
LEMMA ServerLeads ==
  ASSUME StreamTypes, StreamTypes', MessageInv, Provider!Scanning \/ outbox = <<>>,
         UNCHANGED <<eventCh, msg, blocks, provider>>,
         Grows(served, servedAll, served', servedAll'),
         (provider = "openai" => Len(served') <= 1) =>
            Leads(served', servedAll', outbox', Spoke(served, servedAll),
                  Spoke(served', servedAll'))
  PROVE  MessageInv'
<1> SUFFICES ASSUME provider = "openai" => Len(served') <= 1
             PROVE  \E r \in Cursor : /\ Shows(served, servedAll, r)'
                                      /\ Leads(served', servedAll', eventCh \o outbox', r,
                                               Spoke(served', servedAll'))
    BY DEF MessageInv
<1>1. provider = "openai" => Len(served) <= 1
    BY LenProperties DEF Grows, StreamTypes
<1>2. eventCh \o outbox = eventCh
    BY ConcatEmptySeq DEF StreamTypes, Provider!Scanning
<1>3. PICK r \in Cursor : /\ Shows(served, servedAll, r)
                          /\ Leads(served, servedAll, eventCh, r, Spoke(served, servedAll))
    BY <1>1, <1>2 DEF MessageInv
<1>4. Shows(served', servedAll', r)
    BY <1>3, ShowsStill DEF StreamTypes
<1>5. Shows(served, servedAll, r)'
    BY <1>4 DEF Shows, Whole, Part, HasInput
<1>6. Leads(served', servedAll', eventCh, r, Spoke(served, servedAll))
    BY <1>3, LeadsStill DEF StreamTypes
<1>7. Leads(served', servedAll', eventCh \o outbox', r, Spoke(served', servedAll'))
    BY <1>6, LeadsOver DEF StreamTypes
<1> QED BY <1>5, <1>7

\* What no server step changes.
Quiet == UNCHANGED <<provider, streaming, eventCh, msg, blocks, verdict, producerPc, failed>>

LEMMA OpensContent ==
  ASSUME ContentInv, NEW tool_ \in BOOLEAN, Provider!ServerOpens(tool_)
  PROVE  ContentInv'
<1> DEFINE n == Len(served)
           block == [tool |-> tool_, frags |-> IF tool_ THEN 0 ELSE 1]
           closes == IF provider = "openai" THEN textOpen ELSE n > 0
           i == Provider!IndexOf(n)
           j == Provider!IndexOf(n + 1)
           A == IF closes THEN <<Provider!Stop(i)>> ELSE <<>>
           b == Provider!Start([tool |-> tool_, number |-> n + 1], j)
           C == IF tool_ THEN <<>> ELSE <<Provider!Delta(n + 1, j)>>
<1>1. /\ served' = Append(served, block) /\ outbox' = A \o <<b>> \o C
      /\ textOpen' = (provider = "openai" /\ ~tool_)
      /\ provider = "openai" => tool_ \/ ~textOpen
      /\ Quiet /\ servedAll' = servedAll /\ servedAll = FALSE /\ outbox = <<>>
      /\ producerPc = "scan"
    BY DEF Provider!ServerOpens, Provider!Opened, Provider!Scanning, Quiet,
           Provider!channelVars, Provider!readerVars
<1>2. n \in Nat /\ n = Len(served) /\ StreamTypes /\ served \in Seq(Spoken)
    BY LenProperties DEF ContentInv, StreamTypes
<1> HIDE DEF n
<1>3. block \in Spoken /\ block.tool = tool_ /\ block.frags = IF tool_ THEN 0 ELSE 1
    BY DEF Spoken
<1>4. /\ n > 0 => i \in Nat
      /\ j \in Nat
      /\ provider # "openai" => j = n /\ i = n - 1
      /\ n = 0 => j = n
  <2>1. CASE provider = "openai"
      BY <1>2, <2>1 DEF Provider!IndexOf, Provider!Unnumbered
  <2>2. CASE provider # "openai"
      BY <1>2, <2>2 DEF Provider!IndexOf, Provider!Numbered
  <2> QED BY <2>1, <2>2
<1> HIDE DEF block, i, j
<1>5. /\ served' \in Seq(Spoken) /\ Len(served') = n + 1 /\ served'[n + 1] = block
      /\ \A k \in 1 .. n : served'[k] = served[k]
    BY <1>1, <1>2, <1>3, AppendProperties
<1>6. A \in Seq(Event) /\ <<b>> \in Seq(Event) /\ C \in Seq(Event) /\ A \o <<b>> \in Seq(Event)
      /\ (closes => n > 0)
  <2>1. closes => n > 0
      BY <1>2 DEF ContentInv, ServedInv
  <2>2. closes => Provider!Stop(i) \in Event
      BY <1>4, <2>1 DEF Provider!Stop, Event
  <2>3. b \in Event /\ Provider!Delta(n + 1, j) \in Event
      BY <1>2, <1>4 DEF Provider!Start, Provider!Delta, Event
  <2>4. <<>> \in Seq(Event)
      BY EmptySeq
  <2> HIDE DEF b
  <2>5. A \in Seq(Event) /\ <<b>> \in Seq(Event) /\ C \in Seq(Event)
      BY <2>2, <2>3, <2>4
  <2> HIDE DEF A, C
  <2> QED BY <2>1, <2>5, ConcatProperties
<1> HIDE DEF A, b, C
<1>7. StreamTypes'
  <2>1. outbox' \in Seq(Event)
      BY <1>1, <1>6, ConcatProperties
  <2>2. textOpen' \in BOOLEAN /\ servedAll' \in BOOLEAN
      BY <1>1
  <2> QED BY <1>1, <1>2, <1>5, <2>1, <2>2 DEF StreamTypes, Quiet
<1>8. Grows(served, servedAll, served', servedAll')
    BY <1>1, <1>2, <1>5 DEF Grows
<1>9. ASSUME provider = "openai" => n + 1 <= 1
      PROVE  Leads(served', servedAll', outbox', Spoke(served, servedAll),
                   Spoke(served', servedAll'))
  <2> DEFINE c0 == Spoke(served, servedAll)
             c1 == [block |-> n, frags |-> c0.frags, closed |-> TRUE]
             c2 == [block |-> n + 1, frags |-> 0, closed |-> FALSE]
             c3 == [block |-> n + 1, frags |-> 1, closed |-> FALSE]
  <2>1. j = n /\ (n > 0 => i = n - 1) /\ (closes <=> n > 0)
    <3>1. provider # "openai" \/ n = 0
        BY <1>2, <1>9
    <3>2. CASE provider # "openai"
        BY <1>4, <3>2
    <3>3. CASE n = 0
        BY <1>2, <1>4, <1>6, <3>3
    <3> QED BY <3>1, <3>2, <3>3
  <2>2. /\ c0.block = n /\ c0.closed = FALSE /\ c0.frags \in Nat /\ c0 \in Cursor
        /\ n > 0 => c0.frags = served[n].frags
    <3>1. n > 0 => served[n] \in Spoken
        BY <1>2, ElementOfSeq
    <3> DEFINE q == IF n = 0 THEN 0 ELSE served[n].frags
    <3>2. c0 = [block |-> n, frags |-> q, closed |-> FALSE]
        BY <1>1, <1>2 DEF Spoke
    <3>3. q \in Nat /\ (n > 0 => q = served[n].frags)
        BY <1>2, <3>1 DEF Spoken
    <3> HIDE DEF q, c0
    <3> QED BY <1>2, <3>2, <3>3 DEF Cursor
  <2> HIDE DEF c0
  <2>3. c1 \in Cursor /\ c2 \in Cursor /\ c3 \in Cursor
      BY <1>2, <2>2 DEF Cursor
  <2>6. Leads(served', servedAll', A \o <<b>>, c0, c2)
    <3>1. CASE n > 0
      <4>1. Ends(served', servedAll', c0, Provider!Stop(i), c1)
          BY <1>2, <1>5, <2>1, <2>2, <3>1 DEF Ends, Provider!Stop
      <4>2. Leads(served', servedAll', A, c0, c1)
          BY <2>1, <2>2, <2>3, <3>1, <4>1, LeadsOne DEF Advance, A
      <4>3. Begins(served', c1, b, c2)
          BY <1>2, <1>5, <2>1 DEF Begins, Provider!Start, b, block
      <4>4. Leads(served', servedAll', <<b>>, c1, c2)
          BY <2>3, <4>3, LeadsOne DEF Advance
      <4> QED BY <1>6, <4>2, <4>4, LeadsOver
    <3>2. CASE n = 0
      <4>1. Begins(served', c0, b, c2)
          BY <1>2, <1>5, <2>1, <2>2, <3>2 DEF Begins, Provider!Start, b, block
      <4>2. Leads(served', servedAll', <<b>>, c0, c2)
          BY <2>2, <2>3, <4>1, LeadsOne DEF Advance
      <4>3. A \o <<b>> = <<b>>
        <5>1. A = <<>>
            BY <1>2, <2>1, <3>2 DEF A
        <5> QED BY <1>6, <5>1, ConcatEmptySeq
      <4> QED BY <4>2, <4>3
    <3> QED BY <1>2, <3>1, <3>2
  <2>7. Leads(served', servedAll', C, c2, Spoke(served', servedAll'))
    <3>1. CASE tool_
      <4>1. C = <<>>
          BY <3>1 DEF C
      <4>2. Spoke(served', servedAll') = c2
          BY <1>1, <1>2, <1>3, <1>5, <3>1 DEF Spoke
      <4> QED BY <2>3, <4>1, <4>2, LeadsNowhere
    <3>2. CASE ~tool_
      <4>1. C = <<Provider!Delta(n + 1, j)>>
          BY <3>2 DEF C
      <4>3. Spoke(served', servedAll') = c3
        <5>1. Len(served') = n + 1 /\ Len(served') # 0 /\ served'[Len(served')].frags = 1
            BY <1>2, <1>3, <1>5, <3>2
        <5> QED BY <1>1, <5>1 DEF Spoke
      <4>2. Extends(c2, Provider!Delta(n + 1, j), c3)
          BY <1>2, <2>1 DEF Extends, Provider!Delta
      <4> QED BY <2>3, <4>1, <4>2, <4>3, LeadsOne DEF Advance
    <3> QED BY <3>1, <3>2
  <2> QED BY <1>1, <1>6, <2>6, <2>7, LeadsOver DEF c0
<1>10. MessageInv'
  <2>1. (provider = "openai" => Len(served') <= 1) =>
            Leads(served', servedAll', outbox', Spoke(served, servedAll),
                  Spoke(served', servedAll'))
      BY <1>5, <1>9
  <2> QED BY <1>1, <1>2, <1>7, <1>8, <2>1, ServerLeads DEF ContentInv, Quiet
<1>11. ServedInv'
  <2>1. textOpen' <=> provider = "openai" /\ ~tool_
      BY <1>1
  <2>2. provider' = provider /\ servedAll' = FALSE /\ Len(served') > 0
        /\ (Len(served') = 1 => n = 0)
      BY <1>1, <1>2, <1>5 DEF Quiet
  <2> QED BY <1>2, <1>3, <1>5, <2>1, <2>2 DEF ServedInv
<1>12. OutboxInv'
    BY <1>1 DEF ContentInv, OutboxInv, Quiet, Closing
<1> QED BY <1>7, <1>10, <1>11, <1>12 DEF ContentInv

LEMMA SpokeCursor ==
  ASSUME NEW s \in Seq(Spoken), NEW all \in BOOLEAN
  PROVE  Spoke(s, all) \in Cursor
<1> DEFINE q == IF Len(s) = 0 THEN 0 ELSE s[Len(s)].frags
<1>1. Spoke(s, all) = [block |-> Len(s), frags |-> q, closed |-> all] /\ Len(s) \in Nat
    BY LenProperties DEF Spoke
<1>2. q \in Nat
  <2>1. Len(s) # 0 => s[Len(s)] \in Spoken
      BY <1>1, ElementOfSeq
  <2> QED BY <2>1 DEF Spoken
<1> HIDE DEF q
<1> QED BY <1>1, <1>2 DEF Cursor

LEMMA ContinuesContent ==
  ASSUME ContentInv, Provider!ServerContinues
  PROVE  ContentInv'
<1> DEFINE n == Len(served)
           block == [served[n] EXCEPT !.frags = served[n].frags + 1]
           i == Provider!IndexOf(n)
           b == Provider!Delta(n, i)
<1>1. /\ served' = [served EXCEPT ![n] = block] /\ outbox' = <<b>> /\ n > 0
      /\ Quiet /\ servedAll' = servedAll /\ servedAll = FALSE /\ textOpen' = textOpen
      /\ producerPc = "scan" /\ outbox = <<>>
    BY DEF Provider!ServerContinues, Provider!Opened, Provider!Scanning, Quiet,
           Provider!channelVars, Provider!readerVars
<1>2. n \in Nat \ {0} /\ n = Len(served) /\ StreamTypes /\ served \in Seq(Spoken)
    BY <1>1, LenProperties DEF ContentInv, StreamTypes
<1> HIDE DEF n
<1>3. served[n] \in Spoken
    BY <1>2, ElementOfSeq
<1>4. block \in Spoken /\ block.tool = served[n].tool /\ block.frags = served[n].frags + 1
    BY <1>3 DEF Spoken
<1>5. i \in Nat /\ (provider # "openai" \/ n = 1 => i = n - 1)
  <2>1. CASE provider = "openai"
      BY <1>2, <2>1 DEF Provider!IndexOf, Provider!Unnumbered
  <2>2. CASE provider # "openai"
      BY <1>2, <2>2 DEF Provider!IndexOf, Provider!Numbered
  <2> QED BY <2>1, <2>2
<1> HIDE DEF block, i
<1>6. /\ served' \in Seq(Spoken) /\ Len(served') = n /\ served'[n] = block
      /\ \A k \in 1 .. n : k # n => served'[k] = served[k]
    BY <1>1, <1>2, <1>4, ExceptSeq
<1>7. StreamTypes'
  <2>1. b \in Event
      BY <1>2, <1>5 DEF Provider!Delta, Event
  <2> HIDE DEF b
  <2> QED BY <1>1, <1>2, <1>6, <2>1 DEF StreamTypes, Quiet
<1>8. Grows(served, servedAll, served', servedAll')
    BY <1>1, <1>2, <1>4, <1>6 DEF Grows
<1>9. ASSUME provider = "openai" => Len(served') <= 1
      PROVE  Leads(served', servedAll', outbox', Spoke(served, servedAll),
                   Spoke(served', servedAll'))
  <2> DEFINE c == Spoke(served, servedAll)
             d == Spoke(served', servedAll')
  <2>1. i = n - 1
      BY <1>2, <1>5, <1>6, <1>9
  <2>2. c \in Cursor /\ d \in Cursor
      BY <1>1, <1>2, <1>6, SpokeCursor
  <2>3. /\ c.block = n /\ c.frags = served[n].frags /\ c.closed = FALSE
        /\ d = [block |-> n, frags |-> served[n].frags + 1, closed |-> FALSE]
      BY <1>1, <1>2, <1>4, <1>6 DEF Spoke
  <2> HIDE DEF c, d
  <2>4. Extends(c, b, d)
      BY <1>2, <2>1, <2>3 DEF Extends, Provider!Delta
  <2> QED BY <1>1, <2>2, <2>4, LeadsOne DEF c, d, Advance
<1>10. MessageInv'
  <2> QED BY <1>1, <1>2, <1>7, <1>8, <1>9, ServerLeads DEF ContentInv, Quiet
<1>11. ServedInv'
    BY <1>1, <1>2, <1>4, <1>6 DEF ContentInv, ServedInv, Quiet
<1>12. OutboxInv'
    BY <1>1 DEF ContentInv, OutboxInv, Quiet, Closing
<1> QED BY <1>7, <1>10, <1>11, <1>12 DEF ContentInv

LEMMA FinishesContent ==
  ASSUME ContentInv, Provider!ServerFinishes
  PROVE  ContentInv'
<1> DEFINE n == Len(served)
           i == Provider!IndexOf(n)
           t == Provider!ToolCalls
           A == IF textOpen THEN <<Provider!Stop(0)>> ELSE <<>>
           T == [k \in 1 .. t |-> Provider!Stop(0)]
<1>1. /\ served' = served /\ n > 0 /\ Quiet /\ servedAll' = TRUE /\ servedAll = FALSE
      /\ outbox' = IF provider = "anthropic" THEN <<Provider!Stop(i)>> ELSE A \o T
      /\ textOpen' = textOpen /\ producerPc = "scan" /\ outbox = <<>>
    BY DEF Provider!ServerFinishes, Provider!Opened, Provider!Scanning, Quiet,
           Provider!channelVars, Provider!readerVars
<1>2. n \in Nat \ {0} /\ n = Len(served) /\ StreamTypes /\ served \in Seq(Spoken)
      /\ provider \in {"anthropic", "openai"}
    BY <1>1, LenProperties DEF ContentInv, StreamTypes
<1>3. t \in Nat /\ (n = 1 => t = IF served[1].tool THEN 1 ELSE 0)
  <2> DEFINE B == {b \in 1 .. n : served[b].tool}
  <2>1. t = Cardinality(B)
      BY DEF Provider!ToolCalls, Provider!Opened, Provider!IsTool, Provider!Cardinality, Cardinality
  <2>2. IsFiniteSet(B)
    <3>1. IsFiniteSet(1 .. n) /\ B \subseteq 1 .. n
        BY <1>2, FS_Interval
    <3> QED BY <3>1, FS_Subset
  <2>3. t \in Nat
      BY <2>1, <2>2, FS_CardinalityType
  <2>4. n = 1 => B = IF served[1].tool THEN {1} ELSE {}
      OBVIOUS
  <2> HIDE DEF t, B
  <2> QED BY <2>1, <2>3, <2>4, FS_EmptySet, FS_Singleton
<1> HIDE DEF n, t
<1>4. i \in Nat /\ (provider = "anthropic" => i = n - 1)
  <2>1. CASE provider = "openai"
      BY <1>2, <2>1 DEF Provider!IndexOf, Provider!Unnumbered
  <2>2. CASE provider = "anthropic"
      BY <1>2, <2>2 DEF Provider!IndexOf, Provider!Numbered
  <2> QED BY <1>2, <2>1, <2>2
<1> HIDE DEF i
<1>5. A \in Seq(Event) /\ T \in Seq(Event) /\ <<Provider!Stop(i)>> \in Seq(Event)
  <2>1. Provider!Stop(0) \in Event /\ Provider!Stop(i) \in Event
      BY <1>4 DEF Provider!Stop, Event
  <2>2. T \in Seq(Event)
      BY <1>3, <2>1, IsASeq
  <2> QED BY <2>1, <2>2, EmptySeq
<1>6. StreamTypes'
  <2> HIDE DEF A, T
  <2>1. A \o T \in Seq(Event)
      BY <1>5, ConcatProperties
  <2> QED BY <1>1, <1>2, <1>5, <2>1 DEF StreamTypes, Quiet
<1>7. Grows(served, servedAll, served', servedAll')
    BY <1>1, <1>2 DEF Grows
<1>8. ASSUME provider = "openai" => n <= 1
      PROVE  Leads(served', servedAll', outbox', Spoke(served, servedAll),
                   Spoke(served', servedAll'))
  <2> DEFINE c == Spoke(served, servedAll)
             d == Spoke(served', servedAll')
  <2>1. c \in Cursor /\ d \in Cursor
      BY <1>1, <1>2, SpokeCursor
  <2>2. /\ c.block = n /\ c.frags = served[n].frags /\ c.closed = FALSE
        /\ d = [block |-> n, frags |-> c.frags, closed |-> TRUE]
      BY <1>1, <1>2 DEF Spoke
  <2> HIDE DEF c, d
  <2>3. Ends(served', servedAll', c, Provider!Stop(n - 1), d)
      BY <1>1, <1>2, <2>2 DEF Ends, Provider!Stop
  <2>4. Leads(served', servedAll', <<Provider!Stop(n - 1)>>, c, d)
      BY <2>1, <2>3, LeadsOne DEF Advance
  <2>5. outbox' = <<Provider!Stop(n - 1)>>
    <3>1. CASE provider = "anthropic"
        BY <1>1, <1>4, <3>1
    <3>2. CASE provider = "openai"
      <4>1. n = 1 /\ n - 1 = 0 /\ outbox' = A \o T
          BY <1>1, <1>2, <1>8, <3>2
      <4>2. textOpen <=> ~served[1].tool
          BY <1>2, <3>2, <4>1 DEF ContentInv, ServedInv
      <4>3. CASE textOpen
        <5>1. t = 0 /\ T = <<>> /\ A = <<Provider!Stop(0)>>
            BY <1>3, <4>1, <4>2, <4>3
        <5> QED BY <1>5, <4>1, <5>1, ConcatEmptySeq
      <4>4. CASE ~textOpen
        <5>1. t = 1 /\ A = <<>>
            BY <1>3, <4>1, <4>2, <4>4
        <5>2. T = <<Provider!Stop(0)>>
            BY <5>1
        <5> QED BY <1>5, <4>1, <5>1, <5>2, ConcatEmptySeq
      <4> QED BY <4>3, <4>4
    <3> QED BY <1>2, <3>1, <3>2
  <2> QED BY <2>4, <2>5 DEF c, d
<1>9. MessageInv'
    BY <1>1, <1>2, <1>6, <1>7, <1>8, ServerLeads DEF ContentInv, Quiet
<1>10. ServedInv'
    BY <1>1, <1>2 DEF ContentInv, ServedInv, Quiet
<1>11. OutboxInv'
    BY <1>1 DEF ContentInv, OutboxInv, Quiet, Closing
<1> QED BY <1>6, <1>9, <1>10, <1>11 DEF ContentInv

\* A step that sends no more of the response, and at most one event about it.
LEMMA NoticeContent ==
  ASSUME ContentInv, outbox = <<>>,
         outbox' = <<>>
            \/ \E t \in {"message_start", "message_stop"} : outbox' = <<[type |-> t]>>,
         UNCHANGED <<provider, served, servedAll, textOpen, eventCh, msg, blocks>>
  PROVE  StreamTypes' /\ ServedInv' /\ MessageInv'
<1>1. StreamTypes /\ served \in Seq(Spoken) /\ servedAll \in BOOLEAN /\ <<>> \in Seq(Event)
    BY EmptySeq DEF ContentInv, StreamTypes
<1>2. \A t \in {"message_start", "message_stop"} : [type |-> t] \in Event
    BY DEF Event
<1>3. StreamTypes'
  <2>1. outbox' \in Seq(Event)
    <3>1. ASSUME NEW t \in {"message_start", "message_stop"}, outbox' = <<[type |-> t]>>
          PROVE  outbox' \in Seq(Event)
      <4> DEFINE x == [type |-> t]
      <4>1. x \in Event /\ outbox' = <<x>>
          BY <1>2, <3>1
      <4> HIDE DEF x
      <4> QED BY <4>1
    <3> QED BY <1>1, <3>1
  <2> QED BY <1>1, <2>1 DEF StreamTypes
<1>4. Grows(served, servedAll, served', servedAll')
    BY LenProperties, <1>1 DEF Grows
<1> DEFINE c == Spoke(served, servedAll)
<1>5. c \in Cursor /\ Spoke(served', servedAll') = c
    BY <1>1, SpokeCursor
<1> HIDE DEF c
<1>6. Leads(served', servedAll', outbox', c, c)
  <2>1. CASE outbox' = <<>>
      BY <1>5, <2>1, LeadsNowhere
  <2>2. ASSUME NEW t \in {"message_start", "message_stop"}, outbox' = <<[type |-> t]>>
        PROVE  Leads(served', servedAll', outbox', c, c)
    <3>1. Advance(served', servedAll', c, [type |-> t], c)
        BY DEF Advance
    <3> QED BY <1>5, <2>2, <3>1, LeadsOne
  <2> QED BY <2>1, <2>2
<1>7. MessageInv'
    BY <1>1, <1>3, <1>4, <1>5, <1>6, ServerLeads DEF ContentInv, c
<1> QED BY <1>3, <1>7 DEF ContentInv, ServedInv

LEMMA SendContent ==
  ASSUME ErrorInv, ContentInv, Provider!SendEvent
  PROVE  ContentInv'
<1>1. /\ outbox # <<>> /\ eventCh' = Append(eventCh, Head(outbox)) /\ outbox' = Tail(outbox)
      /\ UNCHANGED <<provider, streaming, served, servedAll, textOpen, failed,
                      verdict, msg, blocks>>
      /\ producerPc \in {"scan", "lastSend"}
      /\ producerPc' = IF producerPc = "lastSend" THEN "closeErrs" ELSE producerPc
    BY DEF Provider!SendEvent, Provider!readerVars, Provider!serverVars
<1>2. StreamTypes /\ outbox \in Seq(Event) /\ eventCh \in Seq(Event)
    BY DEF ContentInv, StreamTypes
<1>3. /\ Head(outbox) \in Event /\ Tail(outbox) \in Seq(Event)
    /\ outbox = <<Head(outbox)>> \o Tail(outbox)
      /\ Len(Tail(outbox)) = Len(outbox) - 1 /\ Len(outbox) \in Nat
  <2>1. Head(outbox) \in Event /\ Tail(outbox) \in Seq(Event)
        /\ Len(Tail(outbox)) = Len(outbox) - 1 /\ Len(outbox) \in Nat \ {0}
      BY <1>1, <1>2, HeadTailProperties, EmptySeq
  <2>2. outbox = <<Head(outbox)>> \o Tail(outbox)
      BY <1>1, <1>2
  <2> QED BY <2>1, <2>2
<1>4. eventCh' \in Seq(Event) /\ eventCh' = eventCh \o <<Head(outbox)>>
    BY <1>1, <1>2, <1>3, AppendProperties, AppendIsConcat
<1>5. eventCh' \o outbox' = eventCh \o outbox
  <2> DEFINE h == <<Head(outbox)>>
             t == Tail(outbox)
  <2>1. h \in Seq(Event) /\ t \in Seq(Event) /\ outbox = h \o t /\ outbox' = t
        /\ eventCh' = eventCh \o h
      BY <1>1, <1>3, <1>4
  <2> HIDE DEF h, t
  <2>2. (eventCh \o h) \o t = eventCh \o (h \o t)
      BY <1>2, <2>1, ConcatAssociative
  <2> QED BY <2>1, <2>2
<1>6. StreamTypes'
    BY <1>1, <1>2, <1>3, <1>4 DEF StreamTypes
<1>7. MessageInv'
    BY <1>1, <1>5 DEF ContentInv, MessageInv, Shows, Whole, Part, HasInput
<1>8. ServedInv'
    BY <1>1 DEF ContentInv, ServedInv
<1>9. OutboxInv'
  <2>1. producerPc = "lastSend" => outbox' = <<>>
      BY <1>1, <1>3, EmptySeq DEF ContentInv, OutboxInv
  <2>2. ~(streaming /\ verdict = "ok")
      BY <1>1 DEF ErrorInv, ReportInv
  <2> QED BY <1>1, <2>1, <2>2 DEF OutboxInv, Closing
<1> QED BY <1>6, <1>7, <1>8, <1>9 DEF ContentInv

LEMMA ReadContent ==
  ASSUME ContentInv, Provider!ReadEvent
  PROVE  ContentInv'
<1> DEFINE e == Head(eventCh)
<1>1. /\ eventCh # <<>> /\ Provider!processStreamEvent(e) /\ eventCh' = Tail(eventCh)
      /\ UNCHANGED <<provider, streaming, served, servedAll, textOpen, failed, verdict,
                      outbox, producerPc>>
      /\ verdict = "none"
    BY DEF Provider!ReadEvent, Provider!serverVars, Provider!producerVars, Provider!Reading
<1>2. /\ StreamTypes /\ outbox \in Seq(Event) /\ eventCh \in Seq(Event) /\ e \in Event
      /\ Tail(eventCh) \in Seq(Event) /\ eventCh = <<e>> \o Tail(eventCh)
    BY <1>1, HeadTailProperties DEF ContentInv, StreamTypes
<1>3. /\ Head(eventCh \o outbox) = e /\ Tail(eventCh \o outbox) = Tail(eventCh) \o outbox
      /\ eventCh \o outbox \in Seq(Event) /\ eventCh \o outbox # <<>>
    BY <1>1, <1>2
<1> HIDE DEF e
<1>4. StreamTypes'
    BY <1>1, <1>2, ReaderTypes DEF StreamTypes
<1>5. ASSUME provider = "openai" => Len(served) <= 1
      PROVE  \E r \in Cursor : /\ Shows(served, servedAll, r)'
                               /\ Leads(served', servedAll', eventCh' \o outbox', r,
                                        Spoke(served', servedAll'))
  <2>1. PICK r \in Cursor : /\ Shows(served, servedAll, r)
                            /\ Leads(served, servedAll, eventCh \o outbox, r,
                                     Spoke(served, servedAll))
      BY <1>5 DEF ContentInv, MessageInv
  <2>2. PICK r2 \in Cursor : /\ Advance(served, servedAll, r, e, r2)
                             /\ Leads(served, servedAll, Tail(eventCh) \o outbox, r2,
                                      Spoke(served, servedAll))
      BY <1>3, <2>1, LeadsOff
  <2>3. Shows(served, servedAll, r2)'
      BY <1>1, <1>2, <2>1, <2>2, ReadAdvances
  <2> QED BY <1>1, <2>2, <2>3
<1>6. MessageInv'
    BY <1>1, <1>5 DEF MessageInv
<1>7. ServedInv' /\ OutboxInv'
    BY <1>1 DEF ContentInv, ServedInv, OutboxInv
<1> QED BY <1>4, <1>6, <1>7 DEF ContentInv

contentVars == <<provider, streaming, served, servedAll, textOpen, outbox, eventCh, msg, blocks,
                 producerPc, failed, verdict>>

LEMMA ContentCorrect ==
  ASSUME ErrorInv, ContentInv, ErrorInv', Provider!Next \/ UNCHANGED providerVars
  PROVE  ContentInv'
<1> USE DEF Provider!channelVars, Provider!readerVars, Provider!producerVars, Provider!serverVars
<1> DEFINE Same == UNCHANGED <<provider, streaming, served, servedAll, textOpen,
                           eventCh, msg, blocks>>
<1>1. Same /\ outbox' = outbox => StreamTypes' /\ ServedInv' /\ MessageInv'
  <2>1. Same /\ outbox' = outbox => StreamTypes' /\ ServedInv'
      BY DEF ContentInv, StreamTypes, ServedInv
  <2>2. Same /\ outbox' = outbox => MessageInv'
      BY DEF ContentInv, MessageInv, Shows, Whole, Part, HasInput
  <2> QED BY <2>1, <2>2
<1>2. Same /\ outbox' = outbox /\ OutboxInv' => ContentInv'
    BY <1>1 DEF ContentInv
<1> USE DEF Closing
<1>3. CASE Provider!RequestFails \/ Provider!RequestCancelled
  <2>1. Same /\ outbox' = outbox /\ OutboxInv'
      BY <1>3 DEF Provider!RequestFails, Provider!RequestCancelled, Provider!Report,
              OutboxInv, ContentInv
  <2> QED BY <1>2, <2>1
<1>4. CASE Provider!RequestSucceeds
  <2>1. /\ Same /\ outbox = <<>> /\ producerPc' \in {"scan", "body"} 
        /\ producerPc' = "body" => outbox' = <<>> /\ ~streaming'
        /\ outbox' = <<>> \/ outbox' = <<[type |-> "message_start"]>>
        /\ UNCHANGED verdict
      BY <1>4 DEF Provider!RequestSucceeds, OutboxInv, ContentInv
  <2>2. StreamTypes' /\ ServedInv' /\ MessageInv'
      BY <2>1, NoticeContent
  <2>3. OutboxInv'
      BY <2>1 DEF OutboxInv, ContentInv
  <2> QED BY <2>2, <2>3 DEF ContentInv
<1>5. CASE Provider!BackoffElapses \/ Provider!BackoffCancelled \/ Provider!SendCancelled
  <2>1. Same /\ outbox' = outbox /\ OutboxInv'
      BY <1>5 DEF Provider!BackoffElapses, Provider!BackoffCancelled, Provider!SendCancelled,
                  Provider!Report, OutboxInv, ContentInv
  <2> QED BY <1>2, <2>1
<1>6. CASE Provider!BodyRead
  <2>1. Same /\ outbox' = outbox /\ OutboxInv'
      BY <1>6 DEF Provider!BodyRead, OutboxInv, ContentInv
  <2> QED BY <1>2, <2>1
<1>7. CASE Provider!ScanEnds
  <2>1. /\ Same /\ outbox = <<>> /\ UNCHANGED verdict
        /\ \/ outbox' = <<>> /\ producerPc' \in {"closeErrs", "reporting"}
           \/ /\ outbox' = <<[type |-> "message_stop"]>> /\ Len(outbox') = 1
              /\ producerPc' = "lastSend"
      BY <1>7 DEF Provider!ScanEnds
  <2>2. StreamTypes' /\ ServedInv' /\ MessageInv'
      BY <2>1, NoticeContent
  <2>3. OutboxInv'
    <3>1. Len(outbox') = 1 => Len(outbox') <= 1
        OBVIOUS
    <3>2. CASE outbox' = <<>> /\ producerPc' \in {"closeErrs", "reporting"}
        BY <2>1, <3>2 DEF OutboxInv, ContentInv
    <3>3. CASE Len(outbox') = 1 /\ producerPc' = "lastSend"
        BY <2>1, <3>1, <3>3 DEF OutboxInv, ContentInv
    <3> QED BY <2>1, <3>2, <3>3
  <2> QED BY <2>2, <2>3 DEF ContentInv
<1>8. CASE Provider!SendEvent
    BY <1>8, SendContent
<1>9. CASE Provider!SendError
  <2>1. Same /\ outbox' = outbox /\ OutboxInv'
      BY <1>9 DEF Provider!SendError, OutboxInv, ContentInv, ErrorInv, ReportInv
  <2> QED BY <1>2, <2>1
<1>10. CASE Provider!CloseErrs \/ Provider!CloseEvents
  <2>1. Same /\ outbox' = outbox /\ OutboxInv'
      BY <1>10 DEF Provider!CloseErrs, Provider!CloseEvents, OutboxInv, ContentInv
  <2> QED BY <1>2, <2>1
<1>11. CASE Provider!Server
    BY <1>11, OpensContent, ContinuesContent, FinishesContent DEF Provider!Server
<1>12. CASE Provider!ReadEvent
    BY <1>12, ReadContent
<1>13. CASE Provider!ReadError \/ Provider!ReadClosed \/ Provider!ReadCancelled
  <2>1. Same /\ outbox' = outbox /\ producerPc' = producerPc /\ failed' = failed
        /\ (verdict' = "ok" => eventCh' = <<>> \/ verdict' = verdict)
      BY <1>13 DEF Provider!ReadError, Provider!ReadClosed, Provider!ReadCancelled,
         Provider!ReturnWith, Provider!Reading, ErrorInv, ReportInv, ReportTypes
  <2>2. OutboxInv'
      BY <2>1 DEF OutboxInv, ContentInv
  <2> QED BY <1>2, <2>1, <2>2
<1>14. CASE UNCHANGED contentVars
    BY <1>2, <1>14 DEF contentVars, OutboxInv, ContentInv
<1>15. Provider!Cancel \/ UNCHANGED providerVars => UNCHANGED contentVars
    BY DEF Provider!Cancel, providerVars, contentVars
<1> QED
    BY <1>3, <1>4, <1>5, <1>6, <1>7, <1>8, <1>9, <1>10, <1>11, <1>12, <1>13, <1>14, <1>15
    DEF Provider!Next, Provider!Waits, Provider!Steps, Provider!readStream

(***************************************************************************)
(* What an accepted response says is in the assistant's message, every part *)
(* in its block (AcceptedIsWhole of ProviderStream).                        *)
(***************************************************************************)
THEOREM MessagesCorrect == Spec => []AcceptedIsWhole
<1>1. ErrorInv /\ [Next]_vars => ErrorInv'
    BY ProviderStep, ErrorCorrect
<1>2. ErrorInv /\ ContentInv /\ ErrorInv' /\ [Next]_vars => ContentInv'
    BY ProviderStep, ContentCorrect
<1> QED BY <1>1, <1>2, ErrorInit, ContentInit, ContentMeans, PTL DEF Spec

-----------------------------------------------------------------------------
LEMMA StoreStep == [Next]_vars => Stores!Next \/ UNCHANGED storeVars
<1>1. \A s : Only(s) /\ s # "stores" => UNCHANGED storeVars
    BY DEF Only
<1> QED BY <1>1 DEF Next, vars

-----------------------------------------------------------------------------
(***************************************************************************)
(* ToolStores.  What the counters number is its own ID, and so is a task as *)
(* long as none is deleted: then the tasks are 1 .. made["task"].           *)
(***************************************************************************)
Object == [object : Nat, status : Stores!Statuses]

ItemTypes ==
  /\ items = [k \in Stores!Kinds |-> items[k]]
  /\ \A k \in Stores!Kinds : items[k] \in [DOMAIN items[k] -> Object]
  /\ made \in [Stores!Kinds -> Nat]

Numbered(k) == \A i \in DOMAIN items[k] : items[k][i].object = i

ItemInv ==
  /\ ItemTypes
  /\ \A k \in Stores!Kinds \ {"task"} : Numbered(k)
  /\ ~deletedTask => DOMAIN items["task"] = 1 .. made["task"] /\ Numbered("task")
  /\ \A t \in told :
       /\ t[1] \in Stores!Kinds
       /\ t[1] # "task" => t[3] = t[2]
       /\ t[1] = "task" /\ ~deletedTask => t[3] = t[2] /\ t[2] \in DOMAIN items["task"]

MailInv ==
  /\ ops \in Nat
  /\ \A a \in Agents :
       /\ sent[a] \in Seq(Nat) /\ read[a] \in Seq(Nat) /\ Stores!Box(a) \in Seq(Nat)
       /\ read[a] \o Stores!Box(a) = sent[a]
  /\ DOMAIN sent = Agents /\ DOMAIN read = Agents

StoreInv == ItemInv /\ MailInv

LEMMA StoreInit == Init => StoreInv
<1> SUFFICES ASSUME Init PROVE StoreInv
    OBVIOUS
<1>1. Stores!Init
    BY DEF Init
<1>2. <<>> \in Seq(Nat) /\ <<>> \o <<>> = <<>> /\ Len(<<>>) = 0 /\ DOMAIN <<>> = {}
  <2>1. <<>> \in Seq(Nat) /\ Len(<<>>) = 0
      BY EmptySeq
  <2> QED BY <2>1, ConcatEmptySeq
<1>3. MailInv
    BY <1>1, <1>2 DEF Stores!Init, MailInv, Stores!Box
<1>4. ItemInv
  <2>1. /\ made = [k \in Stores!Kinds |-> 0] /\ items = [k \in Stores!Kinds |-> <<>>]
        /\ told = {} /\ "task" \in Stores!Kinds
      BY <1>1 DEF Stores!Init, Stores!Kinds
  <2>2. <<>> \in [DOMAIN <<>> -> Object]
      BY <1>2
  <2>3. ItemTypes
      BY <2>1, <2>2 DEF ItemTypes
  <2>4. \A k \in Stores!Kinds : Numbered(k)
      BY <1>2, <2>1 DEF Numbered
  <2>5. DOMAIN items["task"] = 1 .. made["task"]
      BY <1>2, <2>1
  <2> QED BY <2>1, <2>3, <2>4, <2>5 DEF ItemInv
<1> QED BY <1>3, <1>4 DEF StoreInv

LEMMA StoresMean == StoreInv => StoresHold
<1> SUFFICES ASSUME StoreInv PROVE Stores!IdsKeepTheirObject /\ Stores!MailKept
    BY DEF StoresHold
<1>1. Stores!MailKept
    BY DEF StoreInv, MailInv, Stores!MailKept
<1>2. Stores!IdsKeepTheirObject
    BY DEF StoreInv, ItemInv, Numbered, Stores!IdsKeepTheirObject
<1> QED BY <1>1, <1>2

-----------------------------------------------------------------------------
(* Mail                                                                     *)
LEMMA Delivered ==
  ASSUME NEW r \in Seq(Nat), NEW b \in Seq(Nat), NEW n \in Nat
  PROVE  r \o Append(b, n) = Append(r \o b, n) /\ Append(b, n) \in Seq(Nat)
         /\ Append(r \o b, n) \in Seq(Nat)
<1>1. /\ <<n>> \in Seq(Nat) /\ r \o b \in Seq(Nat)
      /\ Append(b, n) = b \o <<n>> /\ Append(r \o b, n) = (r \o b) \o <<n>>
  <2>1. <<n>> \in Seq(Nat)
      OBVIOUS
  <2>2. r \o b \in Seq(Nat)
      BY ConcatProperties
  <2> QED BY <2>1, <2>2, AppendIsConcat
<1>2. (r \o b) \o <<n>> = r \o (b \o <<n>>)
    BY <1>1, ConcatAssociative
<1> QED BY <1>1, <1>2, ConcatProperties

\* A box that is not there counts as empty, so that to put it is all it takes.
LEMMA BoxPut ==
  ASSUME NEW a, NEW n, NEW v, boxes' = Stores!Put(boxes, n, v)
  PROVE  Stores!Box(a)' = IF a = n THEN v ELSE Stores!Box(a)
BY DEF Stores!Box, Stores!Put

LEMMA SendMail ==
  ASSUME StoreInv, NEW name \in Agents, Stores!Send(name)
  PROVE  MailInv'
<1>1. /\ boxes' = Stores!Put(boxes, name, Append(Stores!Box(name), ops))
      /\ sent' = [sent EXCEPT ![name] = Append(sent[name], ops)]
      /\ read' = read /\ ops' = ops + 1
    BY DEF Stores!Send, Stores!Operation
<1>2. ASSUME NEW a \in Agents
      PROVE  /\ sent'[a] \in Seq(Nat) /\ read'[a] \in Seq(Nat) /\ Stores!Box(a)' \in Seq(Nat)
             /\ read'[a] \o Stores!Box(a)' = sent'[a]
  <2>1. /\ sent[a] \in Seq(Nat) /\ read[a] \in Seq(Nat) /\ Stores!Box(a) \in Seq(Nat)
        /\ read[a] \o Stores!Box(a) = sent[a] /\ ops \in Nat /\ DOMAIN sent = Agents
      BY DEF StoreInv, MailInv
  <2>2. Stores!Box(a)' = IF a = name THEN Append(Stores!Box(name), ops) ELSE Stores!Box(a)
      BY <1>1, BoxPut
  <2>3. sent'[a] = IF a = name THEN Append(sent[a], ops) ELSE sent[a]
      BY <1>1, <2>1
  <2>4. /\ read[a] \o Append(Stores!Box(a), ops) = Append(sent[a], ops)
        /\ Append(Stores!Box(a), ops) \in Seq(Nat) /\ Append(sent[a], ops) \in Seq(Nat)
    <3>1. /\ read[a] \o Append(Stores!Box(a), ops) = Append(read[a] \o Stores!Box(a), ops)
          /\ Append(Stores!Box(a), ops) \in Seq(Nat)
          /\ Append(read[a] \o Stores!Box(a), ops) \in Seq(Nat)
        BY <2>1, Delivered
    <3> QED BY <2>1, <3>1
  <2>5. CASE a = name
      BY <1>1, <2>1, <2>2, <2>3, <2>4, <2>5
  <2>6. CASE a # name
      BY <1>1, <2>1, <2>2, <2>3, <2>6
  <2> QED BY <2>5, <2>6
<1>3. ops' \in Nat /\ DOMAIN sent' = Agents /\ DOMAIN read' = Agents
    BY <1>1 DEF StoreInv, MailInv
<1> QED BY <1>2, <1>3 DEF MailInv

LEMMA BroadcastMail ==
  ASSUME StoreInv, Stores!Broadcast
  PROVE  MailInv'
<1>1. /\ boxes' = [n \in DOMAIN boxes |-> Append(boxes[n], ops)]
      /\ sent' = [n \in Agents |-> IF n \in DOMAIN boxes THEN Append(sent[n], ops) ELSE sent[n]]
      /\ read' = read /\ ops' = ops + 1
    BY DEF Stores!Broadcast, Stores!Operation
<1>2. ASSUME NEW a \in Agents
      PROVE  /\ sent'[a] \in Seq(Nat) /\ read'[a] \in Seq(Nat) /\ Stores!Box(a)' \in Seq(Nat)
             /\ read'[a] \o Stores!Box(a)' = sent'[a]
  <2>1. /\ sent[a] \in Seq(Nat) /\ read[a] \in Seq(Nat) /\ Stores!Box(a) \in Seq(Nat)
        /\ read[a] \o Stores!Box(a) = sent[a] /\ ops \in Nat
      BY DEF StoreInv, MailInv
  <2>2. Stores!Box(a)' = IF a \in DOMAIN boxes THEN Append(Stores!Box(a), ops) ELSE Stores!Box(a)
      BY <1>1 DEF Stores!Box
  <2>3. sent'[a] = IF a \in DOMAIN boxes THEN Append(sent[a], ops) ELSE sent[a]
      BY <1>1
  <2>4. /\ read[a] \o Append(Stores!Box(a), ops) = Append(sent[a], ops)
        /\ Append(Stores!Box(a), ops) \in Seq(Nat) /\ Append(sent[a], ops) \in Seq(Nat)
    <3>1. /\ read[a] \o Append(Stores!Box(a), ops) = Append(read[a] \o Stores!Box(a), ops)
          /\ Append(Stores!Box(a), ops) \in Seq(Nat)
          /\ Append(read[a] \o Stores!Box(a), ops) \in Seq(Nat)
        BY <2>1, Delivered
    <3> QED BY <2>1, <3>1
  <2>5. CASE a \in DOMAIN boxes
      BY <1>1, <2>1, <2>2, <2>3, <2>4, <2>5
  <2>6. CASE a \notin DOMAIN boxes
      BY <1>1, <2>1, <2>2, <2>3, <2>6
  <2> QED BY <2>5, <2>6
<1>3. ops' \in Nat /\ DOMAIN sent' = Agents /\ DOMAIN read' = Agents
    BY <1>1 DEF StoreInv, MailInv
<1> QED BY <1>2, <1>3 DEF MailInv

LEMMA ReadMail ==
  ASSUME StoreInv, NEW name \in Agents, Stores!Read(name)
  PROVE  MailInv'
<1>1. /\ boxes' = Stores!Put(boxes, name, <<>>)
      /\ read' = [read EXCEPT ![name] = read[name] \o Stores!Box(name)]
      /\ sent' = sent /\ ops' = ops + 1
    BY DEF Stores!Read, Stores!Operation
<1>2. ASSUME NEW a \in Agents
      PROVE  /\ sent'[a] \in Seq(Nat) /\ read'[a] \in Seq(Nat) /\ Stores!Box(a)' \in Seq(Nat)
             /\ read'[a] \o Stores!Box(a)' = sent'[a]
  <2>1. /\ sent[a] \in Seq(Nat) /\ read[a] \in Seq(Nat) /\ Stores!Box(a) \in Seq(Nat)
        /\ read[a] \o Stores!Box(a) = sent[a] /\ DOMAIN read = Agents
      BY DEF StoreInv, MailInv
  <2>2. Stores!Box(a)' = IF a = name THEN <<>> ELSE Stores!Box(a)
      BY <1>1, BoxPut
  <2>3. read'[a] = IF a = name THEN sent[a] ELSE read[a]
      BY <1>1, <2>1
  <2>4. sent[a] \o <<>> = sent[a] /\ <<>> \in Seq(Nat)
      BY <2>1, ConcatEmptySeq
  <2> QED BY <1>1, <2>1, <2>2, <2>3, <2>4
<1>3. ops' \in Nat /\ DOMAIN sent' = Agents /\ DOMAIN read' = Agents
    BY <1>1 DEF StoreInv, MailInv
<1> QED BY <1>2, <1>3 DEF MailInv

LEMMA MailStays ==
  ASSUME StoreInv, sent' = sent, read' = read, ops' \in Nat,
         \A a \in Agents : Stores!Box(a)' = Stores!Box(a)
  PROVE  MailInv'
BY DEF StoreInv, MailInv

-----------------------------------------------------------------------------
(* Objects                                                                  *)
\* What a step makes of the items of kind k has the type if this one has.
LEMMA ItemsTyped ==
  ASSUME ItemTypes, NEW k \in Stores!Kinds, NEW f, f \in [DOMAIN f -> Object],
         items' = [items EXCEPT ![k] = f], made' \in [Stores!Kinds -> Nat]
  PROVE  ItemTypes' /\ items'[k] = f /\ \A j \in Stores!Kinds \ {k} : items'[j] = items[j]
<1>1. DOMAIN items = Stores!Kinds
    BY DEF ItemTypes
<1>2. items'[k] = f /\ \A j \in Stores!Kinds \ {k} : items'[j] = items[j]
    BY <1>1
<1>3. items' = [j \in Stores!Kinds |-> items'[j]]
    BY <1>1
<1>4. \A j \in Stores!Kinds : items'[j] \in [DOMAIN items'[j] -> Object]
    BY <1>2 DEF ItemTypes
<1> QED BY <1>2, <1>3, <1>4 DEF ItemTypes

LEMMA CreateItem ==
  ASSUME StoreInv, NEW k \in Stores!Kinds, Stores!Create(k)
  PROVE  ItemInv'
<1> DEFINE key  == Stores!NextId(k)
           new == [object |-> made[k] + 1, status |-> "pending"]
           f   == Stores!Put(items[k], key, new)
<1>1. /\ items[k] \in [DOMAIN items[k] -> Object] /\ ItemTypes
      /\ made[k] \in Nat /\ made \in [Stores!Kinds -> Nat]
    BY DEF StoreInv, ItemInv, ItemTypes
<1>2. made' = [made EXCEPT ![k] = made[k] + 1] /\ made'[k] = made[k] + 1
    BY <1>1 DEF Stores!Create
<1>3. /\ items' = [items EXCEPT ![k] = f] /\ told' = told \cup {<<k, key, made[k] + 1>>}
      /\ deletedTask' = deletedTask
    BY <1>2 DEF Stores!Create
<1>4. k # "task" \/ ~deletedTask => key = made[k] + 1
  <2>1. k # "task" => key = made[k] + 1
      BY <1>1 DEF Stores!NextId
  <2>2. ASSUME k = "task", ~deletedTask
        PROVE  key = made[k] + 1
    <3>1. DOMAIN items[k] = 1 .. made[k]
        BY <2>2 DEF StoreInv, ItemInv
    <3>2. Cardinality(1 .. made[k]) = made[k]
        BY <1>1, FS_Interval
    <3>3. Stores!Cardinality(1 .. made[k]) = Cardinality(1 .. made[k])
        BY DEF Stores!Cardinality, Cardinality
    <3> QED BY <1>1, <2>2, <3>1, <3>2, <3>3 DEF Stores!NextId
  <2> QED BY <2>1, <2>2
<1>5. new \in Object /\ new.object = made[k] + 1
    BY <1>1 DEF Object, Stores!Statuses
<1> HIDE DEF key, new
<1>6. /\ DOMAIN f = DOMAIN items[k] \cup {key} /\ f[key] = new
      /\ \A i \in DOMAIN items[k] \ {key} : f[i] = items[k][i]
      /\ f \in [DOMAIN f -> Object]
    BY <1>1, <1>5 DEF Stores!Put
<1> HIDE DEF f
<1>7. /\ ItemTypes' /\ items'[k] = f /\ \A j \in Stores!Kinds \ {k} : items'[j] = items[j]
      /\ \A j \in Stores!Kinds \ {k} : made'[j] = made[j]
  <2>1. made' \in [Stores!Kinds -> Nat] /\ \A j \in Stores!Kinds \ {k} : made'[j] = made[j]
      BY <1>1, <1>2
  <2> QED BY <1>1, <1>3, <1>6, <2>1, ItemsTyped
<1>8. k # "task" \/ ~deletedTask =>
        (Numbered(k) => Numbered(k)')
    BY <1>4, <1>5, <1>6, <1>7 DEF Numbered
<1>9. \A j \in Stores!Kinds \ {k} : Numbered(j) => Numbered(j)'
    BY <1>7 DEF Numbered
<1>10. \A j \in Stores!Kinds \ {"task"} : Numbered(j)'
    BY <1>8, <1>9 DEF StoreInv, ItemInv
<1>11. ASSUME ~deletedTask
       PROVE  DOMAIN items'["task"] = 1 .. made'["task"] /\ Numbered("task")'
  <2>1. "task" \in Stores!Kinds /\ DOMAIN items["task"] = 1 .. made["task"] /\ Numbered("task")
        /\ made["task"] \in Nat
      BY <1>1, <1>11 DEF StoreInv, ItemInv, Stores!Kinds
  <2>2. CASE k = "task"
    <3>1. 1 .. made[k] + 1 = (1 .. made[k]) \cup {made[k] + 1}
        BY <1>1
    <3> QED BY <1>2, <1>4, <1>6, <1>7, <1>8, <1>11, <2>1, <2>2, <3>1
  <2>3. CASE k # "task"
      BY <1>7, <1>9, <2>1, <2>3
  <2> QED BY <2>2, <2>3
<1>12. ASSUME NEW t \in told'
       PROVE  /\ t[1] \in Stores!Kinds
              /\ t[1] # "task" => t[3] = t[2]
              /\ t[1] = "task" /\ ~deletedTask => t[3] = t[2] /\ t[2] \in DOMAIN items'["task"]
  <2>1. CASE t = <<k, key, made[k] + 1>>
      BY <1>4, <1>6, <1>7, <2>1
  <2>2. CASE t \in told
    <3>1. DOMAIN items["task"] \subseteq DOMAIN items'["task"]
        BY <1>6, <1>7 DEF Stores!Kinds
    <3> QED BY <2>2, <3>1 DEF StoreInv, ItemInv
  <2> QED BY <1>3, <2>1, <2>2
<1> QED BY <1>3, <1>7, <1>10, <1>11, <1>12 DEF ItemInv

\* A step that keeps the object of every ID, and every ID of a task.
LEMMA ObjectsStay ==
  ASSUME StoreInv, ItemTypes', made' = made, told' = told, deletedTask => deletedTask',
         \A j \in Stores!Kinds : \A i \in DOMAIN items'[j] :
           i \in DOMAIN items[j] /\ items'[j][i].object = items[j][i].object,
         ~deletedTask' => DOMAIN items'["task"] = DOMAIN items["task"]
  PROVE  ItemInv'
<1>1. \A j \in Stores!Kinds : Numbered(j) => Numbered(j)'
    BY DEF Numbered
<1> QED BY <1>1 DEF StoreInv, ItemInv, Stores!Kinds

LEMMA SetItem ==
  ASSUME StoreInv, NEW k \in Stores!Kinds, NEW i \in DOMAIN items[k], NEW s \in Stores!Statuses,
         items' = [items EXCEPT ![k][i].status = s], UNCHANGED <<made, told, deletedTask>>
  PROVE  ItemInv'
<1> DEFINE r == [items[k][i] EXCEPT !.status = s]
           f == [items[k] EXCEPT ![i] = r]
<1>1. /\ items[k] \in [DOMAIN items[k] -> Object] /\ ItemTypes /\ made \in [Stores!Kinds -> Nat]
    BY DEF StoreInv, ItemInv, ItemTypes
<1>2. items' = [items EXCEPT ![k] = f]
    BY <1>1 DEF ItemTypes
<1>3. r \in Object /\ r.object = items[k][i].object
    BY <1>1 DEF Object
<1> HIDE DEF r
<1>4. /\ f \in [DOMAIN f -> Object] /\ DOMAIN f = DOMAIN items[k]
      /\ \A x \in DOMAIN f : f[x].object = items[k][x].object
    BY <1>1, <1>3
<1> HIDE DEF f
<1>5. ItemTypes' /\ items'[k] = f /\ \A j \in Stores!Kinds \ {k} : items'[j] = items[j]
    BY <1>1, <1>2, <1>4, ItemsTyped
<1>6. \A j \in Stores!Kinds : DOMAIN items'[j] = DOMAIN items[j]
    BY <1>4, <1>5
<1>7. \A j \in Stores!Kinds : \A x \in DOMAIN items'[j] : items'[j][x].object = items[j][x].object
    BY <1>4, <1>5
<1>8. "task" \in Stores!Kinds
    BY DEF Stores!Kinds
<1> QED BY <1>5, <1>6, <1>7, <1>8, ObjectsStay

LEMMA DeleteItems ==
  ASSUME StoreInv, NEW k \in Stores!Kinds, NEW ids, Stores!Delete(k, ids)
  PROVE  ItemInv'
<1> DEFINE f == [x \in DOMAIN items[k] \ ids |-> items[k][x]]
<1>1. /\ items[k] \in [DOMAIN items[k] -> Object] /\ ItemTypes /\ made \in [Stores!Kinds -> Nat]
    BY DEF StoreInv, ItemInv, ItemTypes
<1>2. /\ items' = [items EXCEPT ![k] = f] /\ UNCHANGED <<made, told>>
      /\ deletedTask' <=> deletedTask \/ k = "task"
  <2>1. Stores!RestrictDomain(items[k], LAMBDA i : i \notin ids) = f
      BY DEF Stores!RestrictDomain, Stores!Restrict
  <2> QED BY <2>1 DEF Stores!Delete
<1>3. f \in [DOMAIN f -> Object] /\ DOMAIN f = DOMAIN items[k] \ ids
      /\ \A x \in DOMAIN f : f[x] = items[k][x]
    BY <1>1
<1> HIDE DEF f
<1>4. ItemTypes' /\ items'[k] = f /\ \A j \in Stores!Kinds \ {k} : items'[j] = items[j]
    BY <1>1, <1>2, <1>3, ItemsTyped
<1>5. \A j \in Stores!Kinds : \A x \in DOMAIN items'[j] :
        x \in DOMAIN items[j] /\ items'[j][x].object = items[j][x].object
    BY <1>3, <1>4
<1>6. ~deletedTask' => DOMAIN items'["task"] = DOMAIN items["task"]
    BY <1>2, <1>4 DEF Stores!Kinds
<1> QED BY <1>2, <1>4, <1>5, <1>6, ObjectsStay

-----------------------------------------------------------------------------
LEMMA StoreCorrect ==
  ASSUME StoreInv, Stores!Next \/ UNCHANGED storeVars
  PROVE  StoreInv'
<1> DEFINE Kept == UNCHANGED <<items, made, told, deletedTask>>
<1>1. Kept => ItemInv'
    BY DEF StoreInv, ItemInv, ItemTypes, Numbered
<1>2. ASSUME UNCHANGED <<boxes, sent, read>>, ops' = ops + 1 \/ ops' = ops
      PROVE  MailInv'
    BY <1>2 DEF StoreInv, MailInv, Stores!Box
<1>3. ASSUME NEW k \in Stores!Kinds, Stores!Create(k) PROVE StoreInv'
    BY <1>2, <1>3, CreateItem DEF Stores!Create, Stores!OnItems, Stores!Operation, StoreInv
<1>4. ASSUME NEW k \in Stores!Kinds, NEW i, NEW s \in Stores!Statuses, Stores!SetStatus(k, i, s)
      PROVE  StoreInv'
    BY <1>2, <1>4, SetItem DEF Stores!SetStatus, Stores!OnItems, Stores!Operation, StoreInv
<1>5. ASSUME NEW k \in Stores!Kinds, NEW ids, Stores!Delete(k, ids) PROVE StoreInv'
  <2>1. ItemInv'
      BY <1>5, DeleteItems
  <2>2. UNCHANGED <<boxes, sent, read>> /\ ops' = ops + 1
      BY <1>5 DEF Stores!Delete, Stores!OnItems, Stores!Operation
  <2> QED BY <1>2, <2>1, <2>2 DEF StoreInv
<1>6. {"task", "todo", "team", "cron"} = Stores!Kinds
      /\ {"pending", "completed", "cancelled"} = Stores!Statuses
    BY DEF Stores!Kinds, Stores!Statuses
<1>7. Stores!TaskCreate \/ Stores!TodoWrite \/ Stores!TeamCreate \/ Stores!CronCreate => StoreInv'
    BY <1>3, <1>4, <1>5, <1>6 DEF Stores!TaskCreate, Stores!TodoWrite, Stores!TeamCreate,
       Stores!CronCreate, Stores!TodoAdd, Stores!TodoClear, Stores!TodoToggle, Stores!TodoRemove
<1>8. ASSUME NEW i PROVE Stores!TaskUpdate(i) \/ Stores!TeamDelete(i) \/ Stores!CronDelete(i)
                          => StoreInv'
    BY <1>4, <1>5, <1>6 DEF Stores!TaskUpdate, Stores!TeamDelete, Stores!CronDelete
<1>9. ASSUME NEW a, NEW i, Stores!StopLooksUp(a, i) PROVE StoreInv'
    BY <1>1, <1>2, <1>9 DEF Stores!StopLooksUp, Stores!history, Stores!Operation, StoreInv
<1>10. ASSUME NEW a, Stores!StopCancels(a) PROVE StoreInv'
  <2>1. MailInv' /\ UNCHANGED <<made, told, deletedTask>>
      BY <1>2, <1>10 DEF Stores!StopCancels, Stores!history
  <2>2. CASE target[a] \in DOMAIN items["task"]
    <3>1. items' = [items EXCEPT !["task"][target[a]].status = "cancelled"]
        BY <1>10, <2>2 DEF Stores!StopCancels
    <3> QED BY <1>6, <2>1, <2>2, <3>1, SetItem DEF StoreInv
  <2>3. CASE target[a] \notin DOMAIN items["task"]
    <3>1. items' = items
        BY <1>10, <2>3 DEF Stores!StopCancels
    <3> QED BY <1>1, <2>1, <3>1 DEF StoreInv
  <2> QED BY <2>2, <2>3
<1>11. ASSUME NEW a \in Agents, Stores!Register(a) PROVE StoreInv'
  <2>1. Kept /\ sent' = sent /\ read' = read /\ ops' = ops + 1
        /\ boxes' = Stores!Put(boxes, a, Stores!Box(a))
      BY <1>11 DEF Stores!Register, Stores!OnMail, Stores!Operation
  <2>2. \A n \in Agents : Stores!Box(n)' = Stores!Box(n)
      BY <2>1, BoxPut
  <2>3. ops' \in Nat
      BY <2>1 DEF StoreInv, MailInv
  <2> QED BY <1>1, <2>1, <2>2, <2>3, MailStays DEF StoreInv
<1>12. ASSUME NEW a \in Agents, Stores!Send(a) PROVE StoreInv'
    BY <1>1, <1>12, SendMail DEF Stores!Send, Stores!OnMail, StoreInv
<1>13. ASSUME NEW a \in Agents, Stores!Read(a) PROVE StoreInv'
    BY <1>1, <1>13, ReadMail DEF Stores!Read, Stores!OnMail, StoreInv
<1>14. CASE Stores!Broadcast
    BY <1>1, <1>14, BroadcastMail DEF Stores!Broadcast, Stores!OnMail, StoreInv
<1>15. CASE Stores!EnterPlanMode \/ Stores!ExitPlanMode
    BY <1>1, <1>2, <1>15 DEF Stores!EnterPlanMode, Stores!ExitPlanMode, Stores!SetPlan,
       Stores!history, Stores!Operation, StoreInv
<1>16. CASE UNCHANGED storeVars
    BY <1>1, <1>2, <1>16 DEF storeVars, StoreInv
<1> QED BY <1>7, <1>8, <1>9, <1>10, <1>11, <1>12, <1>13, <1>14, <1>15, <1>16 DEF Stores!Next

(***************************************************************************)
(* IDs given out keep naming their object, of tasks until one is deleted    *)
(* (TaskStore.Create counts the tasks, the other stores count creations),   *)
(* and mail is delivered once and in order (Mailbox).                       *)
(***************************************************************************)
THEOREM StoresCorrect == Spec => []StoresHold
<1>1. StoreInv /\ [Next]_vars => StoreInv'
    BY StoreStep, StoreCorrect
<1> QED BY <1>1, StoreInit, StoresMean, PTL DEF Spec

-----------------------------------------------------------------------------
LEMMA AdmissionStep == [Next]_vars => Admission!Next \/ UNCHANGED admissionVars
<1>1. \A s : Only(s) /\ s # "admission" => UNCHANGED admissionVars
    BY DEF Only
<1> QED BY <1>1 DEF Next, vars

-----------------------------------------------------------------------------
(***************************************************************************)
(* ToolAdmission.  The snapshot of the policy has a mode that the call has  *)
(* met, allows no more than the call has met, and denies all that was       *)
(* denied throughout; so an input that passed it is within the bounds.      *)
(***************************************************************************)
Visible == bound \notin {"unlisted", "disallowed"}

Within ==
  /\ Visible
  /\ arg \notin denied
  /\ modes = {"plan"} => arg = "read"
  /\ modes = {"dontAsk"} => Admission!Preapproved(<<"dontAsk", allowed, {}>>, arg)

SnapshotInv ==
  /\ mode \in modes /\ allowRules \subseteq allowed /\ denied \subseteq denyRules
  /\ snapshot[1] \in modes /\ snapshot[2] \subseteq allowed /\ denied \subseteq snapshot[3]

AdmissionInv ==
  /\ SnapshotInv
  /\ admissionAt \in {"permissionHooks", "host"} => Visible
  /\ admissionAt \in {"preToolHooks", "run"} => Within

LEMMA AdmissionInit == Init => AdmissionInv
<1> SUFFICES ASSUME Init PROVE AdmissionInv
    OBVIOUS
<1>1. Admission!Init
    BY DEF Init
<1> QED BY <1>1 DEF Admission!Init, Admission!config, AdmissionInv, SnapshotInv

\* What a snapshot s that is true of the call lets pass is within the bounds.
LEMMA PassedIsWithin ==
  ASSUME NEW s, NEW i, Visible, s[1] \in modes, s[2] \subseteq allowed, denied \subseteq s[3],
         ~ Admission!StillDenied(s, i)
  PROVE  /\ i \notin denied
         /\ modes = {"plan"} => i = "read"
         /\ modes = {"dontAsk"} => Admission!Preapproved(<<"dontAsk", allowed, {}>>, i)
<1>1. modes = {"dontAsk"} => s[1] = "dontAsk" /\ Admission!Preapproved(s, i)
    BY DEF Admission!StillDenied
<1>2. ASSUME s[1] = "dontAsk", Admission!Preapproved(s, i)
      PROVE  Admission!Preapproved(<<"dontAsk", allowed, {}>>, i)
    BY <1>2 DEF Admission!Preapproved
<1> QED BY <1>1, <1>2 DEF Admission!StillDenied

\* A change of the configuration only narrows what the bounds ask.
LEMMA NoteCorrect ==
  ASSUME AdmissionInv, Admission!Note
  PROVE  AdmissionInv'
<1>1. /\ UNCHANGED <<bound, hasHost, isEditTool, admissionAt, arg, snapshot>>
      /\ denied' = denied \cap denyRules' /\ modes' = modes \cup {mode'}
      /\ allowed' = allowed \cup allowRules'
    BY DEF Admission!Note, Admission!static
<1>2. SnapshotInv'
    BY <1>1 DEF AdmissionInv, SnapshotInv
<1>3. Visible => Visible'
    BY <1>1 DEF Visible
<1>4. Within => Within'
  <2> SUFFICES ASSUME Within PROVE Within'
      OBVIOUS
  <2>1. \A m : modes' = {m} => modes = {m}
      BY <1>1 DEF AdmissionInv, SnapshotInv
  <2>2. ASSUME modes' = {"dontAsk"}
        PROVE  Admission!Preapproved(<<"dontAsk", allowed, {}>>, arg)'
    <3>1. Admission!Preapproved(<<"dontAsk", allowed, {}>>, arg)
        BY <2>1, <2>2 DEF Within
    <3> QED BY <1>1, <3>1 DEF Admission!Preapproved
  <2> QED BY <1>1, <1>3, <2>1, <2>2 DEF Within
<1> QED BY <1>1, <1>2, <1>3, <1>4 DEF AdmissionInv

\* A step of the call leaves the configuration and what was met of it alone.
LEMMA CallCorrect ==
  ASSUME AdmissionInv, NEW w, NEW i, Admission!Goes(w, i),
         SnapshotInv => SnapshotInv',
         w \in {"permissionHooks", "host"} => Visible,
         w \in {"preToolHooks", "run"} =>
           /\ Visible /\ i \notin denied
           /\ modes = {"plan"} => i = "read"
           /\ modes = {"dontAsk"} => Admission!Preapproved(<<"dontAsk", allowed, {}>>, i)
  PROVE  AdmissionInv'
<1>1. /\ admissionAt' = w /\ arg' = i
      /\ UNCHANGED <<bound, hasHost, isEditTool, denied, modes, allowed>>
    BY DEF Admission!Goes, Admission!static, Admission!history
<1>2. Admission!Preapproved(<<"dontAsk", allowed, {}>>, i)
        => Admission!Preapproved(<<"dontAsk", allowed, {}>>, arg)'
    BY <1>1 DEF Admission!Preapproved
<1> QED BY <1>1, <1>2 DEF AdmissionInv, Visible, Within

LEMMA AdmissionCorrect ==
  ASSUME AdmissionInv, Admission!Next \/ UNCHANGED admissionVars
  PROVE  AdmissionInv'
<1> DEFINE now == <<mode, allowRules, denyRules>>
<1>0. /\ now[1] = mode /\ now[2] = allowRules /\ now[3] = denyRules
      /\ mode \in modes /\ allowRules \subseteq allowed /\ denied \subseteq denyRules
    BY DEF AdmissionInv, SnapshotInv
<1>1. CASE UNCHANGED admissionVars
    BY <1>1 DEF admissionVars, AdmissionInv, SnapshotInv, Within, Visible, Admission!Preapproved
<1>2. CASE Admission!Note
    BY <1>2, NoteCorrect
<1>3. CASE Admission!CheckPolicy
  <2> DEFINE refused == Admission!OutOfBounds(now, arg)
             asks    == hasHost /\ Admission!AsksCallback(now, arg)
  <2>1. PICK w \in {"refused", "permissionHooks", "preToolHooks"} :
          /\ Admission!Goes(w, arg) /\ snapshot' = now
          /\ w # "refused" => ~ Admission!OutOfBounds(now, arg)
          /\ w = "preToolHooks" => Admission!Preapproved(now, arg)
    <3>1. snapshot' = now
        BY <1>3 DEF Admission!CheckPolicy, Admission!config
    <3>2. CASE refused
      <4>1. Admission!Goes("refused", arg)
          BY <1>3, <3>2 DEF Admission!CheckPolicy, Admission!config
      <4> QED BY <3>1, <4>1
    <3>3. CASE ~refused /\ asks
      <4>1. Admission!Goes("permissionHooks", arg)
          BY <1>3, <3>3 DEF Admission!CheckPolicy, Admission!config
      <4> QED BY <3>1, <3>3, <4>1
    <3>4. CASE ~refused /\ ~asks /\ Admission!Preapproved(now, arg)
      <4>1. Admission!Goes("preToolHooks", arg)
          BY <1>3, <3>4 DEF Admission!CheckPolicy, Admission!config
      <4> QED BY <3>1, <3>4, <4>1
    <3>5. CASE ~refused /\ ~asks /\ ~ Admission!Preapproved(now, arg)
      <4>1. Admission!Goes("refused", arg)
          BY <1>3, <3>5 DEF Admission!CheckPolicy, Admission!config
      <4> QED BY <3>1, <4>1
    <3> QED BY <3>2, <3>3, <3>4, <3>5
  <2>2. w # "refused" => Visible
      BY <2>1 DEF Admission!OutOfBounds, Visible
  <2>3. w = "preToolHooks" => ~ Admission!StillDenied(now, arg)
      BY <2>1 DEF Admission!OutOfBounds, Admission!StillDenied
  <2>4. SnapshotInv'
      BY <1>0, <2>1 DEF Admission!Goes, Admission!config, Admission!history, SnapshotInv
  <2> HIDE DEF now
  <2> QED BY <1>0, <2>1, <2>2, <2>3, <2>4, PassedIsWithin, CallCorrect
<1>4. CASE Admission!PermissionHooks
  <2>1. PICK w \in {"host", "refused"} : Admission!Goes(w, arg) /\ UNCHANGED snapshot
      BY <1>4 DEF Admission!PermissionHooks
  <2>2. Visible
      BY <1>4 DEF Admission!PermissionHooks, AdmissionInv
  <2>3. SnapshotInv => SnapshotInv'
      BY <2>1 DEF Admission!Goes, Admission!config, Admission!history, SnapshotInv
  <2> QED BY <2>1, <2>2, <2>3, CallCorrect
<1>5. CASE Admission!HostAnswers
  <2>1. Visible /\ UNCHANGED snapshot
      BY <1>5 DEF Admission!HostAnswers, AdmissionInv
  <2>2. PICK w, i : /\ Admission!Goes(w, i)
                    /\ \/ w = "refused"
                       \/ w = "preToolHooks" /\ ~ Admission!StillDenied(snapshot, i)
      BY <1>5 DEF Admission!HostAnswers
  <2>3. SnapshotInv => SnapshotInv'
      BY <2>1, <2>2 DEF Admission!Goes, Admission!config, Admission!history, SnapshotInv
  <2>4. snapshot[1] \in modes /\ snapshot[2] \subseteq allowed /\ denied \subseteq snapshot[3]
      BY DEF AdmissionInv, SnapshotInv
  <2> QED BY <2>1, <2>2, <2>3, <2>4, PassedIsWithin, CallCorrect
<1>6. CASE Admission!PreToolHooks
  <2>1. PICK w, i : /\ Admission!Goes(w, i) /\ UNCHANGED snapshot
                    /\ w \in {"refused", "recheck"} \/ (w = "run" /\ i = arg)
      BY <1>6 DEF Admission!PreToolHooks
  <2>2. Within
      BY <1>6 DEF Admission!PreToolHooks, AdmissionInv
  <2>3. SnapshotInv => SnapshotInv'
      BY <2>1 DEF Admission!Goes, Admission!config, Admission!history, SnapshotInv
  <2> QED BY <2>1, <2>2, <2>3, CallCorrect DEF Within
<1>7. CASE Admission!Recheck
  <2>1. PICK w \in {"refused", "run"} :
          /\ Admission!Goes(w, arg) /\ snapshot' = now
          /\ w = "run" => /\ ~ Admission!OutOfBounds(now, arg)
                          /\ IF Admission!AsksCallback(now, arg)
                             THEN ~ Admission!StillDenied(now, arg)
                             ELSE Admission!Preapproved(now, arg)
      BY <1>7 DEF Admission!Recheck, Admission!config
  <2>2. w = "run" => Visible
      BY <2>1 DEF Admission!OutOfBounds, Visible
  <2>3. w = "run" => ~ Admission!StillDenied(now, arg)
      BY <2>1 DEF Admission!OutOfBounds, Admission!StillDenied
  <2>4. SnapshotInv'
      BY <1>0, <2>1 DEF Admission!Goes, Admission!config, Admission!history, SnapshotInv
  <2> HIDE DEF now
  <2> QED BY <1>0, <2>1, <2>2, <2>3, <2>4, PassedIsWithin, CallCorrect
<1>8. CASE Admission!Over
  <2>1. UNCHANGED admissionVars
      BY <1>8 DEF Admission!Over, Admission!vars, Admission!static, Admission!config,
                  Admission!history, admissionVars
  <2> QED BY <1>1, <2>1
<1> QED BY <1>1, <1>2, <1>3, <1>4, <1>5, <1>6, <1>7, <1>8
        DEF Admission!Next, Admission!SetMode, Admission!AddRules, Admission!RemoveRules,
            Admission!ReplaceRules

(***************************************************************************)
(* A tool call runs with an input that the bounds, the rules and the mode   *)
(* allow, whatever hooks, host and editor of the rules do: NewPolicy looks  *)
(* a second time at what the callback has put in the input's place, and the *)
(* recheck at what a PreToolUse hook has.                                   *)
(***************************************************************************)
THEOREM AdmissionsCorrect == Spec => []CallsAdmitted
<1>1. AdmissionInv => CallsAdmitted
    BY DEF AdmissionInv, CallsAdmitted, Admission!WithinBounds, Admission!DontAskHolds,
           Within, Visible
<1>2. AdmissionInv /\ [Next]_vars => AdmissionInv'
    BY AdmissionStep, AdmissionCorrect
<1> QED BY <1>1, <1>2, AdmissionInit, PTL DEF Spec

-----------------------------------------------------------------------------
\* What a step is to one part: a step of its own, or none.
LEMMA CommandStep == [Next]_vars => Commands!Next \/ UNCHANGED commandVars
<1>1. \A s : Only(s) /\ s # "commands" => UNCHANGED commandVars
    BY DEF Only
<1> QED BY <1>1 DEF Next, vars

-----------------------------------------------------------------------------
(***************************************************************************)
(* Shell                                                                   *)
(***************************************************************************)
Killable == bash = "killed" => due \/ cancelled

CallInv ==
  /\ at \in {"idle", "run", "decide", "returned"}
  /\ at = "idle" => bash = "none"
  /\ bash \in {"none", "alive", "ended", "killed"}
  /\ child \in BOOLEAN /\ due \in BOOLEAN /\ cancelled \in BOOLEAN
  /\ bash = "none" => ~child

\* A call past cmd.Run has no process and no holder of the pipe; one whose
\* process was killed was given a reason, and has told it.
EndInv ==
  /\ at \in {"decide", "returned"} => bash # "alive" /\ ~child
  /\ bash = "killed" => due \/ cancelled
  /\ result = "output" => at = "returned"
  /\ result = "output" /\ bash = "killed" => cancelled

\* A background command is listed before its end can be seen.
JobInv ==
  /\ job \in [Commands!Jobs -> {"none", "starting", "failed", "alive", "ended"}]
  /\ \A j \in Commands!Jobs : job[j] \in {"alive", "ended"} => j \in listed
  /\ waited \subseteq listed /\ done \subseteq waited

CommandInv == CallInv /\ EndInv /\ JobInv

LEMMA CommandInit == Init => CommandInv
  BY DEF Init, Commands!Init, CommandInv, CallInv, EndInv, JobInv, Commands!Jobs

LEMMA CommandCorrect ==
  ASSUME CommandInv, Commands!Next \/ UNCHANGED commandVars
  PROVE  CommandInv'
<1> USE DEF CommandInv
<1>1. CASE UNCHANGED commandVars
    BY <1>1 DEF commandVars, CallInv, EndInv, JobInv
<1>2. CASE Commands!Next
  <2> USE DEF Commands!foreground, Commands!background
  <2>1. CASE Commands!Start \/ Commands!BashEnds
      BY <2>1 DEF Commands!Start, Commands!BashEnds, CallInv, EndInv, JobInv
  <2>2. CASE Commands!BashStartsChild \/ Commands!ChildEnds
    <3>1. CallInv' /\ JobInv'
        BY <2>2 DEF Commands!BashStartsChild, Commands!ChildEnds, CallInv, JobInv
    <3>2. EndInv'
        BY <2>2 DEF Commands!BashStartsChild, Commands!ChildEnds, CallInv, EndInv
    <3> QED BY <3>1, <3>2
  <2>8. CASE Commands!TimeoutPasses
      BY <2>8 DEF Commands!TimeoutPasses, CallInv, EndInv, JobInv
  <2>10. CASE Commands!CallerCancels
      BY <2>10 DEF Commands!CallerCancels, CallInv, EndInv, JobInv
  <2>9. CASE Commands!Kill
      BY <2>9 DEF Commands!Kill, Commands!StopsCommand, Commands!ContextDone,
                  CallInv, EndInv, JobInv
  <2>3. CASE Commands!RunReturns
      BY <2>3 DEF Commands!RunReturns, Commands!OutputEnded, CallInv, EndInv, JobInv
  <2>4. CASE Commands!Decide
    <3>1. result' = "output" => ~due \/ cancelled
        BY <2>4 DEF Commands!Decide, CallInv
    <3>2. CallInv' /\ JobInv'
        BY <2>4 DEF Commands!Decide, CallInv, JobInv
    <3>3. EndInv'
        BY <2>4, <3>1 DEF Commands!Decide, EndInv, CallInv
    <3> QED BY <3>2, <3>3
  <2>5. CASE Commands!StartJob
      BY <2>5 DEF Commands!StartJob, CallInv, EndInv, JobInv, Commands!Jobs
  <2>6. ASSUME NEW j \in Commands!Jobs,
               Commands!ListJob(j) \/ Commands!WaitReturns(j) \/ Commands!CloseDone(j)
        PROVE  CommandInv'
      BY <2>6 DEF Commands!ListJob, Commands!WaitReturns, Commands!CloseDone,
                  Commands!Waited, CallInv, EndInv, JobInv
  <2>7. CASE Commands!Over
      BY <2>7 DEF Commands!Over, Commands!vars, CallInv, EndInv, JobInv
  <2> QED BY <1>2, <2>1, <2>2, <2>3, <2>4, <2>5, <2>6, <2>7, <2>8, <2>9, <2>10 DEF Commands!Next
<1> QED BY <1>1, <1>2

(***************************************************************************)
(* A command's result is final (ResultsFinal of Shell): the call returns    *)
(* when its process is gone and the pipe is free, "output" of a killed      *)
(* process only when the caller had cancelled, and who finds Done of a      *)
(* background command closed finds its Err set.                             *)
(***************************************************************************)
THEOREM CommandsCorrect == Spec => []ResultsFinal
<1>1. CommandInv => ResultsFinal
    BY DEF CommandInv, CallInv, EndInv, JobInv, ResultsFinal, Commands!ResultsFinal
<1>2. CommandInv /\ [Next]_vars => CommandInv'
    BY CommandStep, CommandCorrect
<1> QED BY <1>1, <1>2, CommandInit, PTL DEF Spec

-----------------------------------------------------------------------------
LEMMA EditingStep == [Next]_vars => Editing!Next \/ UNCHANGED editingVars
<1>1. \A s : Only(s) /\ s # "editing" => UNCHANGED editingVars
    BY DEF Only
<1> QED BY <1>1 DEF Next, vars

-----------------------------------------------------------------------------
(***************************************************************************)
(* FileTools                                                               *)
(***************************************************************************)
ToolPlaces == {"idle", "record", "check", "write"}

\* Contents are numbered as they are written, times are integers.
EditTypes ==
  /\ contents \in Nat /\ file \in 0 .. contents
  /\ clock \in Nat \ {0} /\ modTime \in Nat
  /\ known \in [Runs -> Nat] /\ readAt \in [Runs -> Nat]
  /\ tool \in [Runs -> {"Read", "Edit", "Write", "NotebookEdit"}]
  /\ toolAt \in [Runs -> ToolPlaces]
  /\ data \in [Runs -> 0 .. contents]

\* What a tool may write over the content it has itself read: there was none,
\* it is the one its Run knows, or it is no younger than what the Run knows.
MayReplace(r) ==
  \/ file = Editing!NoFile
  \/ known[r] \in {Editing!Unread, file}
  \/ modTime <= readAt[r]

\* Past the check, and until somebody changes the file, a tool may replace it.
WriteInv ==
  \A r \in Runs :
    toolAt[r] = "write" /\ tool[r] # "NotebookEdit" /\ file = data[r] => MayReplace(r)

EditInv == EditTypes /\ WriteInv

LEMMA EditInit == Init => EditInv
  BY DEF Init, Editing!Init, EditInv, EditTypes, WriteInv, MayReplace, ToolPlaces,
         Editing!NoFile, Editing!Unread

\* Whoever writes the file, the tools at work have read another content.
LEMMA FileWritten ==
  ASSUME EditInv, Editing!NewContent, NEW r \in Runs, data'[r] = data[r]
  PROVE  file' # data'[r]
  BY DEF EditInv, EditTypes, Editing!NewContent

\* Of a step that leaves the file alone, only what the Run knows matters.
LEMMA RunKeeps ==
  ASSUME EditInv, UNCHANGED <<file, modTime>>, NEW r \in Runs,
         UNCHANGED <<known[r], readAt[r], tool[r], toolAt[r], data[r]>>
  PROVE  toolAt'[r] = "write" /\ tool'[r] # "NotebookEdit" /\ file' = data'[r]
           => MayReplace(r)'
  BY DEF EditInv, WriteInv, MayReplace

\* The steps of one Run.
RunSteps(r) ==
  \/ Editing!Read(r) \/ Editing!Edit(r) \/ Editing!Write(r) \/ Editing!NotebookEdit(r)
  \/ Editing!CheckStale(r) \/ Editing!ChangeFails(r) \/ Editing!WriteFails(r)
  \/ Editing!ReadUnrecorded(r) \/ Editing!EditWrites(r) \/ Editing!WriteWrites(r)
  \/ Editing!NotebookWrites(r) \/ Editing!RecordState(r)

LEMMA EditCorrect ==
  ASSUME EditInv, Editing!Next \/ UNCHANGED editingVars
  PROVE  EditInv'
<1> USE DEF Editing!Goes, Editing!NoFile, Editing!Unread
<1>1. CASE UNCHANGED editingVars
    BY <1>1 DEF editingVars, EditInv, EditTypes, WriteInv, MayReplace
<1>2. CASE Editing!Tick
    BY <1>2 DEF Editing!Tick, EditInv, EditTypes, WriteInv, MayReplace
<1>3. CASE Editing!OtherWrites
  <2>1. EditTypes'
      BY <1>3 DEF Editing!OtherWrites, Editing!NewContent, EditInv, EditTypes
  <2>2. WriteInv'
      BY <1>3, FileWritten DEF Editing!OtherWrites, WriteInv
  <2> QED BY <2>1, <2>2 DEF EditInv
<1>4. ASSUME NEW r \in Runs, RunSteps(r)
      PROVE  EditInv'
  <2>1. CASE Editing!Read(r) \/ Editing!Edit(r) \/ Editing!Write(r) \/ Editing!NotebookEdit(r)
    <3>1. PICK t \in {"Read", "Edit", "Write", "NotebookEdit"}, where \in ToolPlaces :
             /\ Editing!Begins(r, t, where)
             /\ where = "write" => t = "NotebookEdit" \/ file = Editing!NoFile
        BY <2>1 DEF Editing!Read, Editing!Edit, Editing!Write, Editing!NotebookEdit, ToolPlaces
    <3>2. EditTypes'
        BY <3>1 DEF Editing!Begins, EditInv, EditTypes
    <3>3. WriteInv'
      <4>1. \A q \in Runs \ {r} : UNCHANGED <<known[q], readAt[q], tool[q], toolAt[q], data[q]>>
          BY <3>1 DEF Editing!Begins, EditInv, EditTypes
      <4>2. toolAt'[r] = where /\ tool'[r] = t /\ UNCHANGED <<file, modTime>>
          BY <3>1 DEF Editing!Begins, EditInv, EditTypes
      <4>3. toolAt'[r] = "write" /\ tool'[r] # "NotebookEdit" => MayReplace(r)'
          BY <3>1, <4>2 DEF MayReplace
      <4> QED BY <4>1, <4>2, <4>3, RunKeeps DEF WriteInv
    <3> QED BY <3>2, <3>3 DEF EditInv
  <2>2. CASE Editing!CheckStale(r)
    <3>1. EditTypes'
        BY <2>2 DEF Editing!CheckStale, EditInv, EditTypes, ToolPlaces
    <3>2. WriteInv'
      <4>1. \A q \in Runs \ {r} : UNCHANGED <<known[q], readAt[q], tool[q], toolAt[q], data[q]>>
          BY <2>2 DEF Editing!CheckStale, EditInv, EditTypes
      <4>2. toolAt'[r] = "write" /\ file = data[r] => MayReplace(r)
          BY <2>2 DEF Editing!CheckStale, Editing!Stale, EditInv, EditTypes, MayReplace
      <4>3. UNCHANGED <<file, modTime, known, readAt, data>>
          BY <2>2 DEF Editing!CheckStale
      <4>4. toolAt'[r] = "write" /\ file' = data'[r] => MayReplace(r)'
          BY <4>2, <4>3 DEF MayReplace
      <4> QED BY <4>1, <4>3, <4>4, RunKeeps DEF WriteInv
    <3> QED BY <3>1, <3>2 DEF EditInv
  <2>3. CASE Editing!ChangeFails(r) \/ Editing!ReadUnrecorded(r) \/ Editing!RecordState(r)
    <3>1. EditTypes'
        BY <2>3 DEF Editing!ChangeFails, Editing!ReadUnrecorded, Editing!RecordState,
                    EditInv, EditTypes, ToolPlaces
    <3>2. WriteInv'
      <4>1. \A q \in Runs \ {r} : UNCHANGED <<known[q], readAt[q], tool[q], toolAt[q], data[q]>>
          BY <2>3 DEF Editing!ChangeFails, Editing!ReadUnrecorded, Editing!RecordState,
                      EditInv, EditTypes
      <4>2. toolAt'[r] = "idle" /\ UNCHANGED <<file, modTime>>
          BY <2>3 DEF Editing!ChangeFails, Editing!ReadUnrecorded, Editing!RecordState,
                      EditInv, EditTypes
      <4> QED BY <4>1, <4>2, RunKeeps DEF WriteInv
    <3> QED BY <3>1, <3>2 DEF EditInv
  <2>4. CASE Editing!EditWrites(r) \/ Editing!WriteWrites(r) \/ Editing!NotebookWrites(r)
    <3>1. PICK t \in {"Edit", "Write", "NotebookEdit"}, where \in {"record", "idle"} :
             Editing!WriteBack(r, t, where)
        BY <2>4 DEF Editing!EditWrites, Editing!WriteWrites, Editing!NotebookWrites
    <3>2. EditTypes'
        BY <3>1 DEF Editing!WriteBack, Editing!WriteFile, Editing!NewContent, EditInv,
                    EditTypes, ToolPlaces
    <3>3. WriteInv'
      <4>1. toolAt'[r] # "write"
          BY <3>1 DEF Editing!WriteBack, EditInv, EditTypes
      <4>2. \A q \in Runs \ {r} : data'[q] = data[q]
          BY <3>1 DEF Editing!WriteBack, EditInv, EditTypes
      <4>3. Editing!NewContent
          BY <3>1 DEF Editing!WriteBack, Editing!WriteFile
      <4> QED BY <4>1, <4>2, <4>3, FileWritten DEF WriteInv
    <3> QED BY <3>2, <3>3 DEF EditInv
  <2>5. CASE Editing!WriteFails(r)
    <3>1. EditTypes'
        BY <2>5 DEF Editing!WriteFails, Editing!WriteFile, Editing!NewContent, EditInv,
                    EditTypes, ToolPlaces
    <3>2. Editing!NewContent /\ UNCHANGED data
        BY <2>5 DEF Editing!WriteFails, Editing!WriteFile
    <3> QED BY <3>1, <3>2, FileWritten DEF EditInv, WriteInv
  <2> QED BY <1>4, <2>1, <2>2, <2>3, <2>4, <2>5 DEF RunSteps
<1> QED BY <1>1, <1>2, <1>3, <1>4 DEF Editing!Next, RunSteps

(***************************************************************************)
(* Edit and Write overwrite, or spoil, a content that differs from the one  *)
(* their Run knows only where their check is blind (NoBlindOverwrite of     *)
(* FileTools): it follows from the invariant for every step of a tool that  *)
(* is about to write, whether its write succeeds or fails.                  *)
(***************************************************************************)
THEOREM EditingCorrect == Spec => NoBlindOverwrite
<1>1. ASSUME EditInv, NEW r \in Runs, toolAt[r] = "write", tool[r] # "NotebookEdit",
             file # Editing!NoFile
      PROVE  \/ file = known[r] \/ known[r] = Editing!Unread
             \/ modTime <= readAt[r]
             \/ file # data[r]
    BY <1>1 DEF EditInv, WriteInv, MayReplace
<1>2. EditInv /\ [Next]_vars =>
        [\A r \in Runs :
           /\ toolAt[r] = "write" /\ toolAt'[r] # "write" /\ tool[r] # "NotebookEdit"
           /\ file' # file /\ file # Editing!NoFile
           =>
             \/ file = known[r] \/ known[r] = Editing!Unread
             \/ modTime <= readAt[r]
             \/ file # data[r]]_(Editing!vars)
    BY <1>1
<1>3. EditInv /\ [Next]_vars => EditInv'
    BY EditingStep, EditCorrect
<1> QED BY <1>2, <1>3, EditInit, PTL DEF Spec, NoBlindOverwrite, Editing!NoBlindOverwrite

-----------------------------------------------------------------------------
LEMMA HandshakeStep == [Next]_vars => Handshake!Next \/ UNCHANGED handshakeVars
<1>1. \A s : Only(s) /\ s # "handshake" => UNCHANGED handshakeVars
    BY DEF Only
<1> QED BY <1>1 DEF Next, vars

-----------------------------------------------------------------------------
(***************************************************************************)
(* McpHandshake                                                            *)
(***************************************************************************)
LEMMA MethodsNamed ==
  ASSUME NEW i \in Nat \ {0}
  PROVE  Handshake!MethodOf(i) = IF i = 1 THEN "initialize"
                                 ELSE IF i = 2 THEN "tools/list" ELSE "tools/call"
<1>1. ASSUME NEW m \in {i, 3}, \A n \in {i, 3} : m <= n
      PROVE  m = IF i < 3 THEN i ELSE 3
    BY <1>1
<1>2. \E m \in {i, 3} : \A n \in {i, 3} : m <= n
    BY DEF Handshake!Methods
<1>3. Handshake!Min({i, 3}) = IF i < 3 THEN i ELSE 3
    BY <1>1, <1>2 DEF Handshake!Min
<1> QED BY <1>3 DEF Handshake!MethodOf, Handshake!Methods

RequestLine ==
  [id : Nat, method : {"initialize", "tools/list", "tools/call", "notifications/initialized"}]
AnswerLine == [id : Nat, ok : BOOLEAN]

HandshakeTypes ==
  /\ glue \in {"all", "withId"} /\ registered \in BOOLEAN
  /\ requests \in Seq(RequestLine) /\ answers \in Seq(AnswerLine)
  /\ handling \in Nat /\ nextId \in Nat
  /\ peerAt \in {"idle", "waits", "connected", "closed"}
  /\ taken \in Seq(Nat)

\* What is in the pipes: so many lines each way, and whether a handler runs.
InPipes(r, a) == Len(requests) = r /\ Len(answers) = a

IsRequest(l, i) ==
  l.id = i /\ l.method = IF i = 1 THEN "initialize"
                         ELSE IF i = 2 THEN "tools/list" ELSE "tools/call"
IsAnswerTo(a, i) == a.id = i /\ (i < 3 => a.ok)
IsNotice(l)    == l.id = 0 /\ l.method = "notifications/initialized"
IsRefusal(a)   == a.id = 0 /\ ~a.ok /\ glue = "all"

Nothing == InPipes(0, 0) /\ handling = 0

\* The last request is on its way to the server, at it, or on its way back.
Outstanding ==
  \/ InPipes(1, 0) /\ handling = 0 /\ IsRequest(requests[1], nextId)
  \/ InPipes(0, 1) /\ handling = 0 /\ IsAnswerTo(answers[1], nextId)
  \/ InPipes(0, 0) /\ handling = nextId /\ nextId >= 3

\* The notification is, or the answer a host of every answer gives it.
NoticeOut ==
  /\ handling = 0
  /\ \/ InPipes(1, 0) /\ IsNotice(requests[1])
     \/ InPipes(0, 1) /\ IsRefusal(answers[1])

\* Both are, the request of ListTools behind the notification.
BothOut ==
  /\ handling = 0
  /\ \/ InPipes(2, 0) /\ IsNotice(requests[1]) /\ IsRequest(requests[2], 2)
     \/ InPipes(1, 1) /\ IsRefusal(answers[1]) /\ IsRequest(requests[1], 2)
     \/ InPipes(0, 2) /\ IsRefusal(answers[1]) /\ IsAnswerTo(answers[2], 2)

TookOwn == \A i \in 1 .. Len(taken) : taken[i] = i

\* Between its requests, waiting for an answer, past initialize, or cleaned up.
IsIdle ==
  /\ peerAt = "idle" /\ Len(taken) = nextId /\ TookOwn
  /\ IF nextId = 1 THEN NoticeOut \/ (Nothing /\ glue = "withId")
     ELSE Nothing /\ (nextId = 0 \/ glue = "withId")
IsWaiting ==
  /\ peerAt = "waits" /\ nextId # 0 /\ Len(taken) = nextId - 1 /\ TookOwn
  /\ \/ Outstanding /\ (nextId = 1 \/ glue = "withId")
     \/ nextId = 2 /\ BothOut
IsConnected ==
  peerAt = "connected" /\ nextId = 1 /\ Len(taken) = nextId /\ TookOwn /\ Nothing
IsClosed ==
  /\ peerAt = "closed" /\ nextId = 2 /\ glue = "all" /\ Outstanding
  /\ Len(taken) = 2 /\ taken[1] = 1

PeerInv == IsIdle \/ IsWaiting \/ IsConnected \/ IsClosed

HandshakeInv == HandshakeTypes /\ PeerInv

LEMMA HandshakeInit == Init => HandshakeInv
  BY DEF Init, Handshake!Init, HandshakeInv, HandshakeTypes, PeerInv, IsIdle, TookOwn,
         Nothing, InPipes, Handshake!NoId

LEMMA HandshakeTyped ==
  ASSUME HandshakeTypes, Handshake!Next
  PROVE  HandshakeTypes'
<1> USE DEF HandshakeTypes, Handshake!NoId
<1>1. CASE Handshake!Send
  <2>1. [id |-> nextId', method |-> Handshake!MethodOf(nextId')] \in RequestLine
      BY <1>1, MethodsNamed DEF Handshake!Send, RequestLine
  <2> QED BY <1>1, <2>1 DEF Handshake!Send
<1>2. CASE Handshake!Receive
  <2>1. Head(answers) \in AnswerLine /\ Tail(answers) \in Seq(AnswerLine)
      BY <1>2 DEF Handshake!Receive
  <2>2. Append(taken, Head(answers).id) \in Seq(Nat)
      BY <2>1 DEF AnswerLine
  <2> QED BY <1>2, <2>1, <2>2 DEF Handshake!Receive
<1>3. CASE Handshake!SendNotification
  <2>1. [id |-> 0, method |-> "notifications/initialized"] \in RequestLine
      BY DEF RequestLine
  <2> QED BY <1>3, <2>1 DEF Handshake!SendNotification
<1>4. CASE Handshake!HandleRequest
  <2>1. Head(requests) \in RequestLine /\ Tail(requests) \in Seq(RequestLine)
      BY <1>4 DEF Handshake!HandleRequest
  <2>2. Handshake!Answer(Head(requests).id,
                         Head(requests).method \in {"initialize", "tools/list"}) \in AnswerLine
      BY <2>1 DEF Handshake!Answer, AnswerLine, RequestLine
  <2>3. Head(requests).id \in Nat
      BY <2>1 DEF RequestLine
  <2>4. answers' \in Seq(AnswerLine)
    <3> DEFINE a == Handshake!Answer(Head(requests).id,
                                     Head(requests).method \in {"initialize", "tools/list"})
    <3>1. answers' = answers \/ Handshake!Writes(a)
        BY <1>4 DEF Handshake!HandleRequest
    <3>2. a \in AnswerLine
        BY <2>2
    <3> HIDE DEF a
    <3>3. answers' = answers \/ answers' = Append(answers, a)
        BY <3>1 DEF Handshake!Writes
    <3> QED BY <3>2, <3>3, AppendProperties
  <2> QED BY <1>4, <2>1, <2>3, <2>4 DEF Handshake!HandleRequest
<1>5. CASE Handshake!HandlerReturns
  <2>1. Handshake!Answer(handling, TRUE) \in AnswerLine
      BY DEF Handshake!Answer, AnswerLine
  <2>2. answers' \in Seq(AnswerLine)
    <3> DEFINE a == Handshake!Answer(handling, TRUE)
    <3>1. Handshake!Writes(a)
        BY <1>5 DEF Handshake!HandlerReturns
    <3>2. a \in AnswerLine
        BY <2>1
    <3> HIDE DEF a
    <3>3. answers' = answers \/ answers' = Append(answers, a)
        BY <3>1 DEF Handshake!Writes
    <3> QED BY <3>2, <3>3, AppendProperties
  <2> QED BY <1>5, <2>2 DEF Handshake!HandlerReturns
<1>6. CASE Handshake!RegisterOrRemoveTool
    BY <1>6 DEF Handshake!RegisterOrRemoveTool
<1> QED BY <1>1, <1>2, <1>3, <1>4, <1>5, <1>6 DEF Handshake!Next

LEMMA HandshakeCorrect ==
  ASSUME HandshakeInv, Handshake!Next \/ UNCHANGED handshakeVars
  PROVE  HandshakeInv'
<1> USE DEF HandshakeInv, Handshake!NoId
<1>0. ASSUME UNCHANGED <<glue, requests, answers, handling, nextId, peerAt, taken>>
      PROVE  PeerInv'
    BY <1>0 DEF PeerInv, IsIdle, IsWaiting, IsConnected, IsClosed, TookOwn, Nothing,
                Outstanding, NoticeOut, BothOut, InPipes, IsRefusal
<1>10. CASE UNCHANGED handshakeVars
    BY <1>0, <1>10 DEF handshakeVars, HandshakeTypes
<1> SUFFICES ASSUME Handshake!Next
             PROVE  PeerInv'
    BY <1>10, HandshakeTyped
<1> HandshakeTypes'
    BY HandshakeTyped
<1> /\ nextId \in Nat /\ handling \in Nat /\ glue \in {"all", "withId"}
    /\ Len(requests) \in Nat /\ Len(answers) \in Nat /\ Len(taken) \in Nat
    /\ Len(requests') \in Nat /\ Len(answers') \in Nat /\ Len(taken') \in Nat
    BY DEF HandshakeTypes
<1>1. CASE Handshake!Send
  <2>1. /\ nextId' = nextId + 1 /\ peerAt' = "waits" /\ IsIdle
        /\ UNCHANGED <<glue, answers, handling, taken>>
      BY <1>1 DEF Handshake!Send, PeerInv, IsIdle, IsWaiting, IsConnected, IsClosed
  <2>2. Len(taken') = nextId' - 1 /\ TookOwn' /\ nextId' # 0
      BY <2>1 DEF IsIdle, TookOwn
  <2>3. /\ Len(requests') = Len(requests) + 1
        /\ \A i \in 1 .. Len(requests) : requests'[i] = requests[i]
        /\ requests'[Len(requests) + 1].id = nextId + 1
        /\ requests'[Len(requests) + 1].method = Handshake!MethodOf(nextId + 1)
      BY <1>1, <2>1 DEF Handshake!Send, HandshakeTypes
  <2>4. IsRequest(requests'[Len(requests) + 1], nextId')
      BY <2>1, <2>3, MethodsNamed DEF IsRequest
  <2>5. CASE nextId = 1 /\ NoticeOut
    <3>1. BothOut'
        BY <2>1, <2>3, <2>4, <2>5 DEF NoticeOut, BothOut, InPipes, IsNotice, IsRefusal
    <3> QED BY <2>1, <2>2, <2>5, <3>1 DEF PeerInv, IsWaiting
  <2>6. CASE Nothing /\ (nextId = 0 \/ glue = "withId")
    <3>1. Outstanding'
        BY <2>1, <2>3, <2>4, <2>6 DEF Nothing, Outstanding, InPipes
    <3> QED BY <2>1, <2>2, <2>6, <3>1 DEF PeerInv, IsWaiting
  <2> QED BY <2>1, <2>5, <2>6 DEF IsIdle
<1>2. CASE Handshake!Receive
  <2>1. /\ IsWaiting /\ Len(answers) > 0
        /\ UNCHANGED <<glue, requests, handling, nextId>>
      BY <1>2 DEF Handshake!Receive, PeerInv, IsIdle, IsWaiting, IsConnected, IsClosed
  <2>2. /\ Len(answers') = Len(answers) - 1
        /\ \A i \in 1 .. Len(answers') : answers'[i] = answers[i + 1]
      BY <1>2 DEF Handshake!Receive, HandshakeTypes
  <2>3. answers[1] \in AnswerLine /\ answers[1] = Head(answers)
      BY <2>1 DEF HandshakeTypes
  <2>4. /\ Len(taken') = Len(taken) + 1 /\ taken'[Len(taken) + 1] = answers[1].id
        /\ \A i \in 1 .. Len(taken) : taken'[i] = taken[i]
    <3>1. answers[1].id \in Nat /\ taken' = Append(taken, answers[1].id)
        BY <1>2, <2>3 DEF Handshake!Receive, AnswerLine
    <3> QED BY <3>1 DEF HandshakeTypes
  <2>5. peerAt' = IF ~answers[1].ok /\ nextId < 3 THEN "closed"
                  ELSE IF answers[1].ok /\ nextId = 1 THEN "connected" ELSE "idle"
    <3>1. answers[1].ok \in BOOLEAN
        BY <2>3 DEF AnswerLine
    <3> QED BY <1>2, <2>3, <3>1 DEF Handshake!Receive
  <2>6. CASE Outstanding /\ (nextId = 1 \/ glue = "withId")
    <3>1. InPipes(0, 1) /\ handling = 0 /\ IsAnswerTo(answers[1], nextId)
        BY <2>1, <2>6 DEF Outstanding, InPipes
    <3>2. Nothing'
        BY <2>1, <2>2, <3>1 DEF Nothing, InPipes
    <3>3. Len(taken') = nextId' /\ TookOwn'
        BY <2>1, <2>4, <3>1 DEF IsWaiting, TookOwn, IsAnswerTo
    <3>4. peerAt' = IF nextId = 1 THEN "connected" ELSE "idle"
        BY <2>1, <2>5, <3>1 DEF IsWaiting, IsAnswerTo
    <3> QED BY <2>1, <2>6, <3>2, <3>3, <3>4 DEF PeerInv, IsIdle, IsConnected, IsWaiting
  <2>7. CASE nextId = 2 /\ BothOut
    <3>1. IsRefusal(answers[1]) /\ Outstanding'
        BY <2>1, <2>2, <2>7 DEF BothOut, Outstanding, InPipes
    <3>2. Len(taken') = 2 /\ taken'[1] = 1
        BY <2>1, <2>4, <2>7 DEF TookOwn, IsWaiting
    <3> QED BY <2>1, <2>5, <2>7, <3>1, <3>2 DEF PeerInv, IsRefusal, IsClosed
  <2> QED BY <2>1, <2>6, <2>7 DEF IsWaiting
<1>3. CASE Handshake!SendNotification
  <2>1. /\ IsConnected /\ peerAt' = "idle"
        /\ UNCHANGED <<glue, answers, handling, nextId, taken>>
      BY <1>3 DEF Handshake!SendNotification, PeerInv, IsIdle, IsWaiting, IsConnected, IsClosed
  <2>2. Len(requests') = Len(requests) + 1 /\ IsNotice(requests'[Len(requests) + 1])
      BY <1>3 DEF Handshake!SendNotification, IsNotice, HandshakeTypes
  <2>3. NoticeOut'
      BY <2>1, <2>2 DEF IsConnected, NoticeOut, Nothing, InPipes
  <2>4. TookOwn' /\ Len(taken') = nextId' /\ nextId' = 1
      BY <2>1 DEF IsConnected, TookOwn
  <2> QED BY <2>1, <2>3, <2>4 DEF PeerInv, IsIdle
<1>4. CASE Handshake!HandleRequest
  <2> DEFINE l == requests[1]
             grasped == l.method \in {"initialize", "tools/list"}
  <2>1. /\ Len(requests) > 0 /\ handling = 0
        /\ UNCHANGED <<glue, nextId, peerAt, taken>>
      BY <1>4 DEF Handshake!HandleRequest
  <2>2. /\ Len(requests') = Len(requests) - 1
        /\ \A i \in 1 .. Len(requests') : requests'[i] = requests[i + 1]
      BY <1>4 DEF Handshake!HandleRequest, HandshakeTypes
  <2>3. l \in RequestLine /\ l = Head(requests)
      BY <2>1 DEF HandshakeTypes
  <2> DEFINE Called  == l.method = "tools/call" /\ handling' = l.id /\ answers' = answers
             Written == /\ handling' = 0 /\ (glue = "all" \/ l.id # 0)
                        /\ Len(answers') = Len(answers) + 1
                        /\ \A i \in 1 .. Len(answers) : answers'[i] = answers[i]
                        /\ answers'[Len(answers) + 1].id = l.id
                        /\ (answers'[Len(answers) + 1].ok <=> grasped)
             Dropped == handling' = 0 /\ glue # "all" /\ l.id = 0 /\ answers' = answers
  <2>4. Called \/ Written \/ Dropped
    <3>1. CASE l.method = "tools/call" /\ registered
        BY <1>4, <2>3, <3>1 DEF Handshake!HandleRequest
    <3>2. CASE ~(l.method = "tools/call" /\ registered)
      <4> DEFINE a == Handshake!Answer(l.id, grasped)
      <4>1. Handshake!Writes(a) /\ handling' = 0
          BY <1>4, <2>1, <2>3, <3>2 DEF Handshake!HandleRequest
      <4>5. a \in AnswerLine /\ a.id = l.id
          BY <2>3 DEF Handshake!Answer, AnswerLine, RequestLine
      <4>6. a.ok = grasped
          BY DEF Handshake!Answer
      <4>2. a \in AnswerLine /\ a.id = l.id /\ (a.ok <=> grasped)
          BY <4>5, <4>6
      <4> HIDE DEF a, l, grasped
      <4>3. CASE glue = "all" \/ l.id # 0
          BY <4>1, <4>2, <4>3, AppendProperties DEF Handshake!Writes, HandshakeTypes
      <4>4. CASE ~(glue = "all" \/ l.id # 0)
          BY <4>1, <4>2, <4>4 DEF Handshake!Writes
      <4> QED BY <4>3, <4>4
    <3> QED BY <3>1, <3>2
  <2>5. CASE IsIdle
    <3>1. InPipes(1, 0) /\ IsNotice(l) /\ nextId = 1
        BY <2>1, <2>5 DEF IsIdle, NoticeOut, Nothing, InPipes
    <3>2. l.id = 0 /\ ~grasped /\ ~Called /\ Len(requests') = 0
        BY <2>2, <3>1 DEF IsNotice, InPipes
    <3>3. Written => NoticeOut'
        BY <2>1, <3>1, <3>2 DEF NoticeOut, InPipes, IsRefusal
    <3>4. Dropped => Nothing' /\ glue = "withId"
        BY <2>1, <3>1, <3>2 DEF Nothing, InPipes
    <3>5. TookOwn' /\ Len(taken') = nextId' /\ nextId' = 1 /\ peerAt' = "idle" /\ glue' = glue
        BY <2>1, <2>5, <3>1 DEF IsIdle, TookOwn
    <3> QED BY <2>4, <3>2, <3>3, <3>4, <3>5 DEF PeerInv, IsIdle
  <2>6. ASSUME Outstanding, nextId # 0
        PROVE  Outstanding'
    <3>1. InPipes(1, 0) /\ IsRequest(l, nextId)
        BY <2>1, <2>6 DEF Outstanding, InPipes
    <3>2. Len(requests') = 0 /\ l.id = nextId /\ (nextId < 3 => grasped) /\ ~Dropped
        BY <2>2, <2>6, <3>1 DEF IsRequest, InPipes
    <3>3. Called => Outstanding'
      <4>1. l.method = "tools/call" => nextId >= 3
          BY <2>6, <3>1 DEF IsRequest
      <4> QED BY <2>1, <3>1, <3>2, <4>1 DEF Outstanding, InPipes
    <3>4. Written => Outstanding'
        BY <2>1, <3>1, <3>2 DEF Outstanding, InPipes, IsAnswerTo
    <3> QED BY <2>4, <3>2, <3>3, <3>4
  <2>7. ASSUME BothOut, nextId = 2
        PROVE  BothOut' \/ (glue = "withId" /\ Outstanding')
    <3>1. CASE InPipes(2, 0) /\ IsNotice(requests[1]) /\ IsRequest(requests[2], 2)
      <4>1. /\ Len(requests') = 1 /\ IsRequest(requests'[1], 2)
            /\ handling' = 0 /\ l.id = 0 /\ ~grasped
          BY <2>2, <2>4, <3>1 DEF InPipes, IsNotice
      <4>2. CASE Written
        <5>1. glue = "all" /\ InPipes(1, 1)' /\ handling' = 0
            BY <3>1, <4>1, <4>2 DEF InPipes
        <5>2. IsRefusal(answers[1])'
            BY <2>1, <3>1, <4>1, <4>2, <5>1 DEF IsRefusal, InPipes
        <5> QED BY <4>1, <5>1, <5>2 DEF BothOut
      <4>3. CASE Dropped
          BY <2>1, <2>7, <3>1, <4>1, <4>3 DEF Outstanding, InPipes
      <4> QED BY <2>4, <3>1, <4>2, <4>3 DEF IsNotice
    <3>2. CASE InPipes(1, 1) /\ IsRefusal(answers[1]) /\ IsRequest(requests[1], 2)
      <4>1. Written
          BY <2>4, <3>2 DEF IsRefusal, IsRequest
      <4>2. InPipes(0, 2)' /\ handling' = 0
          BY <2>2, <3>2, <4>1 DEF InPipes
      <4>3. IsRefusal(answers[1])' /\ IsAnswerTo(answers'[2], 2)
          BY <2>1, <3>2, <4>1 DEF InPipes, IsRefusal, IsRequest, IsAnswerTo
      <4> QED BY <4>2, <4>3 DEF BothOut
    <3> QED BY <2>1, <2>7, <3>1, <3>2 DEF BothOut, InPipes
  <2>8. CASE IsWaiting
      BY <2>1, <2>6, <2>7, <2>8 DEF PeerInv, IsWaiting, TookOwn
  <2>9. CASE IsClosed
      BY <2>1, <2>6, <2>9 DEF PeerInv, IsClosed
  <2>10. ~IsConnected
      BY <2>1 DEF IsConnected, Nothing, InPipes
  <2> QED BY <2>5, <2>8, <2>9, <2>10 DEF PeerInv
<1>5. CASE Handshake!HandlerReturns
  <2>1. /\ handling # 0 /\ handling' = 0
        /\ UNCHANGED <<glue, requests, nextId, peerAt, taken>>
      BY <1>5 DEF Handshake!HandlerReturns
  <2>2. /\ IsWaiting /\ nextId >= 3 /\ glue = "withId" /\ InPipes(0, 0) /\ handling = nextId
      BY <2>1 DEF PeerInv, IsIdle, IsWaiting, IsConnected, IsClosed, Nothing, NoticeOut,
                  BothOut, Outstanding
  <2>3. /\ Len(answers') = Len(answers) + 1
        /\ answers'[Len(answers) + 1].id = handling
    <3> DEFINE a == Handshake!Answer(handling, TRUE)
    <3>1. a \in AnswerLine /\ a.id = handling
        BY DEF Handshake!Answer, AnswerLine
    <3>2. handling # 0 => answers' = Append(answers, a)
        BY <1>5, <3>1 DEF Handshake!HandlerReturns, Handshake!Writes
    <3> HIDE DEF a
    <3> QED BY <2>1, <3>1, <3>2, AppendProperties DEF HandshakeTypes
  <2> QED BY <2>1, <2>2, <2>3 DEF PeerInv, IsWaiting, TookOwn, Outstanding, InPipes, IsAnswerTo
<1>6. CASE Handshake!RegisterOrRemoveTool
    BY <1>0, <1>6 DEF Handshake!RegisterOrRemoveTool
<1> QED BY <1>1, <1>2, <1>3, <1>4, <1>5, <1>6 DEF Handshake!Next

LEMMA HandshakeMeans == HandshakeInv => Handshake!CallsTakeOwnAnswers
<1> SUFFICES ASSUME HandshakeInv PROVE Handshake!CallsTakeOwnAnswers
    OBVIOUS
<1>1. \A i \in DOMAIN taken : taken[i] = i \/ (i = 2 /\ glue = "all" /\ peerAt = "closed")
  <2>1. DOMAIN taken = 1 .. Len(taken)
      BY DEF HandshakeInv, HandshakeTypes
  <2>2. CASE TookOwn
      BY <2>1, <2>2 DEF TookOwn
  <2>3. CASE IsClosed
      BY <2>1, <2>3 DEF IsClosed
  <2> QED BY <2>2, <2>3 DEF HandshakeInv, PeerInv, IsIdle, IsWaiting, IsConnected
<1>2. Len(requests) + Len(answers) <= 2
  <2>1. PeerInv => Nothing \/ Outstanding \/ NoticeOut \/ BothOut
      BY DEF PeerInv, IsIdle, IsWaiting, IsConnected, IsClosed
  <2>2. \E r, a \in {0, 1, 2} : InPipes(r, a) /\ r + a <= 2
      BY <2>1 DEF HandshakeInv, Nothing, Outstanding, NoticeOut, BothOut
  <2> QED BY <2>2 DEF InPipes
<1> QED BY <1>1, <1>2 DEF Handshake!CallsTakeOwnAnswers

-----------------------------------------------------------------------------
LEMMA ClientStep == [Next]_vars => Client!Next \/ UNCHANGED clientVars
<1>1. \A s : Only(s) /\ s # "client" => UNCHANGED clientVars
    BY DEF Only
<1> QED BY <1>1 DEF Next, vars

-----------------------------------------------------------------------------
(***************************************************************************)
(* McpClient                                                               *)
(***************************************************************************)
ClientPlaces ==
  {"connect", "list", "register", "replace", "lookup", "call", "callAgain", "reconnect",
   "cleanup", "backoff", "lookupAgain", "close", "closing"} \cup Client!Ends

ClientTypes ==
  /\ connection \in Nat /\ opened \in Nat /\ live \subseteq Nat
  /\ clientAt \in [Client!Hosts -> ClientPlaces] /\ mine \in [Client!Hosts -> Nat]

\* A connection about to be registered is one that was opened.
MadeInv == \A h \in Client!Hosts : clientAt[h] \in {"list", "register"} => mine[h] # 0

\* Only closers wait to close.
CloserInv == \A h \in Client!Hosts : clientAt[h] = "close" => h \in Closers

CloseBegun == \E z \in Closers : clientAt[z] # "close"

\* What a Reconnect has registered is there until Close takes it.
RetryInv ==
  \/ CloseBegun
  \/ \A h \in Client!Hosts : /\ clientAt[h] \in {"replace", "lookupAgain"} => connection # 0
                             /\ clientAt[h] # "crashed"

ClientInv == ClientTypes /\ MadeInv /\ CloserInv /\ Client!NoConnectionLost /\ RetryInv

LEMMA ClientInit == Client!Init => ClientInv
<1> SUFFICES ASSUME Client!Init PROVE ClientInv
    OBVIOUS
<1>1. ClientTypes
    BY DEF Client!Init, ClientTypes, ClientPlaces, Client!Ends
<1>2. MadeInv /\ CloserInv /\ Client!NoConnectionLost /\ RetryInv
    BY DEF Client!Init, MadeInv, CloserInv, Client!NoConnectionLost, RetryInv,
           Client!Holding, Client!Hosts
<1> QED BY <1>1, <1>2 DEF ClientInv

\* The steps of a host, as Next lists them.
ClientMoves(h) ==
  \/ Client!ConnectFails(h) \/ Client!ConnectOpens(h) \/ Client!ListToolsFails(h)
  \/ Client!ListTools(h) \/ Client!Register(h) \/ Client!CleanupPrevious(h)
  \/ Client!Lookup(h) \/ Client!CallFails(h) \/ Client!CallAnswered(h)
  \/ Client!ReconnectLookup(h)
  \/ Client!CleanupExpired(h) \/ Client!Backoff(h) \/ Client!LookupAgain(h)
  \/ Client!TakeConnections(h) \/ Client!CleanupTaken(h)

\* A step of h moves h only, away from "close" for good.
LEMMA ClientFrame ==
  ASSUME ClientTypes, NEW h \in Client!Hosts, ClientMoves(h)
  PROVE  /\ ClientTypes'
         /\ \A g \in Client!Hosts \ {h} : clientAt'[g] = clientAt[g] /\ mine'[g] = mine[g]
         /\ clientAt'[h] # "close"
<1>1. CASE Client!ConnectFails(h) \/ Client!ListToolsFails(h)
    BY <1>1 DEF ClientTypes, Client!ConnectFails, Client!ListToolsFails, Client!AttemptFails,
           Client!CleanedUp, Client!Goes, ClientPlaces, Client!Ends
<1>2. CASE Client!ConnectOpens(h)
    BY <1>2 DEF ClientTypes, Client!ConnectOpens, Client!Goes, Client!Takes, ClientPlaces,
           Client!Ends
<1>3. CASE Client!ListTools(h) \/ Client!Register(h) \/ Client!CleanupPrevious(h)
    BY <1>3 DEF ClientTypes, Client!ListTools, Client!Register, Client!CleanupPrevious,
           Client!Replaced, Client!Goes, Client!Takes, ClientPlaces, Client!Ends
<1>4. CASE \/ Client!Lookup(h) \/ Client!ReconnectLookup(h) \/ Client!LookupAgain(h)
              \/ Client!Backoff(h)
    BY <1>4 DEF ClientTypes, Client!Lookup, Client!ReconnectLookup, Client!LookupAgain,
           Client!Backoff, Client!Goes, Client!Takes, ClientPlaces, Client!Ends
<1>5. CASE Client!CallFails(h)
    BY <1>5 DEF ClientTypes, Client!CallFails, Client!CleanedUp, Client!Goes, ClientPlaces,
           Client!Ends
<1>6. CASE Client!CallAnswered(h)
    BY <1>6 DEF ClientTypes, Client!CallAnswered, Client!Answers,
           Client!IsSessionExpiredError, Client!Goes, ClientPlaces, Client!Ends
<1>7. CASE Client!CleanupExpired(h) \/ Client!CleanupTaken(h)
    BY <1>7 DEF ClientTypes, Client!CleanupExpired, Client!CleanupTaken, Client!CleanedUp,
           Client!Goes, ClientPlaces, Client!Ends
<1>8. CASE Client!TakeConnections(h)
    BY <1>8 DEF ClientTypes, Client!TakeConnections, Client!Goes, Client!Takes, ClientPlaces,
           Client!Ends
<1> QED BY <1>1, <1>2, <1>3, <1>4, <1>5, <1>6, <1>7, <1>8 DEF ClientMoves

\* Who reaches "list" or "register" holds a connection of its own.
LEMMA MadeKept ==
  ASSUME ClientTypes, MadeInv, NEW h \in Client!Hosts, ClientMoves(h)
  PROVE  MadeInv'
<1> USE DEF Client!Goes, Client!Takes
<1>1. clientAt'[h] \in {"list", "register"} => mine'[h] # 0
  <2>1. CASE Client!ConnectOpens(h) \/ Client!ListTools(h)
      BY <2>1 DEF ClientTypes, MadeInv, Client!ConnectOpens, Client!ListTools
  <2>2. CASE Client!ConnectFails(h) \/ Client!ListToolsFails(h)
      BY <2>2 DEF ClientTypes, Client!ConnectFails, Client!ListToolsFails, Client!AttemptFails
  <2>3. CASE Client!CallAnswered(h)
      BY <2>3 DEF ClientTypes, Client!CallAnswered, Client!Answers, Client!IsSessionExpiredError
  <2>4. CASE \/ Client!Register(h) \/ Client!CleanupPrevious(h) \/ Client!Lookup(h)
                \/ Client!CallFails(h) \/ Client!ReconnectLookup(h)
      BY <2>4 DEF ClientTypes, Client!Register, Client!CleanupPrevious, Client!Lookup,
             Client!CallFails, Client!ReconnectLookup
  <2>5. CASE \/ Client!CleanupExpired(h) \/ Client!Backoff(h) \/ Client!LookupAgain(h)
             \/ Client!TakeConnections(h) \/ Client!CleanupTaken(h)
      BY <2>5 DEF ClientTypes, Client!CleanupExpired, Client!Backoff, Client!LookupAgain,
             Client!TakeConnections, Client!CleanupTaken
  <2> QED BY <2>1, <2>2, <2>3, <2>4, <2>5 DEF ClientMoves
<1> QED BY <1>1, ClientFrame DEF MadeInv

\* An open connection stays with its holder, goes to the map, or out of it to
\* the host that replaces or closes it.
LEMMA ConnectionsHeld ==
  ASSUME ClientTypes, Client!NoConnectionLost, NEW h \in Client!Hosts, ClientMoves(h)
  PROVE  Client!NoConnectionLost'
<1> SUFFICES ASSUME NEW c \in live'
             PROVE  \/ c = connection'
                    \/ \E g \in Client!Hosts : clientAt'[g] \in Client!Holding /\ mine'[g] = c
    BY DEF Client!NoConnectionLost
<1> DEFINE HeldByOther ==
             \E g \in Client!Hosts \ {h} : clientAt[g] \in Client!Holding /\ mine[g] = c
<1> USE DEF Client!Goes, Client!Takes, Client!Holding
<1>1. HeldByOther => \E g \in Client!Hosts : clientAt'[g] \in Client!Holding /\ mine'[g] = c
    BY ClientFrame
<1>2. c \in live => c = connection \/ HeldByOther \/ (clientAt[h] \in Client!Holding /\ mine[h] = c)
    BY DEF Client!NoConnectionLost
<1> HIDE DEF HeldByOther
<1>3. CASE Client!ConnectFails(h) \/ Client!ListToolsFails(h)
    BY <1>1, <1>2, <1>3 DEF ClientTypes, Client!ConnectFails, Client!ListToolsFails,
           Client!CleanedUp
<1>4. CASE Client!ConnectOpens(h) \/ Client!ListTools(h)
    BY <1>1, <1>2, <1>4 DEF ClientTypes, Client!ConnectOpens, Client!ListTools
<1>5. CASE Client!Register(h)
    BY <1>1, <1>2, <1>5 DEF ClientTypes, Client!Register
<1>6. CASE Client!CleanupPrevious(h) \/ Client!CleanupExpired(h) \/ Client!CleanupTaken(h)
    BY <1>1, <1>2, <1>6 DEF ClientTypes, Client!CleanupPrevious, Client!CleanupExpired,
           Client!CleanupTaken, Client!Replaced, Client!CleanedUp
<1>7. CASE \/ Client!Lookup(h) \/ Client!ReconnectLookup(h) \/ Client!LookupAgain(h)
              \/ Client!Backoff(h)
    BY <1>1, <1>2, <1>7 DEF ClientTypes, Client!Lookup, Client!ReconnectLookup,
           Client!LookupAgain, Client!Backoff
<1>8. CASE Client!CallFails(h) \/ Client!CallAnswered(h)
    BY <1>1, <1>2, <1>8 DEF ClientTypes, Client!CallFails, Client!CallAnswered, Client!CleanedUp
<1>9. CASE Client!TakeConnections(h)
    BY <1>1, <1>2, <1>9 DEF ClientTypes, Client!TakeConnections
<1> QED BY <1>3, <1>4, <1>5, <1>6, <1>7, <1>8, <1>9 DEF ClientMoves

\* Only Close takes a connection out of the map, and leaves "close" then.
LEMMA RetryKept ==
  ASSUME ClientTypes, MadeInv, CloserInv, RetryInv, NEW h \in Client!Hosts, ClientMoves(h)
  PROVE  RetryInv'
<1> USE DEF Client!Goes, Client!Takes
<1>1. CASE CloseBegun
    BY <1>1, ClientFrame DEF CloseBegun, RetryInv, Client!Hosts
<1>2. CASE Client!TakeConnections(h)
  <2>1. h \in Closers
      BY <1>2 DEF Client!TakeConnections, CloserInv
  <2> QED BY <2>1, ClientFrame DEF CloseBegun, RetryInv
<1>3. CASE ~CloseBegun /\ ~Client!TakeConnections(h)
  <2>1. \A g \in Client!Hosts : /\ clientAt[g] \in {"replace", "lookupAgain"} => connection # 0
                         /\ clientAt[g] # "crashed"
      BY <1>3 DEF RetryInv
  <2>2. connection # 0 => connection' # 0
      BY <1>3 DEF ClientTypes, MadeInv, ClientMoves, Client!ConnectFails,
             Client!ConnectOpens, Client!ListToolsFails, Client!ListTools, Client!Register,
             Client!CleanupPrevious, Client!Lookup, Client!CallFails, Client!CallAnswered,
             Client!ReconnectLookup, Client!CleanupExpired, Client!Backoff,
             Client!LookupAgain, Client!CleanupTaken
  <2>3. /\ clientAt'[h] \in {"replace", "lookupAgain"} => connection' # 0
        /\ clientAt'[h] # "crashed"
    <3>1. CASE Client!Register(h) \/ Client!CleanupPrevious(h) \/ Client!LookupAgain(h)
        BY <2>1, <3>1 DEF ClientTypes, MadeInv, Client!Register, Client!CleanupPrevious,
               Client!LookupAgain
    <3>2. CASE Client!ConnectFails(h) \/ Client!ListToolsFails(h)
        BY <3>2 DEF ClientTypes, Client!ConnectFails, Client!ListToolsFails, Client!AttemptFails
    <3>3. CASE Client!CallAnswered(h)
        BY <3>3 DEF ClientTypes, Client!CallAnswered, Client!Answers,
               Client!IsSessionExpiredError
    <3>4. CASE \/ Client!ConnectOpens(h) \/ Client!ListTools(h) \/ Client!Lookup(h)
               \/ Client!CallFails(h) \/ Client!ReconnectLookup(h) \/ Client!CleanupExpired(h)
               \/ Client!Backoff(h) \/ Client!CleanupTaken(h)
        BY <3>4 DEF ClientTypes, Client!ConnectOpens, Client!ListTools, Client!Lookup,
               Client!CallFails, Client!ReconnectLookup, Client!CleanupExpired,
               Client!Backoff, Client!CleanupTaken
    <3> QED BY <1>3, <3>1, <3>2, <3>3, <3>4 DEF ClientMoves
  <2> QED BY <2>1, <2>2, <2>3, ClientFrame DEF RetryInv
<1> QED BY <1>1, <1>2, <1>3

\* A step of the client keeps the inductive invariant.
LEMMA ClientNextCorrect ==
  ASSUME ClientInv, Client!Next \/ UNCHANGED clientVars
  PROVE  ClientInv'
<1>1. CASE \E h \in Client!Hosts : ClientMoves(h)
  <2>1. PICK h \in Client!Hosts : ClientMoves(h) BY <1>1
  <2>2. CloserInv' BY <2>1, ClientFrame DEF CloserInv, ClientInv
  <2> QED BY <2>1, <2>2, ClientFrame, MadeKept, ConnectionsHeld, RetryKept DEF ClientInv
<1>2. CASE UNCHANGED clientVars
    BY <1>2 DEF clientVars, ClientInv, ClientTypes, MadeInv, CloserInv,
           Client!NoConnectionLost, RetryInv, CloseBegun, Client!Holding
<1> QED BY <1>1, <1>2 DEF Client!Next, ClientMoves, Client!Over, Client!vars, clientVars

\* The invariant says what the two properties of the client do.
LEMMA ClientMeans ==
  ASSUME ClientInv
  PROVE  Client!NoConnectionLost /\ Client!RetryFindsConnection
  BY DEF ClientInv, RetryInv, Client!RetryFindsConnection, CloseBegun, Client!Hosts

-----------------------------------------------------------------------------
(***************************************************************************)
(* No MCP connection is lost in concurrent connects, reconnects and closes, *)
(* only a Close makes the retry of a call crash (ConnectServer, Reconnect,  *)
(* CallToolWithReconnect, Close), and a client whose call reads the next    *)
(* line that comes (sendRequest compares no ID) reads the answer to that    *)
(* call and leaves no more than two lines in the pipes.                     *)
(***************************************************************************)
THEOREM ConnectionsCorrect == Spec => []ConnectionsKept
<1>1. ClientInv /\ HandshakeInv => ConnectionsKept
    BY ClientMeans, HandshakeMeans DEF ConnectionsKept
<1>2. Init => ClientInv /\ HandshakeInv
    BY ClientInit, HandshakeInit DEF Init
<1>3. ClientInv /\ HandshakeInv /\ [Next]_vars => ClientInv' /\ HandshakeInv'
    BY ClientStep, ClientNextCorrect, HandshakeStep, HandshakeCorrect
<1> QED BY <1>1, <1>2, <1>3, PTL DEF Spec

-----------------------------------------------------------------------------
LoopProofs == INSTANCE RunLoopProofs WITH pc <- loopPc, ctxDone <- runDone,
                                          Costs <- ResponseCosts

LEMMA LoopStep == [Next]_vars => Loop!Next \/ UNCHANGED loopVars
<1>1. \A s : Only(s) /\ s # "loop" => UNCHANGED loopVars
    BY DEF Only
<1> QED BY <1>1 DEF Next, vars

-----------------------------------------------------------------------------
(***************************************************************************)
(* RunLoop, whose own proofs are about the same definitions.               *)
(***************************************************************************)
LEMMA LoopSizes == LoopProofs!Sizes
  BY LoopAssumption DEF LoopProofs!Sizes, IsFiniteSet, LoopProofs!IsFiniteSet

LEMMA LoopInit == Loop!Init => LoopProofs!Init
  BY DEF Loop!Init, LoopProofs!Init, Loop!Loops, LoopProofs!Loops

LEMMA LoopNext == Loop!Next => LoopProofs!Next
<1> USE DEF Loop!Loops, LoopProofs!Loops, Loop!GoTo, LoopProofs!GoTo,
            Loop!ReturnWith, LoopProofs!ReturnWith, Loop!AppendMessage, LoopProofs!AppendMessage,
            Loop!LedgerOf, LoopProofs!LedgerOf, Loop!histVars, LoopProofs!histVars
<1>1. \A l : /\ Loop!Refused(l) => LoopProofs!Refused(l)
             /\ Loop!Admitted(l) => LoopProofs!Admitted(l)
             /\ Loop!OutOfTurns(l) = LoopProofs!OutOfTurns(l)
    BY DEF Loop!Refused, LoopProofs!Refused, Loop!Admitted, LoopProofs!Admitted,
           Loop!OverBudget, LoopProofs!OverBudget, Loop!OutOfTurns, LoopProofs!OutOfTurns
<1>2. ASSUME NEW l
      PROVE  /\ Loop!Begin(l) => LoopProofs!Begin(l)
             /\ Loop!TurnsEnd(l) => LoopProofs!TurnsEnd(l)
             /\ Loop!Emit(l) => LoopProofs!Emit(l)
             /\ Loop!EmitResults(l) => LoopProofs!EmitResults(l)
    BY <1>1 DEF Loop!Begin, LoopProofs!Begin, Loop!TurnsEnd, LoopProofs!TurnsEnd,
           Loop!Emit, LoopProofs!Emit, Loop!EmitResults, LoopProofs!EmitResults
<1>3. ASSUME NEW l
      PROVE  Loop!Admission(l) => LoopProofs!Admission(l)
    BY <1>1 DEF Loop!Admission, LoopProofs!Admission
<1>4. ASSUME NEW l
      PROVE  /\ Loop!StreamFails(l) => LoopProofs!StreamFails(l)
             /\ Loop!PostSampling(l) => LoopProofs!PostSampling(l)
             /\ Loop!Account(l) => LoopProofs!Account(l)
    BY DEF Loop!StreamFails, LoopProofs!StreamFails, Loop!PostSampling, LoopProofs!PostSampling,
           Loop!Account, LoopProofs!Account, Loop!Charge, LoopProofs!Charge
<1>5. ASSUME NEW l, NEW c, NEW t
      PROVE  Loop!StreamEnds(l, c, t) => LoopProofs!StreamEnds(l, c, t)
    BY DEF Loop!StreamEnds, LoopProofs!StreamEnds
<1>6. ASSUME NEW l, NEW K
      PROVE  Loop!BeginTools(l, K) => LoopProofs!BeginTools(l, K)
    BY <1>1 DEF Loop!BeginTools, LoopProofs!BeginTools
<1>7. ASSUME NEW l
      PROVE  Loop!EndTools(l) => LoopProofs!EndTools(l)
    BY DEF Loop!EndTools, LoopProofs!EndTools, Loop!WithResults, LoopProofs!WithResults,
           Loop!ChildrenReturned, LoopProofs!ChildrenReturned
<1>8. Loop!Cancel => LoopProofs!Cancel
    BY DEF Loop!Cancel, LoopProofs!Cancel, Loop!loopVars, LoopProofs!loopVars
<1>9. ASSUME NEW l
      PROVE  Loop!runLoop(l) => LoopProofs!runLoop(l)
    BY <1>2, <1>3, <1>4, <1>5, <1>6, <1>7 DEF Loop!runLoop, LoopProofs!runLoop
<1> QED BY <1>8, <1>9 DEF Loop!Next, LoopProofs!Next

LoopInv == LoopProofs!IInv /\ LoopProofs!BudgetInv

LEMMA LoopInitially == Init => LoopInv
  BY LoopSizes, LoopInit, LoopProofs!InitCorrect, LoopProofs!BudgetInit DEF Init, LoopInv

LEMMA LoopCorrect ==
  ASSUME LoopInv, Loop!Next \/ UNCHANGED loopVars
  PROVE  LoopInv'
<1>1. UNCHANGED loopVars => UNCHANGED LoopProofs!vars
    BY DEF loopVars, LoopProofs!vars, LoopProofs!loopVars, LoopProofs!histVars
<1> QED BY <1>1, LoopNext, LoopSizes, LoopProofs!NextCorrect, LoopProofs!BudgetNext DEF LoopInv

LEMMA LoopMeans ==
  ASSUME LoopInv
  PROVE  Loop!ResultsFollow /\ Loop!TypeOK /\ Loop!OvershootBounded /\ Loop!ChildrenCharged
<1> USE DEF Loop!Loops, LoopProofs!Loops
<1>1. \A f : Loop!SumFunction(f) = LoopProofs!SumFunction(f)
    BY DEF Loop!SumFunction, LoopProofs!SumFunction, Loop!SumFunctionOnSet,
           LoopProofs!SumFunctionOnSet, Loop!FoldFunctionOnSet, LoopProofs!FoldFunctionOnSet,
           Loop!MapThenFoldSet, LoopProofs!MapThenFoldSet
<1>2. /\ LoopProofs!ResultsFollow /\ LoopProofs!TypeOK
      /\ LoopProofs!OvershootBounded /\ LoopProofs!ChildrenCharged
    BY LoopSizes, LoopProofs!HistoryMeans, LoopProofs!BudgetMeans, LoopProofs!ChildrenMeans
       DEF LoopInv, LoopProofs!IInv
<1>3. Loop!ResultsFollow
    BY <1>2 DEF Loop!ResultsFollow, LoopProofs!ResultsFollow
<1>4. Loop!TypeOK
    BY <1>2 DEF Loop!TypeOK, LoopProofs!TypeOK, Loop!Pcs, LoopProofs!Pcs, Loop!Kinds,
           LoopProofs!Kinds, Loop!Outcomes, LoopProofs!Outcomes
<1>5. Loop!OvershootBounded
    BY <1>1, <1>2 DEF Loop!OvershootBounded, LoopProofs!OvershootBounded, Loop!MostCostly,
           LoopProofs!MostCostly, Loop!InParallel, LoopProofs!InParallel,
           Loop!Cardinality, LoopProofs!Cardinality
<1>6. Loop!ChildrenCharged
    BY <1>1, <1>2 DEF Loop!ChildrenCharged, LoopProofs!ChildrenCharged, Loop!ChildrenPaid,
           LoopProofs!ChildrenPaid
<1> QED BY <1>3, <1>4, <1>5, <1>6

LEMMA LoopHolds == Spec => []LoopInv
<1>1. LoopInv /\ [Next]_vars => LoopInv'
    BY LoopStep, LoopCorrect
<1> QED BY <1>1, LoopInitially, PTL DEF Spec

(***************************************************************************)
(* In every history, of the Run and of each child, results follow the tool  *)
(* calls; only the last call of a loop that was stopped stays open          *)
(* (runLoop).                                                               *)
(***************************************************************************)
THEOREM HistoriesCorrect == Spec => []ResultsFollow
<1>1. LoopInv => ResultsFollow
    BY LoopMeans DEF ResultsFollow
<1> QED BY <1>1, LoopHolds, PTL

(***************************************************************************)
(* No loop takes more turns than it may, and what a Run and its children    *)
(* spend passes the budget by at most one response for each loop that can   *)
(* be in flight at once (checkAdmission).                                   *)
(***************************************************************************)
THEOREM BudgetCorrect == Spec => []BudgetHolds
<1>1. LoopInv => BudgetHolds
    BY LoopMeans DEF BudgetHolds
<1> QED BY <1>1, LoopHolds, PTL

(***************************************************************************)
(* When the tools of a Run are done its ledger holds every response of      *)
(* every child, whatever the end of that child was, and nothing but what    *)
(* its loops were charged (spawnSubagent, Ledger.Add).                      *)
(***************************************************************************)
THEOREM ChargesCorrect == Spec => []ChildrenCharged
<1>1. LoopInv => ChildrenCharged
    BY LoopMeans DEF ChildrenCharged
<1> QED BY <1>1, LoopHolds, PTL
=============================================================================

# Verification of the Go agent SDK runtime

TLA+ models of `claudebuddy-agent-sdk-go`, the TLC runs that check small
instances of them, and TLAPS proofs of the main properties for all sizes.
Everything is translated from the Go source; file and line references below are
to that source. The SDK runs conversations with a language model: an `Agent`
owns configuration, `Session`s own histories, a `Run` is one prompt answered in
a loop of provider requests and tool calls.

## 1. Inventory

| Component | State | Operations | Interacts through | Hard behaviours | Correct when |
|---|---|---|---|---|---|
| Agent (`agent/agent.go`) | `closed`, `lifetime`, `sessions`, `runSlots`, `initSlot`, `initWG`, `mcpTools` | `New`, `Init`, `NewSession`, `GetSession`, `Close`, `spawnSubagent` | calls Sessions, MCP client, hooks | Close against Init, NewSession, running Sessions | shared resources outlive everything that uses them; Close returns |
| Session (`agent/session.go`) | `messages`, `active`, `closed`, `startDone`, `startOK`, `endOnce`, `registry` | `Start`, `Query`, `Prompt`, `Clear`, `Fork`, `Close` | one Run at a time; Agent's capacity | check, wait, recheck in Start; concurrent closers; failing SessionStart hook | one Run at a time, capacity respected, history undisturbed, Close joins |
| Run (`agent/run.go`) | channels `events`, `errs`, `done`; `eventOwner`, `result`, `err` | `Events`, `Err`, `Wait`, `Cancel`, `emit`, `complete` | channels to callers | full buffer, absent or slow reader, several Waits, cancellation | one terminal event, one outcome, told to everyone |
| Loop (`agent/loop.go`) and ledger (`costtracker/ledger.go`) | turns, history, shared cost | `runLoop`, `readStream`, `checkAdmission`, `Add` | provider, hooks, executor, child agents | parallel children on one budget, failures between response and accounting | tool calls paired with results; budget overshoot bounded; children charged |
| Executor (`tools/executor.go`) | results, semaphore | `RunTools`, `runSingle` | policy, hooks, tools; goroutines | cancellation while forking; hooks changing inputs | barriers, bound, one response per call, only approved inputs |
| MCP connection (`mcp/client.go`) | gate, `closing`, `requests`, pipes | `sendRequest`, `closeTransport`, `cleanup` | server process over pipes | cancelled exchange leaves a response in the pipe; close against requests | own response, one exchange, close joins |
| MCP client (`mcp/client.go`, `mcp/reconnect.go`) | `connections` | `ConnectServer`, `Close`, `Reconnect`, `CallToolWithReconnect` | connections | concurrent reconnects; connect against close | no connection lost without cleanup |
| Hooks (`hooks/hooks.go`) | rules (immutable) | `runHooks` | loop, executor | ordered rules, input updates, timeouts | first denial wins; every rule gets the original input, and the last output replaces those before it |
| Permissions (`permissions/`) | mode and rules (snapshot) | `NewPolicy` | executor, agent | precedence of bounds, rules, modes, callback | deny dominates, bounds cannot be widened |
| Providers (`api/`) | none beyond a request | `CreateMessageStream` | HTTP, channels to the loop | retries, truncated streams, cancellation of the producer | one outcome per stream, no goroutine left |
| Session store (`session/`) | JSONL files | rename, tag, fork, list, read | files | folding metadata lines | last writer of a field wins |
| Checkpoints, history (`checkpoint/`, `history/`) | snapshots; buffer and log | create, rewind; add, flush, remove, read | files | restore fails half-way; concurrent flushes | rewind restores the snapshot; each entry is once in the log |
| Tasks, todos, teams, cron, messages (`tools/`) | maps under a mutex | CRUD | tools | ID allocation after deletion | IDs are unique |
| Shell, file and web tools (`tools/`) | files, processes | one `Call` each | operating system | timeouts, children that hold a pipe, files changed between read and write | calls return, results are final, no blind overwrite |
| Rate limits, costs (`ratelimit/`, `costtracker/`) | counters, the current limit, a file | `AddUsage`, `Save`, `Restore`, `ParseHeaders` | loop, files | saving beside adding; responses parsed concurrently | costs covered by what was spent, every change of the limit told |
| MCP server (`mcp/server.go`) | tools | `HandleRequest`, registration | client over pipes | tools that come and go, notifications | one answer per request |
| Registry, plugins, sandbox, context, types | configuration | lookups | all | none concurrent | - |

How they interact: a host calls `Session.Start`; it reserves the Session under
`runMu`, waits for a token of the Agent's `runSlots`, and starts a goroutine that
executes `runLoop` and `complete`. `runLoop` asks a provider, appends to the
history, and gives tool calls to the executor, whose tools may be MCP tools
(requests on a connection) or `Agent` (a child Agent with a Session and Run of
its own on the same ledger). Events go through a buffered channel to whoever
claimed it. Closing goes top down: Agent, Sessions, Runs, tools, connections.

## 2. Modules

| Module | Models | State and actions |
|---|---|---|
| `AgentRuntime` | lifecycle of Agent, Sessions and Runs | `newSession`, `Fork`, `Start`, `complete`, `Clear`, `Close`, `Agent.Init`, `Agent.Close`; every lock section, channel operation or callback is one action |
| `RunContract` | what callers of `Wait` are promised (abstract) | decide an outcome, become idle, answer |
| `RunStream` | the channels of one Run | `emit`, `complete` step by step, readers, Waits; shown to implement `RunContract` |
| `RunLoop` | the agentic loop with child agents and the budget | admission, provider attempt, hook, accounting, tools |
| `ProviderStream` | one request to a provider and its reader | retries, stream scanning, two channels, `readStream`, `processStreamEvent`, the fallback's cancellation |
| `ProviderRequest` | the history a request is made of | `appendMessage`, `buildAPIMessages`, `convertToOpenAIRequest`, `convertOpenAIResponse` |
| `ToolExecutor` | one batch of tool calls | ranges and semaphore, and each call's way through policy, hooks and tool |
| `ToolAdmission` | the policy and the hooks of one call | `NewPolicy`, `RunPreToolUse`, PermissionRequest hooks, recheck, rules edited meanwhile |
| `ConnectionContract` | what callers of a connection are promised of a server that only answers requests (abstract) | begin an exchange, be answered, give up, close |
| `McpConnection` | one stdio connection | `sendRequest`, its I/O worker, `closeTransport`, `cleanup`, the server; shown to implement `ConnectionContract` |
| `McpClient` | the client's map of connections | `ConnectServer`, `Reconnect`, `CallToolWithReconnect`, `Close` |
| `McpHandshake` | the client talking to this repository's own server | `connectStdio`, `ListTools`, `CallTool`, `HandleRequest`, registration |
| `ToolStores` | tasks, todos, teams, cron jobs, mail, plan mode | one action per store operation, `TaskStop` in two |
| `FileTools` | `Read`, `Edit`, `Write`, `NotebookEdit` on one file | read states, staleness check and write apart |
| `Shell` | `Bash` | foreground command with timeout and children, background commands |
| `SessionStore` | session files | append, rename, tag, delete, fork; metadata from head and tail |
| `Checkpoints`, `History` | snapshots of files; the prompt history | file by file, with failures; add, flush, remove, read |
| `CostTracker`, `RateLimit` | costs and their file; the most constrained window | `AddUsage`, `Save`, `Restore`, restart; `ParseHeaders` and its callback |
| `Services` | the parts a Run consists of and uses, composed | one part is at work in a behaviour |
| `MCAgentRuntime` | instances of `AgentRuntime` for TLC | mappings of IDs, a host that keeps the Agent open |
| `AgentRuntimeProofs`, `RunStreamProofs`, `RunLoopProofs`, `ToolExecutorProofs`, `McpConnectionProofs` | TLAPS proofs about the module of that name | |
| `RunPartsProofs`, `ServicesProofs`, `ProviderRequestProofs` | TLAPS proofs about `Services` | of what a Run is made of and its tools keep; of history, checkpoints, session files, limits and costs; of the requests made of a history |

`RunStream`, `RunLoop` and `ToolExecutor` refine different spans of what
`AgentRuntime` does in one or two actions: `LoopReturns` stands for all of
`RunLoop`, `Publish` and `Finish` for the producer of `RunStream`, and one
`EndTools` of `RunLoop` for a whole `ToolExecutor` behaviour; `StreamEnds` and
`StreamFails` of `RunLoop` are a behaviour of `ProviderStream`, and a call's
policy, hooks and recheck in `ToolExecutor` one of `ToolAdmission`. Each is a
module of its own because their product is out of reach and none of them reads
the state of another except through the values named here. The services
(`ToolStores`, `FileTools`, `SessionStore` and so on) share no state in the code
at all. `Services` therefore lets one part run in each behaviour and leaves the
others as they were made: what a part reaches alone is what it reaches beside
the others, and a property of a part is stated there behind `active = ...`.

### Correspondence with the code

`AgentRuntime`. `sessions`, `runSlots`, `active`, `closed`, `startDone`,
`startOK`, `endOnce` are the fields of those names; `runSlots` is the number of
tokens in the channel. `history[s]` holds, for each message of `Session.messages`,
the Run that appended it. `runPc` follows `Start` and the Run's goroutine:
*waiting* is the `select` on `runSlots`, *recheck* the second lock section,
*completing* and *published* the two halves of `complete` around closing the
channels. `closerPc` follows `Session.Close`; Agent.Close runs it in its own
goroutine as the closer `AgentCloser`, first only `requestClose` for each Session
and then, in its second loop, the whole of it. A `context` that is done is a
boolean that never goes back: `cancelled[r]` for the Run's, `lifetimeDone` for
the Agent's. `initErr` is left out: an Agent with invalid options starts nothing.

`RunStream`. `pc` follows `emit` and `complete` statement by statement; the two
`select`s of `emitTerminal` are `SendTerminal` and `DropOldest`, with readers in
between. An event is its number, an error the set of kinds `errors.Join` holds
and `ResultStatus` the order of `resultStatus`'s cases. Readers are callers of
`Events` or `Query` that range over events, may stop by cancelling, then receive
from `errs`, and may then clear the Session.

`RunLoop`. One process per loop: the Run's and those of the children its `Agent`
tool calls start. All use the parent's ledger, as `newRun` finds it in the
context. A message is its kind, a response its cost, in units.

`ToolExecutor`. Positions are those of the batch, one-based; `start`, `end` and
`next` are the indices of the two loops. An input is what it is to its tool, a
safe read or a write, which is all the executor asks of it; the policy, hooks and
recheck may replace it.

`McpConnection`. A request is named by its JSON-RPC ID. The worker is the
goroutine of `sendStdioRequest`. The server is outside the repository: it
answers requests it has read in any order, or never, or exits.

`McpClient`. One server name; a connection is a number, and what happens inside
it is `McpConnection`. `current` is the entry of the map; an operation that holds
a connection it will register or clean up is at one of `Holding`.

`McpHandshake`. The pipes are sequences of lines. The host that feeds
`HandleRequest` is outside the repository: `glue` says whether it writes every
answer or drops those without ID.

`ToolAdmission`. The tool is fixed, so a rule is the input it matches, and an
input is a read or one of two changes. `seen` is the snapshot the policy takes,
`denied`, `modes` and `allowed` record what held during the call.

`ProviderStream`. `said` is what the server has answered, in blocks and fragments; a
fragment carries the number of its block, so that the message the reader builds
shows where each piece came from. `eventCh` and `errCh` are the channels,
`outbox` the events of a chunk not yet sent, `attempt` the retry. The two
adapters differ as their code does: only the Messages API numbers its blocks and
selects on the context when it sends.

`ProviderRequest`. Messages are sequences of blocks, a block a type and a number.
`keeper` tells a Session from a host that uses `api.Client` itself. An input of a
tool call is an object, none, or junk that does not parse. `Selected` is the loop
that appends the blocks of one kind to a slice.

`ToolStores`. An object is the number of the creation that made it, `items` maps
IDs to objects, so that an ID given to another object shows.

`FileTools`, `Checkpoints`. Contents are numbers; other programs write files at
any moment, and may leave them any modification time up to now, as `mv`, `cp -p` and
`tar` do. A clock that need not advance between two writes stands for the
milliseconds of modification times. A tool's write is one step, except on a full disk:
then the file has been truncated, holds a content nobody asked for, and nothing is
recorded.

`Shell`. The command's process, a child that inherited its output, the timeout
and the caller's context move independently; `RunReturns` waits for the process
and the pipe, as `cmd.Run` does.

`SessionStore`, `History`, `CostTracker`. A file is what a reader finds in it: a
sequence of lines, or one JSON value, or broken. Crashes happen between the
truncation and the write of `os.WriteFile` in `CostTracker`. In `History` these are
two steps of RemoveLast too, between which goroutines append: what it writes back
from the start of the file goes over their lines and may leave the rest of one, a
line that is no entry (`Torn`) and that `GetHistory` skips.

## 3. Runs

| Run | Instance | Shows |
|---|---|---|
| `AgentRuntime_capacity` | 2 Sessions, 2 Starts, 1 slot, a closer | slots are neither lost nor doubled, the capacity bound holds (`CapacityBound`), a cancelled Run finishes, also one that waits for the slot (`CancelledRunFinishes`) |
| `AgentRuntime_close` | 1 Session, 2 Starts, Session.Close and Agent.Close, 2 messages each | history undisturbed (`HistoryIntact`), closed Sessions are cancelled (`ClosedRunIsCancelled`), Close joins (`CloseJoins`), MCP closes after all registered Sessions (`McpClosedAfterSessions`), both kinds of Close return, each past the Runs it cancels, the hooks and the other one (`EveryCloseReturns`) |
| `AgentRuntime_init` | 2 Sessions that share an ID, 2 Inits, 2 tools | no Init after the client closes (`McpClosedAfterInit`), tools reach all Sessions (`ToolsReachSessions`), Agent.Close returns though Inits queue, without Runs or Session.Close, which the run above has (`AgentCloseReturns`) |
| `RunStream_contract` | buffer 2, 3 events, 2 readers, 2 Waits | terminal event exactly once and last (`TerminalDelivered`), errors agree (`ErrorAgrees`), contract implemented (`ImplementsContract`); Waits return, and a cancelled Run completes with a reader that reads nothing (`WaitsEnd`) |
| `ToolExecutor_batch` | all batches of 3, 2 slots | what overlaps may overlap (`OverlapAllowed`: bound and barriers), every call joined and followed by one post hook (`BatchComplete`), approved inputs (`OnlyApprovedInputs`), responses that stay (`ResponsesStable`); RunTools returns (`BatchReturns`) |
| `McpConnection_calls` | 2 requests, 2 closers | own response and one exchange at a time (`ResponsesMatched`), the sequential connection of `ConnectionContract` (`ImplementsConnection`); cancelled requests and cleanup return (`CallersReturn`) |
| `Services_all` | see Bounds | one property, or two, for each part, below |

`Services_all` in detail:

| Property | Part | Says |
|---|---|---|
| `ResultsFollow` | `RunLoop` | in a history, tool calls are followed by their results, except the last of a Run that was stopped |
| `BudgetHolds` | `RunLoop` | turns are bounded; parallel loops pass the budget by one response each at most |
| `ChildrenCharged` | `RunLoop` | the ledger has every response of every child |
| `CancelEndsRun` | `RunLoop` | a cancelled Run ends, with its children |
| `ErrorsReported` | `ProviderStream` | an attempt taken for complete is one in which nothing failed, in every order of events, error and closes; a read error of the OpenAI scanner, which its producer does not report, is not counted as a failure |
| `AcceptedIsWhole` | `ProviderStream` | the message has what was streamed, each part in its block |
| `ProducerEnds` | `ProviderStream` | a producer of the Messages API ends when its reader has left |
| `CallsAdmitted` | `ToolAdmission` | hooks, host and edited rules cannot make an input run that bounds, rules or mode forbid |
| `ConnectionsKept` | `McpClient`, `McpHandshake` | no connection is lost open; a retry crashes only after a Close; a call takes its own answer |
| `SessionFilesHold` | `SessionStore` | the last title within head and tail is shown; forks keep all lines they were asked for, in order, and have their own UUIDs |
| `StoresHold` | `ToolStores` | IDs keep their object (of tasks until one is deleted); mail comes once and in order |
| `RecordsHold` | `Checkpoints`, `History` | an undisturbed rewind restores the latest snapshot; entries are in one place, if any, and read from the end of the file, each text once |
| `TrackersHold` | `CostTracker`, `RateLimit` | costs, also restored ones, are covered by what was spent; changes are told once, a rejecting window wins |
| `NoBlindOverwrite` | `FileTools` | a file its Run does not know is overwritten only where the check is blind: nobody read it, its time is not after the read (however old it is), or it changed between check and write |
| `ResultsFinal`, `CallReturns` | `Shell` | process and output have ended when a result is given; a stopped command's call returns unless a child holds the pipe |
| `RequestsHold` | `ProviderRequest` | in a request every call has its answers behind it, but those of Runs ended before; what a model answered is sent back as it was |

Several of these state exceptions. They are what the code does, found when a
stronger form failed: a task deleted between two creations, a child holding the
pipe, a Close during a Reconnect, a title between head and tail, a change whose
modification time is not after the read, a restore that forgets usage added while
it reads.
`PROJECT.json` lists them with their lines under "hazards".

Bounds. `MaxWrites`, `MaxEvents`, `MaxTurns` and the other `Max` constants cap
counters that the code leaves to the length of a conversation. One slot with two
Starts, a buffer smaller than the number of events, two slots with three calls,
and a budget a few responses reach are the smallest instances in which waiting,
overflow, queueing and refusal happen; a second closer (Agent.Close is one),
Wait, reader or child is the first that can race with another, and a second
request the first that meets what a cancelled one left behind. In
`Services_all`: two children and a budget of four with responses of one or two;
a buffer of two for two blocks of two fragments and one retry, so that a producer
blocks and fails after it has sent; three connections and attempts, for one
connector, two callers and a closer that meet in one Reconnect; head and tail of
two and one lines for files of four, so that they overlap, touch and leave a gap;
two agents and five operations on the stores, enough to delete and create again;
two savers with a restart; four responses over two rate-limit windows; two Runs
editing one file; five messages, enough for an answer with two calls, its
results and a next request; three history entries of two projects, for one in
the file and two with goroutines while RemoveLast rewrites it.
`AgentRuntime_capacity` restricts itself, by the action
constraint `AgentStaysOpen`, to hosts that do not close the Agent. Deadlock
checking is off: every model ends when its calls have returned.

### What the code does otherwise than its docs and tests say

Five runs end, as expected, in a counterexample.

* `AgentRuntime_failedstart`: `docs/runtime-concurrency.md:65` says Agent.Close
  cancels and joins all Sessions before it closes MCP resources. A Session whose
  SessionStart hook is running can be obtained with `GetSession` and started;
  when the hook fails, it leaves the map with its Run executing.
* `RunStream_drained`: a test reads both channels of `Query` to the end, clears
  and expects an empty history. `complete` closes the channels before the Session
  becomes idle, so the Clear can be a no-op.
* `ToolExecutor_barrier`: the same document says a mutation is a serial barrier.
  A call is classified by the input the model sent, before a policy or a hook may
  change it.
* `RunLoop_usage`: the terminal record is said to include total usage. A
  PostSampling hook that ends the Run does so before the response is accounted.
* `ProviderStream_openai`: a comment says the input of a tool is parsed when its block
  stops. The OpenAI adapter sends its events without block numbers, so that the
  input of a call that is not the only block is added to another one and lost.

Others of the same kind are recorded as hazards: the OpenAI producer does not
look at its context when it sends and stays behind when the reader leaves
(`ProducerEnds` is stated for the Messages API only), and `Write`, whose
description says it fails for a file that was not read, overwrites it.

## 4. Fairness

Weak fairness of every goroutine that can step: the Go scheduler does that.
Nothing else is assumed unless it says so here.

* `AgentRuntime`: host code (SessionStart hooks, runLoop, servers in Init) is
  fair only once its context is done - the documented duty of callbacks. A Start
  that waits is fair towards *taking a token or giving up*, not each of them.
  Hosts need not call anything. Stop and SessionEnd hooks have a timeout of two
  seconds in the code, so `Publish` and `CloseEndsSession` are fair.
* `RunStream`: nothing is assumed of readers; `EveryWaitReturns` has the premise
  `ReadersGoOn`, that whoever claimed the stream drains it or cancels, as the doc
  of `Run` asks.
* `ToolExecutor`: policies, hooks and tools return.
* `McpConnection`: the server owes nothing; a free gate goes to some waiter.
* `RunLoop`: nothing moves by itself before the cancellation; afterwards every
  provider, hook and tool returns.
* `ProviderStream`: a server may be silent for ever; once the context is done every
  exchange and every wait ends, as `http.Request.WithContext` has it.
* `Shell`: the kernel delivers a kill, and `cmd.Run` returns when process and pipe
  have ended; commands and their children may run for ever.

In `Services` the fairness of these three parts is assumed together; none of it is
enabled before a part's first step, so that it asks nothing of inactive ones.

## 5. Proofs

Checked by TLAPS for all values of the constants, under the assumptions the
modules name (capacities positive, finitely many Runs, distinct null values).

`AgentRuntimeProofs`. The safety properties are not inductive: that the capacity
bound holds needs to know which Runs hold tokens, that Close joins needs to know
that no Run enters a closed Session, that Agent.Close is in order needs what it
has already achieved for the Sessions of its snapshot. `IInv` adds, per process,
what its location implies (`RunInv`, `StartInv`, `CloserInv`, `EndInv`,
`AgentInv`), and the proof is arranged the same way: frame lemmas say which group
of actions touches which variables, lemmas about what never goes back
(`CancelStays`, `StartStays`, `ClosedIdleStays`, `EndedStays`), and one
preservation lemma per part. The count of tokens is a cardinality argument over
the set of holders (`SlotStep`). Proved: every invariant of the three
`AgentRuntime` runs (`TypeOK`, `CapacityBound`, `HistoryIntact`,
`ClosedRunIsCancelled`, `CloseJoins`, `McpClosedAfterSessions`,
`McpClosedAfterInit`, `ToolsReachSessions`), and beyond them `SlotAccounting`
(the tokens in the channel are those of the Runs that hold one), `OneActiveRun`
and `SessionEndIsLast` (the SessionEnd hook runs after the last Run and after
the SessionStart hook), which are left to the proofs.

`RunStreamProofs`. The invariant `TermInv` says where the terminal event is:
nowhere before `emitTerminal` has sent it, then last in exactly one of the
channel and the takers. `DropInv` bounds the retries of `emitTerminal`, `ErrInv`
follows the one error, `OwnerInv` the claim on the stream. Proved: both
invariants of the run `RunStream_contract`, its `TypeOK`, that at most one
progress event is dropped (`AtMostOneDropped`) and that the stream has one drainer
(`OneDrainOwner`), which are left to the proofs, and `Spec => Contract!Spec`:
every step maps to a step of `RunContract` or a stutter.

`ToolExecutorProofs`. `PlaceInv` cuts the batch at `start` and `Frontier`: calls
before the first are done, those from the second on untouched, and those between
are the serial call or the forked part of a range. `SlotInv` equates the tokens
that are out with the goroutines that have not ended, which gives the bound;
`CallInv` says what the place of one call implies for its input, response and
hooks. A step of `runSingle` changes its own call only (`SingleStep`), so that one
lemma carries all of them through `IInv`; `FillCorrect` does it for the three
places where cancellation answers the rest of a range. Proved: every safety
property of `ToolExecutor_batch` (`OverlapAllowed`, `BatchComplete`,
`OnlyApprovedInputs`, `ResponsesStable`).

`McpConnectionProofs`. That callers get their own responses depends on what is in
the pipes when an exchange begins: `PipeInv` says they are empty whenever nobody
works on a connection that is not closing, and hold at most the answer the
worker waits for while one does. The gate (`GateInv`, `WorkerInv`) makes that one
worker unique, and `CloseInv` ties `closing` and `down` to `closeOnce`. A server
that has exited may leave requests unanswered, which is why emptiness of what it
received is only claimed while it is up. `OutcomeInv` says when a call has its
outcome, and that it waits for its worker only on a connection that is closing.
Proved: `ResponsesMatched`, that cleanup leaves nothing behind it (`CloseJoins`,
left to the proofs), and `Spec => Contract!Spec`: every step maps to a step of
`ConnectionContract` or a stutter. An exchange there is a call between its second
look at the context and its end, or a worker that has not ended; `open` is
`~closing`. A contract whose exchanges end without an answer only when it is
closed, and begin only when it is open, is what the poisoning of the transport
after a cancellation is for.

`RunLoopProofs`. `HistoryInv` says at which places of a loop its history is closed,
`PaidInv` that a child owes the ledger only the response it is about to account,
`JoinInv` that tools end with their children. The budget needs `BudgetInv`: what
was billed, with one response of the largest cost for each loop that waits for one
(`Streaming`), stays below the limit with one for each loop that can run at once; and
the ledger is the sum of what its loops were charged. Sums are folds, about which
the prover knows nothing: `AllNumbers` and `AllSubsets` state induction with a set
in place of a predicate, from the well-foundedness of the naturals; with them
`FoldExists`, `SumUnfolds`, `SumChanged` and `SumBounded` say that a sum over a
finite set is an integer, changes by as much as one of its terms, and is bounded
by its largest term. Proved: `TypeOK`, `ResultsFollow`, `ChildrenCharged`,
`OvershootBounded`.

`RunPartsProofs`, `ServicesProofs` and `ProviderRequestProofs` are about `Services`,
and state the safety properties of the run `Services_all`. A step is one of one part or leaves the
variables of that part alone (`LoopStep`, `StoreStep`, ...), so that the invariant
of a part is proved over its own variables and holds in every behaviour, whichever
part is active. `RunLoop` enters by way of its own proofs: an initial state and a
step of the instance are ones of the module proved about.

* `RunLoop` (`HistoriesCorrect`, `BudgetCorrect`, `ChargesCorrect`): as above.
* `ToolAdmission` (`AdmissionsCorrect`): whatever snapshot the policy holds, its
  mode is one that was set during the call, its allow rules are among those that
  ever were there and its deny rules contain those that always were
  (`SnapshotInv`); an input that passes is then within the bounds (`Within`) at
  the places where nothing asks again.
* `Shell` (`CommandsCorrect`): a call past `cmd.Run` has neither process nor holder of
  its pipe, a killed one has a reason, and a background command is listed before
  its end can be seen.
* `FileTools` (`EditingCorrect`, an action property): contents are numbered as they
  are written, so that a file that changed after the tool's own read is never what
  the tool has read; from the check to the write an unchanged file `MayReplace`.
* `ProviderStream` (`ErrorsCorrect`, `MessagesCorrect`): an error is reported once and
  before the channels close, and stays in its channel until it is the verdict
  (`ReportInv`). For the content, a cursor is a place in the response; `msg` and
  `blocks` show what is before the reader's cursor, and the events in the channel,
  in the producer's hand and still to be said lead from there to the server's
  (`Leads`), one event from one cursor to the next. An accepted response is one
  whose reader has come to the end. Proved for the Messages API's numbered
  events and every number of blocks, fragments and retries; of the OpenAI adapter
  for a single block, which is all it holds for.
* `McpClient`, `McpHandshake` (`ConnectionsCorrect`): a connection that is open is the
  entry of the map or held by an operation that will register or clean it up
  (`NoConnectionLost`, inductive with `ClientTypes` and `MadeInv`), and until a Close
  has begun a registered one is there to be found (`RetryInv`). Of the handshake,
  what is in the two pipes is one of few shapes (`Outstanding`,
  `NoticeOut`, `BothOut`), in which no answer to an earlier request, and no answer
  to the notification, stands before the one a call waits for.
* `ToolStores` (`StoresCorrect`): objects of a store other than tasks are numbered by
  their IDs, tasks too until one is deleted; what was read and what is in a box
  are together what was sent.
* `Checkpoints`, `History` (`RecordsCorrect`): each checkpoint has every path once and
  no fewer paths than those before it, and a rewind that nobody disturbs has
  restored the part of its goal that is behind it. An entry is in the buffer, in
  the file or with one goroutine (`InOnePlace`). What RemoveLast has read is
  how the file still begins until it truncates it; then those entries are in no other
  place (`SetAside`), also not among what is appended before it writes them back. What
  `GetHistory` returns is proved by induction over the entries it has looked at
  (`Takes`): those of the newest entries, in order, until the maximum is reached.
* `CostTracker`, `RateLimit` (`TrackersCorrect`): where a Save is, the total it took is
  covered by the models it has copied and those it has still to copy (`SaverInv`,
  `WillSee`), so that every file that Restore accepts is covered too; the changes of the
  status are those told and those that a caller has still to tell (`Telling`), and
  the loop over the windows has found a given window that rejects if any does
  (`Finds`).

* `SessionStore` (`SessionFilesCorrect`): for each file, `named` is the last line with a
  title (`IsNamed`); the fold over head and tail keeps the last title among the lines
  it has read (`IsLastTitle`), and the tail holds every line behind one of its own,
  so that a title read there last is the last of all. A fork is compared with
  `forked`, the lines it was asked for, which nothing changes; and no UUID is above
  the number of those given out (`UUIDInv`), which keeps new ones apart.
* `ProviderRequest` (`RequestsCorrect`): the request of a history with one more message
  is the one before with what that message becomes behind it (`RequestGrows`,
  `ConvertGrows`). `AnsweredBut` says of a request that each message with a call is
  followed by the answers of its calls, and that nothing else is an answer, but for
  calls of a given set. While tools run, that set has the pending calls as well
  (`Pending`), and these are the tool uses of the last message, newer than all before
  (`NoneAbove`): their results then close the gap. `Faithful` compares the assistant
  messages with what the service said. One lemma for each step of a turn
  (`PromptStep`, `AnswerStep`, `ResultsStep`, `EndStep`) is about values and not
  variables; the actions are instances of them.

Assumptions of `Services`: the Parent is no child, children, models and callers
are finitely many, budget, turns, windows, the capacity, the lines of head and tail
and the blocks of a message are numbers, no title is the empty string, and of the
responses' costs one is the largest, so that the overshoot has a bound. Nothing is
assumed of files, servers, hosts and other programs beyond what their actions say.

Induction over data. The library's induction theorems take an operator as
parameter, which no installed prover instantiates. Where a property rests on a
loop or a recursion (the sums, `GetHistory`, the windows of a response, the lines of
a session file, the messages of a request), the set
of the numbers for which the claim holds is shown to be all of them
(`AllNumbers`, `UpTo`), and that a recursive definition is a function at all is a
lemma (`RecursionExists`, `FoldExists`). These definitions are written as recursive
functions for that reason.

Only model-checked: all liveness properties (`CancelledRunFinishes`,
`EveryCloseReturns`, `AgentCloseReturns`, `WaitsEnd`, `BatchReturns`, `CallersReturn`, `CancelEndsRun`,
`ProducerEnds`, `CallReturns`), as fairness and ENABLED are outside the prover. Every
safety property of a passing run is proved.

## 6. Not modelled

See `components` in `PROJECT.json`. Cloning, option defaults, wording, logging,
the operating system's side of tools, and the sample programs are left out on
purpose, as are context, sandbox and plugins, which read configuration and keep
no state that changes. Within the modelled parts: `Options.Validate` and
`initErr`; grandchildren of a Run (their loops would be further processes of the
same kind on the same ledger); the HTTP transport of MCP; the matching of paths
and commands against rule patterns; search, web and language-server tools, which
keep no state; worktrees, whose store is a map and whose effects are git's (the
hazards name a branch that `ExitWorktree` deletes although it existed before).

## 7. Plan

1. *Core*, done: AgentRuntime, RunStream with RunContract, ToolExecutor,
   McpConnection, RunLoop.
2. *Extension*, done: the client's map of connections, the handshake with the own
   server, provider streams and requests, policy and hooks, stores, files,
   commands, sessions, checkpoints, history, costs and rate limits, composed in
   `Services`.
3. *Proofs*, done: every safety property of a run.
4. *Abstractions* worth stating: an admission controller (a counting semaphore with
   cancellation) that AgentRuntime implements; a batch executed in order that
   ToolExecutor implements. The sequential connection that McpConnection implements
   is `ConnectionContract`, done.

# Verification of ovid-core

TLA+ models of the concurrent and stateful parts of ovid-core, the TLC
configurations that check them, and TLAPS proofs about them. Paths below are
relative to `src/ovid_core/` of the repository.

## 1. The system

ovid-core is a Python 3.14 asyncio library for building and serving agents. It
runs on one event loop; what interleaves is the synchronous code between two
suspension points of different tasks, and, for the stored Codex tokens,
different processes.

| Component | State | Operations | What is hard |
| --- | --- | --- | --- |
| Relay network (`relay/memory.py`, `connection.py`, `_state.py`) | registry of addresses; per mailbox: messages, waiters, reserved and scheduled messages, handler, delivery lock; the futures of waits | `connection`, `close`, `send`, `wait`, `pending`, `set_delivery_handler`, delivery tasks | a future is set, cancelled or timed out before its task runs; deliveries, waits and `pending` compete; addresses are reused |
| Active runs, server runtime (`server/active_runs.py`, `runtime.py`) | map of active runs (task, principal, flags), semaphores, terminal flag of a session | start, authorize, stream, cancel, disconnect, persist, close | a cancel arrives at any await of the run; persistence and the terminal event must agree |
| HTTP/SSE transport (`adapters/starlette/app.py`) | queue of one event, `disconnected` event | stream, cancel route, disconnect | producer and consumer stop at different times |
| Stdio transport (`server/stdio.py`, `stdio_connection.py`) | pending requests, tasks, run ids, write lock | runs, commands, cancellation, shutdown | order of requests, cancel in the queue, whole frames, one terminal frame |
| Conversation persistence (`persistence.py`) | stored messages of a conversation | load, commit, append | two runs of a conversation overlap |
| Codex tokens (`codex/tokens.py`, `keyring.py`) | snapshot and revision in a store that processes share; refresh lock | get, force refresh, save, delete, compare-and-swap | rotating refresh tokens, lost compare-and-swap |
| Codex login (`codex/auth.py`, `_login.py`, `_browser.py`, `_device.py`) | active login handle, its task and outcome; callback server | start, wait, cancel, close | the context exits while a login starts; late callbacks |
| Codex HTTP authentication, models (`adapters/pydantic_ai/_codex_http.py`, `codex.py`, `codex/catalog.py`) | the cached model catalog and the revision it belongs to; instruction lock | request, refresh after 401, list and build models | one retry; a revision read before an await names what is loaded after it |
| Authentication registry (`authentication/`) | one session per provider | start, complete, close, status | double start |
| Agent definition and build (`agents.py`, `agent_build.py`, `mcp/capability.py`) | the MCP capabilities and the lock around their creation; the prepared definition and its context | prepare, extend, build, run with a model of its own | the first preparation creates for all, and may fail |
| Model routing (`routing/`, `adapters/pydantic_ai/models.py`, `routing.py`) | cache of handles, each with its model and last API key; models of a fallback | resolve, select a model | check, await, set; handles are shared by runs |
| Usage (`usage/tracking.py`, `policy.py`, `adapters/pydantic_ai/_usage_tracking.py`) | tree of trackers; what of a run is recorded | child, record, limits | children overshoot a budget together; a limit raises in the middle |
| Agent runtime and stream (`adapters/pydantic_ai/_agent_stream.py`, `_agent_runtime.py`) | pending events, sequence, expectation flags | run, stream, leave | order and terminal events; a consumer that leaves |
| Tools and hooks (`adapters/pydantic_ai/tools.py`) | bound tools | offer, hooks, execute, notify | one step of several fails |
| Services and plugins (`services.py`, `plugins.py`) | bindings and features; registrar | validate, register | data, built once |
| Messages, configuration, credentials, skills | none that changes | conversion, validation | data only |

How they interact: a transport starts a *server session*, which registers an
active run, takes the concurrency slots, loads the conversation, runs the
agent's event stream, persists the new messages and only then lets the terminal
event out. The agent's tools may use the *relay*; the agent's model comes from
the *router*, whose providers ask the *authentication* sessions and the *Codex
tokens* for credentials; every model response is recorded in the *usage* tree.

What makes each correct, in a line: relay - a message has one place and one
reader; server - one terminal frame, and a result only when it is persisted;
stdio - requests execute in order, every run is answered once; tokens -
no process overwrites a newer snapshot; login - no handle outlives its context;
usage - a parent accounts for its children, once; routing - a request uses no
key older than its selection; stream - events are numbered and end once; tools -
hooks see what happened; build - the lock is always freed.

## 2. Modules

| Modules | Part | Composed of |
| --- | --- | --- |
| `Relay`, `RelayLifecycle`, `MCRelay`, `RelayProofs`, `RelayDeliveryProofs` | section 3 | `Relay` implements `RelayLifecycle` |
| `ServerRuntime`, `HttpServer`, `StdioServer`, `RunOutcome`, `MC...`, `ServerProofs`, `HttpServerProofs`, `StdioServerProofs` | section 4 | the transports extend the runtime and implement `RunOutcome` |
| `CodexTokens`, `CodexLogin`, `MCCodex`, `CodexProofs` | section 5 | logins commit to the store of the tokens |
| `ModelRouting`, `AgentExtensions`, `AgentBuild`, `AgentRun`, `MCApp`, `AppProofs`, `RunProofs` | section 6 | the build resolves with the router, the run asks its handles |

The `MC` modules only give values to constants. Bounds are constants of the
`.cfg` files, named where each run is described. Operators whose name ends in
`Fault` are plausible bugs: each property of a run is violated when one
definition is replaced by its faulty form (`mutants` in `PROJECT.json`); no
specification uses them.

Every invariant and every action property of the passing runs, and the three
refinements, are also theorems; what only TLC checks is liveness and what the
`doc` runs refute. What could be added next: the authentication sessions over
`CodexLogin`; a relay whose handlers send.

## 3. Relay

`Relay.tla` models `InMemoryRelay`. The functions decorated with `@locked`
contain no `await`, so the lock is never contended; each of them with the
synchronous code around it is one action. An action is a real step of a task:

| Action | Code |
| --- | --- |
| `Connect`, `Close`, `SetHandler` | `connection`, `InMemoryRelayConnection.close` with `_close`, `_set_delivery_handler` |
| `SendToWaiter`, `SendToMailbox`, `SendRefused` | `_send` with `_accept_message`, by outcome |
| `WaitTake`, `WaitRegister` | `_take_or_register_waiter`: the call returns at once or blocks |
| `Interrupt` | the timer of `asyncio.wait_for`, or a cancellation of the caller: the future is cancelled if pending, else only the task is marked |
| `WaitResume` | the waiting task runs again: it raises or returns and unregisters (`_remove_waiter`) |
| `TakePending` | `pending(retain=False)` |
| `Prepare`, `Finish` | the delivery task that has the delivery lock: `_prepare_delivery`, the handler's end and `_finish_delivery` |

State: `conn` and `mailboxes` (the registry); per mailbox `inbox`, `waiters`,
`reserved`, `scheduled`, `handler`, `tasks` (the queue of the delivery lock) and
`delivering`; per wait call `phase`, `want`, `future`, `slot`, `interrupt`; per
message `envelope` and `fate`. Lists of the code are sets ordered by the
histories `accepted` and `registered`. Contents, timestamps, display names and
the values of identifiers are left out, as are calls that change nothing.

`RelayLifecycle.tla` is what a relay promises about one message; `Relay`
implements it (`LifecycleSpec`) under a mapping that forgets futures, tasks and
the registry.

### Runs

| Run | Shows |
| --- | --- |
| `relay_reuse` | the safety invariants and the implementation of `RelayLifecycle`, with two connections that use one address in turn, two messages, two waits, capacity 1 and every way a handler ends |
| `relay_ack` | with replies and filters on them, and a handler that acknowledges, a stored message never lies beside an active wait that matches it, it leaves, and every delivery task ends |
| `relay_doc_dropped`, `relay_doc_close` | two statements of the documentation the code does not keep (section 3.2) |

Bounds: two connections are what reuse of an address and a stale delivery task
need (`relay_reuse`); two waits are what "an earlier waiter" needs; two messages
and capacity 1 fill a mailbox while another message is in flight; with capacity
2 and one connection (`relay_ack`) two delivery tasks queue on the lock. Message
and wait names are symmetric in `relay_reuse`. Deadlock is not checked: callers
may stop calling.

Fairness (`Fairness`): the event loop runs ready tasks, so `Prepare`,
`WaitResume` and, as the application's handlers return, `Finish` are weakly
fair. Sends, waits, timeouts, closes and handler changes are the environment's
and are not fair.

### 3.2 Where the documentation and the code differ

- `AcceptedIsNotDropped`: a wait whose timer fires after `set_result` and
  before its task runs returns `None`, and the accepted message is gone.
- `CloseWakesWaiters`: `close()` raises at a waiter that is already cancelled
  but not yet unregistered, and later waiters block on. A send that meets such a
  waiter raises `InvalidStateError`; the model has it as the fate `failed`.
- A deferred message can be delivered again while a wait that matches it is
  active (no run checks this one: `WaitersAreServed` holds only for a handler
  that acknowledges).

### 3.3 Proofs

`RelayProofs.tla` proves for any finite or infinite sets of connections, waits
and messages, any filters, any capacity and any handler behaviour
(`RelayAssumption` only types the constants):

- `TypeCorrect`, `RegistryCorrect` (`RegistryMatchesConnections`),
  `WaitersCorrect` (`WaitersAreTheBlockedCalls`), `MessageConserved`
  (`MessageInOnePlace`).

The inductive invariant `Inv` joins six parts. `RegistryInv` adds that a
connection found at an address has that address; `WaitInv` says where waits are
that are in no list (`WaitResume` removes by address, so the proof needs that a
waiter of an open mailbox belongs to it); `SlotInv` ties the message of a
future to its state; `PlaceInv` is conservation conjunct by conjunct; it needs
`OwnerInv`, since `Finish` consumes a message because the running handler has
it reserved, hence still in the mailbox, which holds because wait and `pending`
skip reserved messages and a queued task never concerns a reserved message.
`TypeStep`, `RegistryStep`, `WaitStep`, `SlotStep`, `PlaceStep` and `OwnerStep`
prove that a step preserves each part. `Inv` was also checked by TLC.

`RelayDeliveryProofs.tla` draws from `Inv` what the deliveries promise:

- `DeliveriesAreSound` (`DeliveryIsSound`): the handler that runs has its message
  reserved, a message has one delivery task, and a mailbox is bounded. To `Inv`
  it adds `SettledInv`, that nothing is reserved or scheduled without a task
  unless a handler was cancelled, and `BoundInv`, that a mailbox is finite and
  within its capacity.
- `WaitersGetTheirMessages` (`WaitersAreServed`): if handlers do not defer, a
  message that a waiting call would accept is not left in its mailbox. The
  property is inductive on top of `Inv`: a wait is registered only where nothing
  visible matches, a message is stored only where no waiter matches, and a
  message that becomes visible again has been deferred.
- `NetworkImplementsLifecycle` (`LifecycleSpec`): every step is a step of
  `RelayLifecycle` or a stutter. `Inv` says where a message is before the step,
  `BoundInv` that its mailbox has room; one lemma per action of the relay
  (`SendRefines`, `ReadRefines`, ...) names the step of the lifecycle.

Only model-checked: the liveness properties `StoredMessagesAreDelivered` and
`DeliveryTasksEnd`, and the two statements of section 3.2 that do not hold.

## 4. Server

`ServerRuntime.tla` is the life of a run in `server/runtime.py` and
`active_runs.py`, from the lines of the semaphores to its terminal frame. Two
transports extend it: `HttpServer.tla` (a queue of one frame between producer
and response generator, disconnects, the cancel route, shutdown) and
`StdioServer.tla` (the queue of runs and commands, the reader, the write lock
and the threads that write to stdout).

`stage` is where the task of a run is suspended: `queued` (stdio), `slot` and
`agentSlot` (the two semaphores), `authorizing`, `loading`, `preparing`,
`streaming`, `sending` / `usage` / `failed` (in a send, by what follows it),
`persisting`, `reporting` (sending the terminal frames), `done`. A cancellation
(`CancelRuns`, `Abandon`) or the session timeout (`Expire`) only sets `kick`;
the CancelledError is thrown when the task next runs, by `InterruptRun`, even if
what it awaited has happened. So the store may have applied the messages
(`StoreApplies`) of a run that ends as cancelled. The transport parameters are
`Buffer` (frames stored before a send suspends: 1 and 0) and `Trailer` (the
`None` that ends an HTTP response).

| Action | Code |
| --- | --- |
| `Enter` (`UnknownAgent`, `JoinLine`), `TakeServerSlot`, `TakeAgentSlot` | `events`, `_registration`, the semaphores of `session` |
| `Authorize`, `Load`, `SessionFails`, `OpenStream` | `session` up to the agent's stream |
| `StreamEvent`, `StreamResult`, `StreamFails` | `PydanticAIStream.__anext__` and the loop of `events` |
| `StoreApplies`, `PersistReturns`, `PersistFails` | `persist`, the rest of `stream` and of `events` |
| `InterruptRun`, `Fail`, `FailureFrames`, `Cause` | the `except` clauses of `events`, `_send_failure` |
| HTTP `Put`, `Take`, `Disconnect`, `Cancel`, `Close` | `_run_frame`, `_event_stream`, `disconnect`, `cancel`, `close` |
| stdio `Start`, `Dispatch`, `InterruptQueued`, `Finish`, `Issue` ... | `_schedule`, `_dispatch_after`, `_command` |
| stdio `BeginFrame`, `Drain`, `ThreadWrites` | `_write_response`, `_write_stdout` |
| stdio `Cancel`, `CancelReturns`, `Initialize`, `Close` | `cancel_owned`, which blocks the reader; `_initialize`; the end of `_serve` |

`RunOutcome.tla` is what a server promises about a run; both transports
implement it (`OutcomeSpec`): for a client that stays exactly one answer, a
result only for a run whose messages are stored, nothing after the end. It does
not promise that an error means nothing was stored, and the code does not.

Left out: contents of prompts, events and outputs; error codes other than
"cancelled"; compaction of a history by the agent (`HistoryGrows` is about the
messages a run adds); requests that are refused and change nothing; failures of
writing to stdout. A free slot is taken in a step of its own, in the code
without suspension.

### Runs

| Run | Shows |
| --- | --- |
| `http_safety` | two runs of two agents in one conversation, every interruption at every stage: order of the frames, durability, no frame for a client that left, no generator that waits for nothing, no message lost by an appending store, and the implementation of `RunOutcome` |
| `http_live` | two runs of an agent that runs one at a time: slots are conserved; a store that replaces the history is safe; runs end, behind others in the semaphores and when the client leaves without reading; a cancellation is reported to a client that reads |
| `stdio_safety` | two runs and a command, slots for both runs and a store that replaces the history: the queue alone keeps the order, the frames and the history, whatever is cancelled in it, `RunOutcome` is implemented, and requests end |
| `stdio_doc_frames` | a statement the code does not keep (section 4.2) |

Bounds: two runs contend for a slot, overlap in a conversation and wait in a
line; two runs and a command put a cancelled request between two others; one or
two ordinary events before the result give every case of `last` (none, event,
failed) and of a sequence that goes on; each run has one timeout, cancellation
and disconnect at any stage. `HistoryGrows` would fail for `CommitsHistory` with
slots for two overlapping HTTP runs: this is the hazard at `runtime.py:192`, and
the two runs show what excludes it, the agent's limit or the stdio queue.

Fairness: tasks that can run do (`TaskFairness`, the event loop), which includes
that callbacks, agent, store and command handlers return or raise; threads
finish their frames. `ReadingSpec` adds that a client that stays reads. The
write lock of stdio is strongly fair because `asyncio.Lock` serves its waiters
in order. Requests, cancellations, timeouts, disconnects and shutdown are the
environment's and are not fair. Deadlock is not checked: all requests of an
instance may have been answered.

### 4.2 Where the documentation and the code differ

`StdioServer!Spec` has at most one interruption per frame, and shutdowns within
`shutdown_grace_seconds`. Outside:

- `AbortSpec`: when the grace period ends while a run writes its terminal
  frame, the task group cancels it and `_dispatch_after` answers `run_cancelled`
  after the `run_result` (no run checks this one).
- `FramesAreWrittenInTurn`, which holds for one interruption of a frame, fails
  with two (`ImpatientSpec`, the run `stdio_doc_frames`): `await frame` after
  the first interruption is not shielded; a second one (timeout and
  cancellation) frees the write lock with the frame still in its thread.

### 4.3 Proofs

A completed run is durable, for any number of runs, agents, conversations and
events and whatever the interruptions: `HttpCompletedIsDurable`,
`StdioCompletedIsDurable`, and also where the stdio server is weaker, after a
shutdown without grace (`AbortedCompletedIsDurable`) and with a second
interruption of a frame (`ImpatientCompletedIsDurable`). The other properties of
the runs are proved as well, on each transport that has them:

| Theorem | Property |
| --- | --- |
| `HttpTypeCorrect`, `StdioTypeCorrect` | `TypeOK` |
| `HttpSlotsConserved`, `StdioSlotsConserved` | `SlotsAreConserved` |
| `ResponsesAreWellFormed`, `ResponsesEnd` | `ResponseIsWellFormed`, `ResponseEnds` |
| `FramesInTurn`, `RequestsInOrder` | `FramesAreWrittenInTurn`, `ExecutesInOrder` |
| `HttpHistoryGrows`, `StdioHistoryGrows` | `HistoryGrows` |
| `HttpImplementsOutcome`, `StdioImplementsOutcome` | `OutcomeSpec` |

Assumptions: `ServerAssumption` types the constants and says that what a
transport sends last is nothing or the end frame (and, as `_agent_concurrency`
computes them, that no agent has more slots than the server). `HttpAssumption`
and `StdioAssumption` fix the parameters of each transport (a buffer of one frame
and the end frame; no buffer and nothing), and the latter says that runs,
commands, the reader and nobody are different holders of the lock.

`CompletedIsDurable` speaks of frames a client has; it is not inductive, since a
frame is made long before it arrives. `DurableInv` (`ServerProofs`) puts the
condition on every place a frame can be, `todo`, `queue` and `got`: each is a
sequence over `Sendable(r)`, which holds a completion only when `stored` has the
run's messages. `stored` only grows, so `Sendable` does too. `ServerProofs` has
one lemma per step of the runtime, for any transport; each transport adds the
steps that move frames. On stdio a frame may also be in a thread, and
`HolderInv` says that the lock's holder has a frame left to write, without which
removing the first would mean nothing.

Slots: `SlotInv` adds to conservation that the holders of a semaphore are finitely
many and that a line holds waiting runs, each once. `ServerProofs` proves it for
every step of the runtime.

HTTP: `HttpInv` joins `DurableInv` and `SlotInv` with `Response` and `Life` of
each run. `Response` speaks of what a run has sent and has still to send
together: that sequence is well formed at any time, and its stage says whether
it is still open or ends with the trailer. `Life` says that a run is interrupted
in its last sends only when its client has left; this is what makes the refined
"exactly one answer" true.

Stdio: `ConnectionInv` joins `StdioInv`, `HolderInv`, `SlotInv`, `StdioTypes`,
`OrderInv` and `Courses`. `OrderInv` is why the queue keeps the order: `pending`
has each active request once, each knows all that are before it (`previous`),
and none but the first executes. A finished request anywhere in the queue is
removed without disturbing this (`RemoveFirst`). `Courses` says for each run
that its terminal frame is the last it sends, that nothing interrupts it then,
and that a thread writes exactly the frame of the lock's holder.

History: a store that replaces the history loses nothing if what a run loaded is
still there when it is stored (`HistoryInv`), that is, if of the runs of a
conversation one at a time is between load and store (`Exclusive`). On stdio
this follows from `OrderInv`. On HTTP it is not true of any configuration:
`HttpHistoryGrows` assumes that the store appends or that all runs of a
conversation are of one agent with one slot (`RunsInTurn`), as in `http_live`;
`SlotExcludes` derives the exclusion from `SlotInv`.

Refinements: the transports map to `RunOutcome` by what a client has got and what
is stored; the lemmas say for each step of the runtime which promise it keeps.

Only model-checked: the liveness properties `RunsEnd`, `CancelIsReported` and
`RequestsEnd`. `FramesInTurn` is about `Spec`; under `ImpatientSpec` it fails
(section 4.2).

## 5. Codex

`CodexTokens.tla` models the store of the tokens, the token manager of each
service, the calls of the application and the catalog of models. `CodexLogin.tla`
extends it with the logins, which commit to the same store.

The store is a revision and tokens. A token is the number under which the
provider issued it, so that newer and older can be compared; refresh tokens are
not told apart from access tokens. Several services share the store, as several
processes do: a service has locks of its own, the store only compares revisions.
A mutation runs in a thread (`write`) and outlives a caller that does not wait.

| Action | Code |
| --- | --- |
| `Submit`, `Replace` | `_mutate` and its thread in `codex/keyring.py`: under the file lock `compare_and_swap`, `save` or `delete` |
| `Request`, `List`, `Build`, `Logout` | a model request, `list_models`, `build`, `logout` |
| `ReadTokens`, `Refreshed`, `RefreshFails`, `Swapped` | `CodexTokenManager` in `codex/tokens.py`: read under the lock, refresh, commit, or use what another one has committed |
| `Respond` | `_CodexHttpxAuth` in `_codex_http.py`: one retry with a forced refresh after a 401 |
| `ReadKey`, and `Respond` of a listing | `_catalog` in `adapters/pydantic_ai/codex.py`, under the instruction lock |
| `Cancel` | a cancellation; a running mutation is waited for once |
| `Start`, `Started`, `StartFails` | `start_browser_login`, `start_device_login` in `codex/auth.py` |
| `BeginWait`, `Take`, `Polled`, `Fails`, `Exchanged` | `wait` of `_login.py`, with `next_submission`, the polls of `_device.py`, the exchange and `_save` |
| `Saved`, `Interrupt`, `Timeout`, `InterruptWait`, `Cancelled` | the end of the commit and what interrupts it: the login's timeout, the caller, `cancel()` |
| `Connect`, `Receive`, `Closed`, `CloseInterrupted` | the callback server of `_browser.py` and its `close` |
| `Exit`, `ExitReturns` | `CodexAuth.__aexit__` |

Left out: PKCE, state and pages of the callbacks, request bodies, model
profiles, the way from an expiry time to `stale`.

| Run | Shows |
| --- | --- |
| `codex_calls` | three calls of two services on one store, which build, list, request and log out: a change of the store is never overwritten by an older answer of the provider, a repeated request uses newer tokens, a cached catalog is not older than its key, and calls end |
| `codex_login` | a browser and a device login of a service that may be left, with a logout beside them: one login at a time, success is only reported for tokens that are stored, no commit goes on behind a login that has ended, waits finish |
| `codex_doc_close` | a statement the documentation makes and the code does not keep |

Bounds: two calls of one service meet at the locks, and a third from another
service takes the compare-and-swap from under them. Three issued tokens
(`MaxIssued`) let two refreshes overtake each other after a first set; the
login run needs two. Commits meet at most two interruptions
(`MaxInterruptions`), which are what the shields of `_request_tokens`, `_save`
and `_mutate` take.

Fairness: tasks run, the provider and the backend answer or time out, threads
end, the timers of logins fire, and a browser that has connected sends its
request. Starting, waiting, cancelling and leaving are the application's and are
not fair.

Differences from the documentation:

- `WaitReturns` (`codex_doc_close`): `_CallbackServer.close` awaits
  `wait_closed()`, which waits for open connections, before it resolves the
  responses those connections wait for (`_browser.py:85`). A login that is
  interrupted while its callback is pending never ends, and its service stays
  taken. `codex.md:124` says that `wait()` closes the server.
- A third interruption cuts a running commit from its login, although
  `codex.md` says that the commit completes before the cancellation returns (no
  run checks this one; `CommitsAreAwaited` states the bound it needs).

### Proofs

`CodexProofs.tla` proves for any services, calls, logins and callbacks:

- `TypeCorrect` (`TypeOK`) and `ServicesHaveOneLogin` (`OneLogin`). `LockInv`
  adds to `OneLogin` that the service of a starting login is free, without which
  `Started` could overwrite another login.
- `SuccessIsTrue` (`SuccessMeansSaved`) and `CommitsAreAwaited`
  (`NoCommitAfterEnd`, where `MaxInterruptions` is at most 2). Both follow from
  `SafeInv`: `CommitInv` says that a login has given nothing to a thread before
  it saves, hence that a page or a session that shows success speaks of the
  login's own commit; `CallbackInv`, that a login answers only its own callbacks.
- `RetriesAreNewer` (`RetryIsNewer`) and `CatalogsAreNotOlder`
  (`CatalogIsNotOlder`), both from `CallsAreOrdered` (`OrderInv`): what a call
  reads or hands to a thread later is not older than what it has sent, nor than
  the revision its catalog is to be kept for; and while a call swaps, a decided
  compare-and-swap, won or lost, means that the store has moved on. That is why
  a lost refresh still repeats the request with newer tokens.
- `CommitsStayFresh` (`CommitsAreFresh`), an action property. `FreshInv` says
  that what is about to be written is as new as the revision it expects: if that
  revision is still the store's, its tokens are the stored ones or were issued
  since the last change.

Assumptions: `CodexAssumption` and `LoginAssumption` type the constants and keep
calls and logins apart.

Only model-checked: the liveness properties `CallsEnd` and `WaitsFinish`, and
`codex_doc_close`, which fails.

## 6. Agents

Four modules, each extending the one before:

- `ModelRouting.tla`: the router's cache of handles, and the handles, which ask
  for the API key before every request;
- `AgentExtensions.tla`: what an agent is composed of, as operators;
- `AgentBuild.tla`: the preparation of agents, and runs with a model of their own;
- `AgentRun.tla`: the runs, with requests, tools, hooks, usage and stream.

`MCApp.tla` gives the values. A task is the preparation of an agent or a run,
and `stage` is where it is suspended. pydantic_ai, which drives a run, is
modelled from how it is used: a loop that asks for the models, makes a request,
and makes the calls of the response, up to `MaxCalls`, one after another. It may
run them at the same time; for the limits this makes no difference, since the
calls of a response are recorded with the next one and none sees another.

| Action | Code |
| --- | --- |
| `Resolve`, `Walk`, `Constructed`, `ConstructionFails` | `ModelRouter.resolve`, `_construct_model` in `routing/router.py`; `DefaultModelFactory.build` |
| `Select`, `Selected`, `Fallback` | `resolve` of the handles and fallbacks in `adapters/pydantic_ai/models.py` and `routing.py` |
| `Prepare`, `Enter`, `Gathered`, `GatherFails`, `Bind` | `prepare` of `agents.py`, with the lock and the capabilities of the MCP servers |
| `Extend`, `Compile`, `Abandon` | `extend_prepared`, `build_prepared`, `_runtime_for_model`; validation in `agent_build.py` |
| `Start`, `SelectModels`, `SelectFails`, `Part`, `Respond`, `RequestFails` | `run` and `stream` of `_agent_runtime.py`, with what pydantic_ai calls back |
| `BeforeRequest`, `Record`, `Noted`, `Unwind`, `Settled` | `_usage_tracking.py` and `UsageTracker` in `usage/tracking.py`: checks, `after_model_request`, `wrap_run`, the callbacks |
| `OfferFails`, `Call`, `Hook`, `Proceed`, `Returned`, `Raises`, `Notified` | `adapters/pydantic_ai/tools.py`: names, checks, hooks, the tool with its timeout, `_notify_error` |
| `Deliver`, `Translate`, `TranslateFails`, `Leave` | `PydanticAIStream` in `_agent_stream.py`: `__anext__`, `_translate`, leaving the context |
| `Interrupt` | the policy's timeout or a cancellation of a run without a stream |

The run `app` asks whether requests use fresh keys, the ledgers of usage are
exact, how far the tree of runs exceeds its limits, the events of a stream come
in order and end once, the hooks are told of every tool call, and every task
ends (`TasksEnd`, which includes that the factory's lock is freed and that who
waits for it gets it).

Bounds: two agents, the first with a selector that is a fallback of two models,
one of them under an alias, and three runs of the first: `r1` is streamed and
uses the agent's fallback, `r3` does so without a stream, and `r2` names one of
its models, so that they build and share handles. The key rotates once
(`MaxKey`). Together the runs are allowed two requests and one tool call, the
policy allows three requests to `r1` and `r3` and one to `r2`, so that each of
the limits is the one that stops a run. A response calls up to two tools
(`MaxCalls`), one more than the limit. `r2` has a child of the tracker of the
others. A tool has one hook. Definitions reach three capabilities, some of them
unsatisfied or colliding.

All of this at once exceeds four million states. The constraint `Together` of
`MCApp` divides it into situations that overlap: the second agent is prepared
beside the first before any run, where one waits at the factory's lock for the
other, which may fail or be cancelled; or the runs follow, `r2` beside `r1` or
`r3`, and the key rotates beside `r1` alone or `r2` and `r3`. The constraint
only cuts what the environment begins (`Prepare`, `Start`, `Rotate`) and none of
the steps that fairness speaks of, so that the behaviours of a situation are
complete and `TasksEnd` is checked on them as it stands. For the combinations
that are cut, the safety properties of the run are proved (below).

Fairness: `Progress`, the event loop goes on while some task can or the consumer
of a stream can read. It assumes of the application that its resolvers,
providers, tools, hooks and callbacks return or raise: the timeouts of tools and
of the policy would ensure it for tools and runs, but default to `None`, and
nothing limits a hook or a callback. Of a consumer it assumes that it reads on
or leaves. No order between tasks is assumed.

How far a limit goes: `check_before_request` and `check_before_tool_call` compare
with what has been recorded. A run alone keeps the limit of requests, since each
is recorded before the next is checked. The calls of a response are recorded
with the next response, so that all of them pass when the first does: one run
with one response of n calls exceeds the limit of tool calls by n - 1, and
several runs by n for each but one more. `BudgetHolds` states this bound, which
the instance reaches (`ToolLimit` is 1 and `MaxCalls` 2).

What the model shows besides, and no run checks: after an output that must be
corrected no `model_request_started` announces the next request
(`expect_request` is only set by tool results), so `EventsInOrder` speaks of
text behind any announcement since the last tool result; two tasks that build
the same model at once have two handles, and a limit of concurrent requests is
then kept by each alone; the last recording of `wrap_run` can replace a
cancellation or an error by the limit's error; and a conversion that fails in
`__anext__` leaves a gap in the numbers, after which a stream ends without a
terminal event.

Left out: tokens and costs, approval, argument schemas, identities, skills,
history processors, provider profiles.

### Proofs

`AppProofs.tla` proves for any agents, runs, models, selectors, keys and hooks:

- `RequestsUseFreshKeys` (`KeysAreFresh`): a request is made with no key older
  than the one that was the provider's when its models were selected. The
  property speaks of the models of a request; a fallback that has not changed is
  reused, and that it has not changed was seen by comparing it, place by place,
  with the models just resolved. The comparison is only as long as the fallback
  is, so the invariant (`RouteInv`) says for every task whose handle may be used
  that it has one handle per name of its selector and a fallback of that length
  (`Whole`), across the overriding runs and the preparation. `SelectInv` says
  that what is collected for the next request, and what is being asked for, is
  not older than the selection.
- `HandlesFollowSelectors` (`RoutesAreKept`): place by place, the handles of a
  task are those its selector names.
- `CapabilitiesAreCreatedOnce` (`OneCreation`): the capabilities of the MCP
  servers are created at most once, and by one preparation at a time.
- `SourcesAreTrue` (`DiagnosticsAreTrue`): a built agent says of a capability
  that it comes from the configuration exactly if it does. The source is looked
  up by ID; `ContextInv` ties the descriptors to the definition through every
  extension, and `ValidIds` makes the look-up unique.
- `ToolCallsAreReported` (`ToolIsReported`): `HookInv` says for every stage of a
  run which hooks have been entered, including what follows the callbacks.

`OneCreation` and `DiagnosticsAreTrue` are defined in `AppProofs` and only
proved. `AppInv`, the inductive invariant, was also checked by TLC.

`RunProofs.tla` goes on with the runs, for any runs, trackers and limits:

- `EventsCome` (`EventsInOrder`). `FlowInv` speaks of the events a consumer has
  got and those that are pending as one sequence, with the number of the next;
  it also ties them to what pydantic_ai has still to hand out: a last event comes
  from a run that is over, nothing is behind it, and then all usage has been
  recorded, which is what `run_completed` needs.
- `LedgersAreExact` (`LedgerIsExact`) and `BudgetsHold` (`BudgetHolds`).
  `LedgerInv` says that at most one request and the calls of one response of a
  run wait to be recorded (`Burst`), in which stages, and in which of them
  another call may still be counted; that the ledger of a tracker is the sum of
  what was recorded for the runs below it; and that the root's ledger, with a
  burst for each run that has passed a check and not recorded yet, exceeds the
  limit by at most a burst for each spender, less one. The last part is
  inductive because a run takes its burst only when the ledger is below the
  limit, and gives it back when it records; further calls of the response are
  part of the burst. The two sums of the properties are folds over
  sets of runs; `SumPicks`, `TallyGrows` and their like state what one run
  contributes. They are proved by taking a smallest set that is a counterexample
  (`SmallestSet`), since the library's induction theorems cannot be instantiated.
- `AgentsAreTyped` (`TypeOK`): `TypeInv` types what the other invariants do not.

Assumptions: `RoutingAssumption` (a name leads to one model, as `_build_aliases`
ensures; a selector is not empty), `BuildAssumption` and `RunAssumption`, which
type the constants and put every tracker below the root, and `RunsAreFinite`, as
a sum needs it.

Only model-checked: `TasksEnd`, a liveness property.

## 7. Not modelled

- *AG-UI transport*: a conversion of the events of a server session, which
  section 4 models, into another protocol.
- *Relay tools and capability*: validation of arguments around the operations of
  a connection, which section 3 models.
- *Authentication registry and providers*: the sessions over logins are
  `SessionPoll` of `CodexLogin` (what a poll says); the registry and the API key
  flow hold flags that are set once, around a single save.
- *Plugins' registrar, factories' collections*: filled once, before anything runs.
- *Messages and results conversion, conversation codec, configuration,
  credentials, skills*: pure functions of data whose correctness is about
  formats.
- *Errors and observability*: classes and a re-export.
- *Repository tooling, documentation and tests*: not part of the program.

Out of the prover's reach, and left to TLC: liveness under fairness and ENABLED.
What a definition computes by induction over data is proved only where a least
counterexample can be named, as for the sums of section 6.

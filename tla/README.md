# Samgita in TLA+

Samgita is a Hub for software work done by autonomous Agents. It keeps Projects
and Tasks in PostgreSQL, leases Tasks to remote Agents as *Attempts*, records
what they did, lets people review and accept it, and delivers the events of all
this to subscribers. Beside the Hub, a driver on the Agent's side owns a Codex
process, speaks to it and reports to the Hub's journal. What makes all this hard
is authority over executions nobody sees: leases that expire, connections that
are replaced, answers that are lost, effects nobody can vouch for. This directory
specifies that, checks it with TLC and proves every safety property of it with
TLAPS.

Paths below are under `src/apps/`; `samgita/...` stands for
`samgita/lib/samgita/...`, `driver/...` for
`samgita_codex_driver/lib/samgita_codex_driver/...`.

## 1. The system

| Part | Source | State it keeps | Operations | Modelled by |
| --- | --- | --- | --- | --- |
| Task Attempts | `samgita/attempts.ex`, `workers/attempt_expiry_worker.ex` | `task_attempts`: state, fence, epoch, connection generation, three deadlines, effects resolved | claim, proof, start, renew, progress, report, rebind, resolve, expire | `Execution`, `TaskLease` |
| Platform authority | `samgita/platform.ex` | one row: owner, epoch | activate, close | `Execution`, `Commands` |
| Tasks | `samgita/tasks.ex`, `task_transitions.ex` | state, adopted, execution hold, fence counter, version, decisions | create, update, transition, adopt, decide, add_artifact | `Execution` |
| Projects | `samgita/projects.ex` | state, members | create, update, transition, put_member | `Execution` (transition) |
| Agents | `samgita/agents.ex` | generation, connections, credentials, capacity, sessions | register, update, put/revoke credential, connect, open_session | `Execution` |
| Commands | `samgita/commands.ex` | receipts by actor and command id; the locks of open transactions | run, replay, read, system, transaction | `Commands` |
| Native runtime | `samgita/codex_runtime*` | bindings, operations, events, interactions, links | bind, prepare, reply, dispatch, settle, record_event, reconnect, reconcile, cancel, attest_cessation | `NativeRuntime`; its effect on Attempts in `Execution` |
| Codex session | `driver/session.ex`, `driver/transport/` | one process: pending, uncertain, interactions, outcomes, event queue | initialize, request, respond, drain, abandon, reconcile, reconnect, close, deadlines | `CodexSession` |
| Owned process | `driver/transport/stdio/owner.ex`, `samgita_codex_driver/priv/stdio_owner.py` | a port, a child's process group, whether its cleanup was confirmed | open, close, exit, crash | `OwnedProcess` |
| Event log, delivery | `samgita/events.ex`, `event_delivery.ex`, workers | events by Project sequence, subscriptions, deliveries, delivery leases | append, configure, redeliver, claim, renew, settle, report, recover, maintain, fence_all, ack_cursor | `EventDelivery`, `Notification` |
| Legacy mapping | `samgita/legacy_mapping.ex` | mapping rows, digests | preview, apply | its result in `Execution` |
| Schedules, GitHub | `samgita/schedules.ex`, `github*` | schedules, cursors; deliveries, scans with leases | tick; ingest, associate, reconcile | their locks in `Commands` |
| Hub protocol, its WebSocket transport | `samgita_protocol/`, `samgita_protocol_websocket/` | of a client: pending, uncertain, stream positions, callers; of a host: a bounded replay log | request, receive, replay, expire, disconnect, reconnect, resolve, ack, checkpoint | `HubProtocol` |
| Rate limiter, web, schemas, projections | `samgita_web/`, `samgita_protocol_codex/`, `samgita/projection.ex` | timestamps by key; none of their own | | no |

**How they interact.** A command is one database transaction (`Commands.run`). It
locks the authority row, the Agents it concerns and the Project, authenticates,
locks the identity of the command, looks for a receipt, and calls the component,
which changes rows and appends an event with its delivery intents in the same
transaction. Workers scan without locks and then run one such transaction per
candidate. A native driver claims a ticket in one command, sends through its
Session outside of any transaction, and settles in another; its Session numbers
events that a consumer journals by further commands. The Session closes and opens
connections, each with an Owner process, a port, a Python helper and the child.
A client of the Hub protocol forwards a host's notifications to the process that
owns it, which acknowledges what it handled and stores that as its checkpoint.

**What is hard.** Commands of an Agent, its former connection, another Agent, a
manager, an operator and the minute worker reach one Task in any order. Nothing
tells the Hub that a remote execution stopped, so the record of *what nobody
vouches for* (unresolved Attempts, execution holds, native operations of unknown
outcome, notifications in doubt) must survive every order. Network calls lie
between two transactions, so whoever makes them may settle late, twice, or never.
Locks are taken one at a time, some of them for rows found before anything was
locked. A process tree outlives whatever part of its owner is killed first.
`PROJECT.json` lists these hazards at their lines.

**A note on coverage.** The product is Elixir. Nearly all the Python in the
repository is `scripts/codex/`: probes and fixtures that record how the upstream
Codex behaves, which are no part of the running system. The only Python that
runs in it is the helper `stdio_owner.py`, all of which `OwnedProcess` models. A
line count over Python files therefore says nothing of what is covered here; the
map names the Elixir functions.

## 2. The modules

| Module | What it is |
| --- | --- |
| `TaskLease` | Abstract: executions of a Task are granted once, one at a time, never while a former one is unsettled. |
| `Execution` | The execution core, one action per command. |
| `Commands` | A command taken apart: context locks, authorization, identity lock, receipt, work, commit. |
| `NativeRuntime` | The journal of native operations with the callers of `Driver.execute`, the Sessions and the upstream. |
| `OwnedProcess` | The Owner process, the helper and the process group of each connection. |
| `CodexSession` | The Session on top of `OwnedProcess`. |
| `Notification` | Abstract: what the Hub says of a notification never denies or overstates what the Agent has. |
| `EventDelivery` | Events, subscriptions, deliveries, the worker, the Agent and the network of one Project. |
| `HubProtocol` | The Hub protocol's client in its transport, the channels, the host with its log, the owner. |
| `MCExecution`, `MCCommands`, `MCNativeRuntime`, `MCCodexSession`, `MCEventDelivery`, `MCHubProtocol` | Constants and symmetry for TLC; one configuration per question. |
| `ExecutionProofs` | Type correctness, the accounts, the refinement of `TaskLease`. |
| `ExecutionOwnershipProofs` | On top of it: fences, the agreement of Tasks, Attempts and sessions, reviews, history. |
| `CommandsProofs`, `NativeRuntimeProofs`, `CodexSessionProofs`, `HubProtocolProofs` | Type correctness and the safety properties of these modules. |
| `EventDeliveryProofs` | Type correctness, routing, careful sending, the refinement of `Notification`. |
| `NotificationProofs` | `Notification` is honest. |

`Execution` treats a command as one step. `Commands` is the reason it may: the
same locks, with other work under them. `Execution` knows of native effects one
bit per Attempt, whether anything is of unknown outcome; `NativeRuntime` is the
journal that bit summarises, and shows what the bit is worth. `NativeRuntime` in
turn knows a Session by its guards and generations; `CodexSession` is that
Session, down to its processes.

### `Execution`

| Variable | Rows |
| --- | --- |
| `authority` | `platform_authority`: `owner` and `epoch` (`admission_open` always equals `owner = "hub"`) |
| `project` | the state of each Project |
| `task` | state, `adopted`, `execution_hold` (`hold`), `fence_counter` (`fence`), and `reviewed` |
| `attempts` | a partial function from `<<task, number>>` to Attempt rows |
| `sessions` | a partial function from sessions to Agent, Project and the generation of the connection they are bound to |
| `agent` | generation, whether the current connection is connected, capacity |
| `effects` | the Attempts for which `CodexRuntime.unresolved_effects?` is true |

Commands are atomic because their locks make them so; the module `Commands` takes
them apart and checks that. A command that fails is rolled back, so it is a
disabled action. The scan of the expiry worker is not
atomic with its commands; `expire` checks again under lock, so the scan is the
fairness of `Expire`, not an action.

Abstractions, each sound for the properties below:

- *Time counts down.* An active row holds the time each deadline has left; `Tick`
  takes one from all and stops at 0. Deadlines only ever compare with now.
- *Ended rows forget their deadlines*: nothing reads them again.
- *Proofs.* A proof is an HMAC over the row's claims. `proof` says whether the
  worker holds one whose claims are still those of the row: reading it sets it,
  rebinding and any new lease clear it. A lease that already ends at the
  execution deadline does not move, so that renewal leaves the proof current.
- *Versions.* Expected versions only disable commands, in ways that other orders
  of the same commands already show; the one a property needs, that approval
  reviewed the version before, is `reviewed`, which every Task write resets.
- *Roles, capabilities, signing keys, enabled flags and legacy jobs* are left
  out: every actor has what it needs, which only adds behaviours. Operators and
  former owners send the same evidence, so `Resolve` does not say who.
- *`progress`* changes nothing but a version. Sessions are never closed by the
  code.
- *Revoking* a credential, replacing it and a connection's 24 hours running out
  all end the current connection, as `RevokeCredential` does.

`MaxAttempts`, `MaxGeneration` and `MaxEpoch` bound counters. The proofs hold
for every value of them.

### `TaskLease` and the refinement

`granted`, `holding` and `unsettled` are the Attempts that exist, are active, and
have ended without evidence. Claim is `Grant`; report is `Finish`, or `Lose` when
effects are unknown; resolve is `Finish` of an active Attempt and `Settle` of an
ended one; expiry is `Lose` of one, closing and a manager's transition `Lose` of a
set. Everything else stutters.

### `EventDelivery`

| Variable | Rows |
| --- | --- |
| `authority`, `active` | whether the Hub admits work and its epoch; whether the Project is active |
| `agent` | for each Agent the target (`target_digest`: endpoint and credential reference) and its standing: responsible, without the advertised capability, or removed from the Project |
| `log`, `subscriptions` | the Project's event sequence; the subscriptions in the order they were configured, with target, idempotency guarantee and cursor |
| `delivery` | a partial function from `<<event, subscription>>` (unique in the database) to delivery rows |
| `jobs` | the deliveries with a wakeup in the queue |
| `handlers` | worker processes by `<<delivery, fence>>`, with the outcome of their call |
| `copy`, `late` | what the Agent has of each delivery; requests nobody waits for any more that may still arrive |

`claim` and `settle` are two actions, and between them the handler may stall,
time out, outlive its lease or die. `expire_locked` is part of every action that
calls it. A claim may be made for any queued wakeup, however old. The Agent and
the network (`Take`, `Decline`, `TellStatus`, `ArriveLate`, `Progress`) and the
queue's loss of a job are external: modelled from what the connector expects.

- *A definite failure is definite*: the connector classes a receive as
  retryable, permanent or unauthorized only when it was not taken; every doubt
  is `ambiguous` (`connector.ex`). `Decline` relies on it, and so does the code.
- *An Agent keeps what it called durable*; what it only received it may lose.
- *Fences stand for tokens*: a lease id is drawn with each fence. A
  subscription's revision moves only when it is disabled, so `enabled` stands
  for the revision a delivery was made at. Expected versions are left out.
- *Event types* are a free choice of whether an appended event matches.
- *`accepted`* is `accepted_at`; `risk` is the acknowledgement of the latest
  recovery, `origin` the recovery action that made a replayed delivery.
- *`Answers` and `Faults`* say which answers and faults an instance has; the run
  `delivery` has all of them. `MaxEvents = 1` is an instance with one delivery:
  configuring the route is itself the event an operator then replays.
- Not modelled: `legacy_unreviewed` rows, the external inbox and manual triggers,
  rows that only record history (attempts, acknowledgements, `completed_at`), and
  the order and limit of 100 of a maintenance scan.

### `Notification` and the refinement

The Hub's belief about a notification is `durable` when it was accepted, `maybe`
when `remote_outcome_uncertain` is set or a claimed receive may be under way, and
`none` otherwise. `Deny`, from `maybe` to `none`, is allowed only when the Agent
has nothing and no request is on its way: that is what every path through
`failed!`, `expire_locked`, `recover` and `fence_all!` has to get right.

### `Commands`

| Variable | What it is |
| --- | --- |
| `authority`, `enabled`, `attempt` | the platform's row; the Agents with a good credential; for each Task the Agent of its active Attempt |
| `receipts` | for each actor and command id with a receipt: the request, the epoch (0 when none is kept), the result |
| `tx` | for each client its transaction: stage, request, the owners it found before locking, locks still to take, locks held |
| `effects`, `answers` | history: how often a command's work was committed, and what clients were told |

A transaction goes through `context` (authority, GitHub's advisory lock, Agents
in UUID order, Project), `receipt` (the advisory lock of its identity) and `work`
(Agents of subscriptions in key-share mode, or, in `close`, every owner and its
Project). `Begin` reads the owners of a Task unlocked, as `ownership_agents` does,
and `Workable` rechecks them. It may roll back anywhere.

- *Lock modes* conflict as PostgreSQL documents: `Compatible` is external. Waits
  are not queued; a request waits for holders only.
- *Work* is what needs the locks: a claim against a capacity, a transition that
  closes what it finds, revocation, activate and close. GitHub's association and
  ingestion and a schedule's tick only lock. Rows below a Project are left out,
  because every transaction that locks them has the Project.
- *Digests* are the request itself. *Expected versions* and roles only refuse.
- A lost answer is a client that begins the same request again. Connection
  generations, which `Execution` has, are folded into `enabled`.

`docs/redesign/design.md` describes receipt uniqueness races as retries of the
whole transaction. The code serialises copies of a command by an advisory lock
before it looks for the receipt; the model follows the code.

### `NativeRuntime`

| Variable | What it is |
| --- | --- |
| `attempt`, `runtime`, `rebinds` | the Attempt's standing; the binding's instance, generation, last sequence and gap mark |
| `op`, `inter`, `link` | the rows of operations, of server requests, and what the journal knows of each turn |
| `session`, `queue`, `held` | the Agent's Sessions: generation and next sequence number, events not yet drained, prompts with a live handle |
| `caller`, `expired`, `sent` | processes inside `Driver.execute`; tickets whose deadline passed; how often an operation was written |
| `exec`, `turn`, `asker` | what is true upstream |

An operation is a `turn/start`, a `turn/interrupt` or a reply. A command is one
step under the Project's lock; between `Dispatch`, `Send`, `Await` and `Settle`
the caller may die (`CallerLeaves`), the Session reconnect, the Attempt be
rebound, lost or ended. `RecordEvent` drains and journals in one step what a
consumer does in two; `EventLost` is the consumer that dies between them.

- *Evidence is true.* `Reconcile` and `Attest` are decisions of an operator or
  the Agent who says that something is over. They are enabled when it is. The
  code cannot know; it would accept a false one, and `QuiescenceIsReal` is
  about the system with truthful evidence.
- *Deadlines* only refuse, so a ticket may expire at any moment.
- *Prompts retire with their turn*, each that has no dispatched reply;
  `journal.ex:290-345` retires dynamic tool calls so, also when their item ends.
- *Left out*: client notifications, payload sealing, recording an event again
  with the same digest, the capacity of 128 pending prompts, pausing the Project.

Two things the model shows and the code accepts: a settlement after the turn's
end was journaled marks the link live again (`journal.ex:245`), and cancelling a
prepared reply leaves its prompt in `reply_prepared` (`codex_runtime.ex:436`).
Both leave the Attempt unresolved until cessation is attested, the safe side.

### `OwnedProcess` and `CodexSession`

| Variable | What it is |
| --- | --- |
| `helper`, `group`, `escapee`, `acked` | by generation: the Python helper, the child's group, a descendant that left it, the cleanup NUL |
| `port`, `owner`, `completion`, `notices` | the Erlang port, the Owner process, its atomic, exit messages on their way to the Session |
| `phase`, `connection`, `generation`, `closing` | the Session, and what follows the close it waits for |
| `pending`, `used`, `uncertain`, `due`, `call` | requests by id, ids of this connection, mutations in doubt, deadline messages, what callers got |
| `upstream`, `replies` | requests not answered, answers on their way |
| `held`, `promptDue`, `asked`, `replied`, `outcomes` | the prompt that waits, deadline messages, who asked, what was written back, recorded outcomes |

A handler is one step, except that closing a transport waits for the Owner:
`BeginDisconnect` and `Closed` are its two halves, and the Owner and the helper
move between them. Each part may be killed: the helper, the Owner, the Session.
A wait with a limit may end early whenever what it waits for has not happened.

- *Linux only*, as `design.md` says of the driver: the helper is the subreaper
  of every descendant, so it sees one that left its group.
- *One wire id for all prompts*, the worst case: the upstream counts from the
  start in every process. So a second prompt beside a held one is the duplicate
  that disconnects.
- *The handshake* is folded into the phase: it is a read-only request.
- *The event queue* is the choice that an event overflows it and disconnects.
- *`Close` and `OwnerDown`* both disconnect; but after a shutdown that failed `close`
  returns its error and the Session stays (`session.ex:317`), while the end of its
  owner always stops it (`session.ex:364`).

### `HubProtocol`

| Variable | What it is |
| --- | --- |
| `phase`, `pending`, `uncertain` | `samgita_protocol/client.ex`: the connection's phase, requests by id, commands of unknown outcome |
| `seen`, `acked`, `hashes` | of the one stream: `seen_cursor`, `acked_cursor`, the cursors whose digest is kept |
| `open`, `waiting` | `samgita_protocol_websocket/client.ex`: whether it has a connection, the ids its callers wait on |
| `up`, `down`, `notes`, `live` | the connection's two channels, messages on their way to the host's socket, whether turns notify it |
| `oldest`, `next` | `replay.ex`: the cursors the host's log holds |
| `late`, `executed` | what the host may still read of dead connections; how often it did each command |
| `mailbox`, `processed`, `saved`, `gap`, `told` | the owner: its queue, the last cursor it handled, its stored checkpoint, the gap it was told of, the outcome it has of each command |
| `handled`, `forgone` | history: the events it handled, or gave up |

`Receive` is a whole frame: the core takes it, `expand_replay` ingests the events
of an answer to `stream/resume`, `effects_fit?` compares with the owner's mailbox,
and anything wrong (an unknown id, a gap, a stale or conflicting cursor, an
overflow) leaves position and digests as they were and costs the connection. The
core is drained after every frame, so its own buffer is empty between steps and
`delivered` is `seen`.

- *A late answer is an error*, whether its id is still among the completed ones
  or forgotten, so those are not kept. Ids are fresh on a connection.
- *A connection dies with its channels*; a request in them may still be read by
  the host (`late`, `FinishLate`). Connection generations only keep messages of
  an earlier socket out, which `CutOff` does.
- *An answer is a result, a refusal or a failure* (`Outcome`). A refusal is a
  handler's own typed error, or an `initialize` that is not agreed on; a handler
  that gives a definite error is taken to have done nothing, as `connector.ex:43`
  takes it. A failure is `handler_error` or `invalid_response`
  (`server.ex:198-211`): the handler broke off, or its result does not fit, before
  or after its work. `Settle` drops the request from `pending` in each case, as
  `settle_response` does, and `Learned` is what `Connector.Error.protocol` makes of
  the answer to a mutation: done, free to ask again, or `failed`. An attach that
  fails may leave turns notified, and a read that fails is like one refused;
  `replay_gap` has a field of its own.
  `not_initialized` and `unsupported_capability` cannot be met: this client sends
  nothing before it is `ready`, and only within what it negotiated.
- *The owner* is external: it asks for a command whenever it has no answer or was
  refused, resumes from its acknowledged or its seen position (`ResumeFrom`; the
  protocol's README has both), and has the host's last word when it reconciles:
  `ResolveUncertain`, which waits until nothing of the command is on its way, and
  `Reconcile` for a failed answer. A crash leaves what it stored; a command it had
  asked for becomes `unknown` and is never asked for again.
- *One stream, one direction, an honest host*: requests of a host, the state of a
  `Server` handler, which capabilities are negotiated, digests that conflict and
  notifications without a cursor are left out.

## 3. What the runs check

| Run | Instance | Distinct states | Properties |
| --- | --- | --- | --- |
| `history` | one Task, one Agent of capacity 2 with two connections, two Attempts, epochs 1..4 | 80,967 | `OneOutstanding`, `HoldIffUnsettled`, `ResolvedIsQuiescent`, `ReviewRestsOnSuccess`, `Fenced`, `TaskMatchesAttempt`, `EveryExecutionEnds`, `HistoryIsKept`, `LateEvidenceKeepsState`, `ImplementsLease` |
| `shared` | two Tasks of one Project, one of them mapped from a historical row, one Attempt each, one Agent of capacity 1 or 2, one session | 435,852 | `SessionKeepsUp`, `LegacyReconciledFirst` |
| `commands` | two clients, two Agents, two Projects with a Task each, two ids, capacity 1, epochs 1..3 | 1.1 million | `NoWaitCycle`, `CapacityKept`, `ExactlyOnce`, `AnswersAreCurrent`, `OwnersAreLocked` |
| `native` | a turn, an interrupt, a prompt and its reply, two of them prepared; two callers, one Session of two generations, one rebinding | 2.2 million | `SentOnce`, `QuiescenceIsReal` |
| `driver` | two requests or prompts in any mix, two ids, two generations, two in doubt at most | 2.2 million | `OneProcessTree`, `NoMutationForgotten`, `AnswersMatch`, `PromptAnsweredOnce` |
| `shutdown` | one mutation, no prompt, two generations, fairness | 48 thousand | `OwnedTreesEnd`, `CallsReturn` |
| `delivery` | one delivery, one attempt per cycle, one recovery action, epochs 1..3, the Agent removed and restored | 719,304 | `TypeOK`, `NoBlindResend`, `OnlyOperatorsRestart`, `ImplementsNotification` |
| `routing` | two events, two subscriptions in turn, two deliveries | 606,186 | `SecondRecipientAtRisk`, `CursorCovers` |
| `settling` | one delivery, three attempts, renewable leases, all faults, four of six answers, fairness | 278,940 | `NoBlindResend`, `ReconciliationEnds`, `DeliveryComesToRest` |
| `stream` | one command, three events in a log of two, pages and buffers of two, two ids, one fault, resuming from what was acknowledged, fairness | 571,965 | `ForwardedInOrder`, `NothingSkipped`, `DoneOnce`, `OutcomesAreKept`, `CallersAreServed`, `Settled` |
| `failed_answer` | one command, one event | | `UnknownsStayUncertain`, which fails |
| `exhaustion` | as `delivery`, one epoch | | `ReconciliationExhaustsUncertain`, which fails |

For the execution core:

- `OneOutstanding`: at most one Attempt of a Task is active or unsettled.
  `claim` never looks at unsettled Attempts: it relies on the hold.
- `HoldIffUnsettled`: the hold of an adopted Task is set exactly while an ended
  Attempt is unsettled. Six commands write it; only `resolve` recomputes it.
- `ResolvedIsQuiescent`: nothing is resolved over native effects of unknown
  outcome, and none is recorded for it later.
- `ReviewRestsOnSuccess`: a native Task in review or accepted got there through
  its *latest* Attempt, which succeeded with its effects resolved.
- `Fenced`: an active Attempt has the authority's epoch and the Task's latest
  fence, and fences rise with Attempt numbers.
- `TaskMatchesAttempt`: states of a Task and its Attempts agree, including a
  running Attempt whose Task a manager blocked.
- `SessionKeepsUp`: rebinding one Attempt moves the session it shares with
  others; no session falls behind an Attempt.
- `LegacyReconciledFirst`: a mapped Task runs nothing before adoption, and a held
  one keeps the platform closed.
- `HistoryIsKept` (action property): terminal states and evidence never change,
  fences and generations never fall, and ownership never ends with effects
  unknown and the Task unheld.
- `LateEvidenceKeepsState`: evidence about an ended Attempt leaves the Task's
  state alone (design.md, "without changing Task state").
- `EveryExecutionEnds` (liveness): every active Attempt eventually is not, under
  weak fairness of `Tick` and of each `Expire(a)`. Time passes; the scan runs each
  minute and takes the first 100 due rows, so with fewer than 100 it reaches each.
  No fairness is assumed of Agents, managers or operators.
- `ImplementsLease`: the refinement.

For commands:

- `NoWaitCycle`: no set of transactions waits for each other. The global order is
  broken in three places that have to be harmless: key-share locks on Agents
  after the Project's lock, `close`, which locks Agents and Projects it found
  by reading, and transactions that lock all Projects after GitHub's lock.
- `CapacityKept`: claims by one Agent in two Projects share no Project lock; only
  the Agent's own lock keeps their sum within its capacity.
- `ExactlyOnce`: copies of a command, one after the other or at once, work once
  and are told the same.
- `AnswersAreCurrent` (action property): an answer, first or replayed, goes to an
  actor whose credential is good at that moment and, for an execution, in the
  epoch of its effect with the platform open. What was checked before the wait
  for the receipt's lock still holds after it.
- `OwnersAreLocked` (action property): whoever changes the owner of a Task holds
  the lock of every Agent concerned, though it learned which before locking.

For the native runtime:

- `SentOnce`: whatever callers race, die or come back, and however the Session
  reconnects, an operation is written once at most; a cancelled one never.
- `QuiescenceIsReal`: an Attempt that was reported or resolved has no operation
  executing upstream, no caller that may still send one, and no live turn. This
  is what `Execution`'s bit has to mean, through lost events, gaps, reconnects
  and answers nobody believes.

For the driver:

- `OneProcessTree`: while a connection is open, nothing an earlier one started is
  running, descendants that left the group included (`transport.ex:10`).
- `NoMutationForgotten`: a mutation whose caller was told of a failure is on the
  uncertain list until it is reconciled.
- `AnswersMatch`: ids chosen by callers, reused after a reconnect, answered late
  or timed out never bring a caller another request's answer.
- `PromptAnsweredOnce`: a prompt gets one answer, under its own handle or by its
  own deadline, though all prompts share a wire id.
- `OwnedTreesEnd`, `CallsReturn` (liveness): however the Session or the Owner
  ends, the process group ends, unless the helper itself was killed; `close` and
  `reconnect`, called without a timeout, return, and every caller hears. Weak
  fairness of timers and their messages, of the Owner, whose wait is bounded, and
  of a helper that was asked to stop or lost its input, whose loop polls each 50
  ms and whose waits are bounded. None of the upstream, of callers or of a child.

For event delivery:

- `ImplementsNotification`: the refinement above.
- `NoBlindResend`: without the Agent's idempotency guarantee, no receive is under
  way to an Agent that has the event or may still get it from a former request,
  unless an operator took that risk.
- `SecondRecipientAtRisk`: two recipients of one event were both tried only if the
  replay to the second acknowledged the risk, also when the first was in flight.
- `CursorCovers`: a cursor never covers an event owed to its subscription that was
  not durably accepted. Replays of older events are exempt: `redeliver` may create
  a delivery below a cursor that has passed it.
- `OnlyOperatorsRestart` (action property): leftover wakeups, late handlers and the
  maintenance never revive what stopped or was accepted.
- `ReconciliationEnds`, `DeliveryComesToRest` (liveness): with the platform left
  open, status queries end, in a paused Project too; with the Project active,
  every delivery ends accepted, completed or stopped. Weak fairness of `Tick`, of
  the minute worker (`Maintain(d)`) and of each handler, whose connector has
  timeouts on every step; strong fairness of `Worker(d)`, because the queue loses
  a wakeup only after running it several times, and one that is queued again and
  again is run. No fairness of Agents or operators.

For the Hub protocol:

- `ForwardedInOrder`: what the owner has still to handle is exactly what follows
  the last event it handled, once each, though live and replayed events
  interleave, overflow, go stale and are cut off half way.
- `NothingSkipped`: the stored checkpoint covers an event only if the owner
  handled it or gave it up, and it gives up nothing the host could still replay
  (`replay.ex:2`, "Retention loss is a gap, never silent success").
- `DoneOnce`: an owner that asks for a command whenever it has no answer, or was
  refused, has it done once at most (`client.ex:5`, "Disconnects/timeouts never
  resend work"), handlers that fail after their work included.
- `OutcomesAreKept`: whatever the host did, or may still do, is answered as done,
  pending, uncertain, left to the owner by an answer that tells nothing or, after a
  crash, unknown; what is answered as done was, and after either answer the host
  does it no more.
- `CallersAreServed`: the callers of the transport and the requests of the core
  are two maps that answers, failed replays, timeouts and disconnects settle
  together.
- `Settled` (liveness): there is always again a moment at which every event the
  host logged is handled or given up as a gap and every command asked for is
  settled. Weak fairness of the channels and the host, of which something goes on
  while a connection lives and there is anything to do; and of an owner that does
  what the transport's README asks of it: it reconnects, initializes and resumes, or
  accepts a gap; it handles and acknowledges; and it reconciles a command whose
  request in a dead connection was read or died with its socket.
  None of new commands, of new events or of storing the checkpoint; timeouts, error
  answers and lost connections are bounded by `MaxFaults`.

**Bounds.** Two Attempts show everything that depends on a former Attempt (a late
report, evidence, fences, numbers); two connections show replacement and rebinding;
in `history` a lease of 2 and an execution deadline of 3 show expiry, renewal and a
renewal the cap shortens. The Agent of `history` has capacity 2, so that it is never
capacity that keeps a second claim out. Four epochs let the platform open, close
with an Attempt active, and open and close again; two in `shared` let it close and
its mapped Task be adopted before it opens. For deliveries, one attempt per cycle is
enough where an operator or a new epoch brings the next; `settling` has three: a
receive, the status query that follows it, and the receive after that; a final
receipt and a refused credential are left to `delivery`, since after them a delivery
rests at once. Three epochs close the platform over a handler and open it again; two
events and two subscriptions show gaps and a change of recipient. There is one
digest: to a delivery and its subscription another endpoint is the same as an Agent
that was removed (`block_target!`), and `delivery` has the latter. In `routing` the
order of two events decides little of `CursorCovers`; longer logs, accepted out of
order, and any number of digests are left to the theorems. Two transactions show
every pair of lock orders, so TLC checks `NoWaitCycle` for cycles of two; the
theorem excludes those of three and more; two ids of one actor show copies beside
other commands of it; three epochs an answer before, in and after a switch. Two
intents of four operations show a turn with its interrupt or its reply; two
generations a Session that reconnects once while a caller has a ticket. In `driver`
two requests or prompts meet in any mix over one reconnect, with the limits of
pending and uncertain at two and of outcomes at one, so that each limit is met. In
`stream` a log of two for three events loses one, a page of two meets live events
inside it, and a mailbox of two overflows; a fault is a timeout, an error answer, a
lost connection or a crash, and every overflow, late answer and stale event cuts the
connection off besides, without being counted. So a command may be uncertain after
an overflow and fail when it is asked for again. The owner of `stream` resumes from
what it acknowledged, which replays what is not acknowledged yet; that it may also
go on from what it was given is in the theorems. `Page <= MaxBuffer` there, as the
transport's README demands ("An entire replay batch must fit"): without it a client
that lags is cut off by every replay. The proofs do not need it. Symmetry is used
only by runs without liveness, over model values that are only compared (the cfgs
with a SYMMETRY line). `history` has one Agent, whose two connections stand for the
former and the present owner; the theorems hold for any number of Agents. Deadlock
is checked in the runs of `Execution` and `EventDelivery`, where time can always
pass. It is not in `commands`, `native`, `driver`, `shutdown` and `stream`: an
instance of these ends when its bounded requests, generations, intents and events
are used up, as a Session really ends when it is stopped. Waiting for each other is
`NoWaitCycle` and `CallsReturn` there.

**Sensitivity.** Each property of each passing run is violated when one definition
is replaced by a plausible bug, written beside it and marked `(mutant)`: a claim
that ignores the hold or the active Attempt, a report or transition that keeps or
drops a hold, a fence not raised, activation that ignores mapped Tasks; an Agent
locked `FOR UPDATE`, a shared lock on a command's identity, owners not rechecked, a
receipt replayed in any epoch; an uncertain ticket handed out again, doubt that only
counts in flight; a close taken for confirmed because it was not denied, an id free
because nobody waits on it, any handle taken for the held one, a helper that only
listens to the control byte; a gap up to the oldest event instead of before it, a
log that never tells of one, a position compared with what was acknowledged, callers
left waiting, a handler that failed asked again; a lost handler nobody expires, a
doubt forgotten at the next failure, a not_found trusted without the guarantee, a
leftover job that runs anyway, and so on.

**Disagreements.** `docs/redesign/coordination-phase-4.md:48` says "Reconciliation
failures also exhaust into inspectable uncertainty". `exhaust_failure`
(`event_delivery.ex:683`) decides between `uncertain` and `dead_letter` by
`remote_outcome_uncertain` alone, which a durable acknowledgement clears. The run
`exhaustion` shows an accepted notification that an operator reconciles become a
dead letter, because the Agent could not be asked. Nothing false is believed
(`accepted_at` stays, and `ImplementsNotification` holds), but the state and the
count of dead letters say otherwise; `block_target!` beside it does look at
`accepted_at`.

The documentation of the Hub protocol's client says "Mutations with unknown outcomes
remain in `uncertain` until the caller reconciles them" (`client.ex:6`). An error
answer settles a mutation for good (`client.ex:318`), also one that tells nothing:
`handler_error` and `invalid_response` come after the handler ran, "A callback error
cannot undo a host effect already performed" (`samgita_protocol/README.md:97`), and
`connector.ex:48-50` calls them ambiguous. The run `failed_answer` shows a command the
host did that is neither pending nor uncertain, and the client would send it again.
`DoneOnce` and `OutcomesAreKept` hold because the owner, told of the error, does not
ask again before it has the host's word, as `Connector` has it; an owner that took
the failure for a refusal loses both (`LearnedRetryable`).

`docs/redesign/design.md:136` says reopening "closes/invalidate any active Attempt and
increments fence/version". `transition_task!` raises the fence only when it
invalidated an active Attempt (`tasks.ex:229`), as `TransitionTask` has it, so a Task
reopened without one keeps its fence. No run is spent on it: `Fenced` holds all the
same, because every claim raises the fence.

## 4. What is proved

For every value of the constants that satisfies the module's assumption (in
`Execution`, `StartTTL <= LeaseTTL <= ExecTTL` and a capacity of at least one; in
`Commands`, a finite set of Tasks; in `EventDelivery`, `LeaseTTL <= RenewTTL` and at
least one attempt per cycle, delay and epoch; elsewhere, that bounds and limits are
numbers and kinds of operation apart), whatever the number of Tasks, Agents, clients,
ids, callers, turns, prompts, generations, epochs, commands, events, subscriptions
and recoveries:

| Theorem | Module |
| --- | --- |
| `TypeCorrect`: `Spec => []TypeOK` | `ExecutionProofs`, `CommandsProofs`, `CodexSessionProofs`, `NativeRuntimeProofs`, `HubProtocolProofs`, `EventDeliveryProofs` |
| `OneOutstandingHolds`, `HoldExact`, `ResolvedStaysQuiescent`: `OneOutstanding`, `HoldIffUnsettled`, `ResolvedIsQuiescent` | `ExecutionProofs` |
| `CoreImplementsLease`: `Spec => ImplementsLease` | `ExecutionProofs` |
| `FencesOrder`, `TaskAndAttemptAgree`, `SessionsKeepUp`, `ReviewsRestOnSuccess`, `LegacyFirst`: `Fenced`, `TaskMatchesAttempt`, `SessionKeepsUp`, `ReviewRestsOnSuccess`, `LegacyReconciledFirst` | `ExecutionOwnershipProofs` |
| `HistoryKeeps`, `LateEvidence`: the action properties `HistoryIsKept`, `LateEvidenceKeepsState` | `ExecutionOwnershipProofs` |
| `WorkedExactlyOnce`, `CapacityHolds`: `ExactlyOnce`, `CapacityKept` | `CommandsProofs` |
| `AnswersCurrent`, `OwnersLocked`: the action properties `AnswersAreCurrent`, `OwnersAreLocked` | `CommandsProofs` |
| `NobodyWaitsInCircles`: `NoWaitCycle` | `CommandsProofs` |
| `TicketsAreOneUse`, `QuiescenceHolds`: `SentOnce`, `QuiescenceIsReal` | `NativeRuntimeProofs` |
| `OneTreeAtATime`, `MutationsRemembered`, `AnswersReachTheirCallers`, `PromptsAnsweredOnce`: `OneProcessTree`, `NoMutationForgotten`, `AnswersMatch`, `PromptAnsweredOnce` | `CodexSessionProofs` |
| `ForwardedInOrderHolds`, `NothingIsSkipped`, `DoneOnceHolds`, `OutcomesKept`, `NobodyForgotten`: `ForwardedInOrder`, `NothingSkipped`, `DoneOnce`, `OutcomesAreKept`, `CallersAreServed` | `HubProtocolProofs` |
| `NothingSentBlindly`, `SecondRecipient`, `CursorsCover`: `NoBlindResend`, `SecondRecipientAtRisk`, `CursorCovers` | `EventDeliveryProofs` |
| `RestartsAreOperators`: the action property `OnlyOperatorsRestart` | `EventDeliveryProofs` |
| `DeliveryImplements`, `DeliveryHonest`: `Spec => ImplementsNotification`, and `Honest` of what it maps to | `EventDeliveryProofs` |
| `AlwaysHonest`: `Spec => []Honest`, of the abstract `Notification` | `NotificationProofs` |

**`Execution`.** The inductive invariant is `Accounts`. None of its parts is
inductive alone. A claim reads the hold and the active Attempts, not the unsettled
ones, so `OneOutstanding` needs `HoldIffUnsettled`. A report overwrites the hold
and evidence recomputes it from the other Attempts, so `HoldIffUnsettled` needs
`OneOutstanding`. Both need `ActiveUnresolved` (an active Attempt is unresolved)
and `OnlyAdopted` (a Task that is not adopted never had an Attempt). The steps
fall into those that touch no account (`Untouched`), the ones that end or settle
one Attempt (`AccountsOfEnding`), the ones that cut off a set, adoption, and the
claim. The refinement reuses the same case split.

`Ownership`, on top of `Accounts`, is `Fencing` with what its name says of Tasks,
sessions, reviews and mapped Tasks. `Fenced` is not inductive: a takeover gives an
old Attempt a new fence, which must not overtake a later Attempt of the Task, so
`Fencing` adds `BehindTask` (no fence is past the Task's) and `ActiveIsLatest` (only
the latest Attempt is active, by `OneOutstanding` and because a claim takes the next
number). `TaskMatchesAttempt` needs `OneOutstanding` too: a step writes one Attempt
and the Task, and another open Attempt would be left behind. A Task comes to
review by the report of its active Attempt, which `ActiveIsLatest` makes its last one.
`HistoryIsKept` and `LateEvidenceKeepsState` are shown of each step beside the
invariant; the latter because a Task in progress has a running Attempt, and so no
unsettled one.

**`Commands`.** `HeldApart` (nobody holds conflicting locks) is what locking gives;
`ContextHeld` and `KeyHeld` say which locks a transaction has at each stage. From
them, everything a transaction read stays true until it commits: `StillAdmitted`
(standing and authority, because whoever changes them needs a lock it holds),
`ClaimStillFits` (the Task free and the capacity not used up, by the locks of the
Project and of the Agent), `OwnersStillKnown`. `Accounts` ties effects, receipts
and answers together. Each fails alone at the commit of some other transaction.

`NoWaitCycle` rests on `LockOrder`: a transaction asks for nothing beyond what it
planned (`Plans`), whoever holds anything holds the authority (`AuthorityFirst`), and
what it still has to lock comes after all it holds (`Rising`). Two kinds of lock are
outside the order and of no consequence: references conflict only with the locks
`close` takes on Agents, and whoever activates or closes holds the authority alone,
so nobody that holds anything waits beside it. Among all others, whoever waits for
a transaction waits for a lock below the one that transaction waits for
(`WaitRises`), and positions have a greatest (`NoEndlessRise`). Nothing bounds the
number of transactions, which need not even be finite.

**`NativeRuntime`.** The invariant is `Knowledge`: `Tickets` (one caller has the
ticket of an operation, and nothing was sent while it is only a ticket), `Places`
(no operation is of a future generation), `Executions` (what is believed of an
answer is true of the upstream), `Events` and `Prompts` (what queues and rows say
of turns and prompts happened), `Links` (a turn that completed is linked, and one
linked over is over) and `Resolutions` (an operation that is not unresolved is
quiet: nothing executes and nothing may still be sent). `QuiescenceIsReal` follows
from `Resolutions` and `Links` when the Attempt ends, and needs them afterwards
to exclude that a late caller starts something.

**`CodexSession`.** `Trees` is `Acknowledgement` (a helper that acknowledged has
nothing left, a confirmed completion rests on one), `Succession` (all generations
but the newest are settled, and so is the newest once its connection is gone,
unless the last close went unconfirmed) and `Ending`. `Uncertainties` adds that no
id is pending and uncertain at once, or a new failure would overwrite an old one.
`Matching` adds `InFlight`: what travels for the connection was sent under an id
of it, and nothing else is pending under that id. `Prompting` says a prompt that
is held has no answer yet.

**`HubProtocol`.** `Safe` is the types, `CallersAreServed` and `InOrder`:
acknowledged, handled and seen positions follow each other, and the mailbox is the
run between the last two. With it, what is new of any acceptable answer is exactly
the run that follows what was seen, whatever the page, the buffer and the digests
kept. `Accounted` adds that a gap the owner was told of, or that is still in an
answer on its way, lies before the log: `AcceptGap` needs it long after the host
computed the gap. `Once` is `Tracked` (a command has one request or is uncertain,
and the owner knows it asked), `Carried` (what travels under the id of a pending
request belongs to it, and an answer to a mutation says what is so and is the last
the host has to do with it, `Holds`), `Single` (a command was done once, or may be
read once, or neither) and `Known` (whatever may have been done is on an account).
`DoneOnce` is part of `Single`, which needs `Known` when the owner asks again and
`Tracked` when it reconciles; `Known` needs `Carried` to believe an answer.

**`EventDelivery`.** `Sound` is `Tables` (types; fences bounded by recoveries and
attempts; handlers named by row and fence), `Routing` and `Settled`. `Routing` adds to
`CursorCovers` that only the last subscription is enabled and nothing is owed past
the log (`Routed`), and states `SecondRecipientAtRisk` from the first recipient's side:
a later one that was added without the risk excludes that the former was ever sent
to (`FirstRecipient`), also by a claim that comes later. `Settled` says of each row
what it may believe. A row that denies (nothing is uncertain or accepted and no
receive is under way, or nothing was ever sent, or it will send again without
leave) has an Agent without the copy, nothing late on the network and no handler
waiting. While a first receive is under way that is not yet so; then the handler
with the row's fence says how far it came: it is the only one that waits, or it
was refused and the Agent has nothing. And an accepted row has its copy with the
Agent. None of this is inductive without the others: `settle` turns the knowledge of a
handler into that of a row, `claim` the other way, and `expire_locked` and
`fence_all!` drop the handler and must leave the row in doubt. Most commands write
rows only as `Rewrites` allows (never less doubt, never a new promise), which keeps
all of `Settled` and is a step or a stutter of `Notification`; claims, settlements,
reports and what the Agent and the network do are shown one by one.

**Only model-checked**: liveness (`EveryExecutionEnds`, `ReconciliationEnds`,
`DeliveryComesToRest`, `OwnedTreesEnd`, `CallsReturn`, `Settled` of `HubProtocol`),
because these rest on fairness and so on `ENABLED`, which the prover does not
handle. The invariants and action properties that the passing runs check are all
theorems. The two findings are counterexamples, shown by TLC alone.

## 5. What is left

The plan was `Execution` first, then event delivery, commands, the native journal,
the driver and the Hub protocol; these are done. What it has left, in order of
worth:

1. The scans as such: their order, their limits and a row that fails each time
   (`attempt_expiry_worker.ex:43`, `event_delivery.ex:402`, `schedules.ex:219`),
   and the leased pages of `github/reconciliation.ex`.
2. A shown refinement from `NativeRuntime` to the bit `effects` of `Execution`;
   now `QuiescenceIsReal` states what the bit has to mean.
3. In `HubProtocol`, the requests a host sends the other way (approvals) with
   their replies, and a `Server` handler that keeps state.

## 6. Not modelled

- *GitHub's payloads, quotas and scans, the cursor of schedules, legacy previews
  and digests, and what `HubProtocol` leaves out*: see sections 2 and 5 and the
  notes in `PROJECT.json`.
- *The rate limiter*: one process and one window per key.
- *The web interface, generated Codex schemas, wire codecs, payload encryption,
  URL normalisation and read projections* keep no state whose order matters.
- *HTTP and TLS stacks, PostgreSQL, the job queue and the operating system* are
  taken as documented; where a model needs them they are external definitions.
- *`scripts/`*: probes and fixtures, no part of the system.

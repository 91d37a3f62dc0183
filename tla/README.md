# Auxin Automata: TLA+ models and proofs

Auxin Automata lets a robot arm pay for its own computation. An edge process
reads joint states, a bridge turns the frames into oracle checks, payments and
compliance logs, and a Solana program enforces the limits on what the arm may
spend. A separate watchdog stops the arm, and a dashboard shows what happens.
This directory models those parts in TLA+, model-checks them with TLC and
proves the main results with TLAPS.

Paths below are relative to `src/`; a bare `bridge.py` is `sdk/src/auxin_sdk/bridge.py`.

1. [The system](#1-the-system)
2. [The modules](#2-the-modules)
3. [The runs](#3-the-runs)
4. [The proofs](#4-the-proofs)
5. [Where the code and its documents disagree](#5-where-the-code-and-its-documents-disagree)
6. [What is not modelled](#6-what-is-not-modelled)
7. [Plan](#7-plan)

## 1. The system

```
 arm --/joint_states--> ROS 2 source ---+                       +--> oracle (Gemini)
  |                     recorded,       +--> Bridge.process --> queues, workers --> privacy provider --> chain
  |                     mock, twin -----+        |     |              |                (fallback: direct)
  |                                              |     |              +--> submission layer --> client --> chain
  |                                              |     +--> logs --> risk, treasury and invoice workers
  +--> safety watchdog --> /emergency_stop       +--> WebSocket --> dashboard <-- program logs -- chain
```

### On-chain program (`programs/`)

*State.* One `HardwareAgent` PDA per owner: hardware key, lifetime budget, lamports
spent, whitelist of at most 8 providers, start and count of the rate-limit window.
One `ComputeProvider` record per provider key, shared by all agents. One
`ComplianceLog` per (agent, slot, sub-index). Lamports sit in the accounts
themselves: the agent PDA pays its providers by direct debit out of the same
account that keeps it rent-exempt.

*Operations.* `initialize_agent`, `update_provider_whitelist`,
`stream_compute_payment`, `log_compliance_event`.

*What is hard.* The window is reset lazily, at the next payment that finds it old.
A whitelisted provider can be any key, the paying PDA included. Removal is by
`swap_remove`. Rent of records and logs comes out of the hardware wallet, so
payments and logs share a purse.

*What makes it correct.* The PDA always covers its rent and its unspent budget;
the whitelist is a set; balances add up; the counts of the shared records match
what all agents spent; no more than the limit is paid in an epoch; a log is never
changed; nothing about payments can forbid a log.

### Bridge: frames, queues and shutdown (`bridge.py`)

*State.* An unbounded compliance queue with asyncio's count of unfinished tasks,
a payment queue of bounded size, a scene queue, two logs (the payment log a ring),
counters, the time of the last compliance put, the treasury's two multipliers,
the event that enables scoring.

*Operations.* `process()` broadcasts a frame and routes it; compliance, payment,
scene, risk, treasury and invoice workers; `run()` drains the compliance queue at
the end. All on one event loop.

*What is hard.* Every `await` lets another worker in. Denials travel from the
payment worker to the compliance queue, also while the drain waits. The treasury
changes the sampling interval under a running counter. Submissions fail or hang.
Shutdown races all of it.

*What makes it correct.* Every compliance task is accounted for; the drain waits
for the right tasks and ends; payments never hold compliance up; a frame has one
outcome; sampling goes on; the ring has the newest payments.

### Payment and compliance submission (`sdk/.../privacy/`, `program/client.py`, `bridge.py:270-345`)

*State.* Sets of idempotency keys in memory (one per provider and one in the
submission layer), the attempt and, for a compliance log, the guessed slot,
sub-index and number of slots walked. On the other side the cluster and the
transactions in flight.

*Operations.* `send_payment` with bounded retries and a fallback from a privacy
provider to the direct one; `log_compliance` with retries around the client's own
loops over slots and sub-indexes; send and confirm of `_send`.

*What is hard.* An answer can be lost after a transaction was sent, transactions
land late, expire or fail on chain, the log's address depends on the slot in which
the transaction happens to execute.

*What makes it correct.* A key is submitted once; a signature is evidence of a
transaction for that key that was processed; every call returns.

### Safety watchdog (`edge/auxin_edge/safety_watchdog_node.py`)

*State.* Consecutive overloads, the latch, the retry timer, the pending service
call; the one message its subscription keeps. Nothing persists.

*Operations.* The `/joint_states` callback, the timer, the answer callback, the
heartbeat; systemd restarts the process.

*What is hard.* Messages overwrite each other, the service is up or not, dies with
the request, answers with a failure; the node crashes at any point.

*What makes it correct.* No stop without a run of overloads, one request, the latch
holds, and a lasting overload ends with the arm halted.

### WebSocket broadcaster and dashboard (`bridge.py:195-268`, `dashboard/lib/`)

*State.* On the server the set of connections and the last message of each sticky
kind. On the page the socket, the reconnect delay, a store of frames, payments and
logs that outlives the components, and a bounded set of transaction signatures.

*Operations.* `broadcast()` from every worker at once; the replay to a client that
joins; heartbeat. On the page `onopen`, `onmessage`, `onclose`, the timer, mounting
and unmounting, and the chain's own log feed.

*What is hard.* A send to a client that does not read suspends the broadcast and the
worker in it. The replay awaits while it iterates a dict that a broadcast may extend
or update. One payment reaches the page over two feeds, the chain may repeat itself,
and the set of signatures forgets.

*What makes it correct.* A connected page ends up with the latest message of each
kind and never goes back to an older one; a broadcast ends; a lost page comes back;
nothing is counted twice.

### Telemetry sources, oracle and start (`sdk/.../sources/`, `edge/`, `oracle.py`, `sdk/scripts/run_bridge.py`)

*State.* The source's `_closed` flag; for ROS 2 the node's last message with its age, a
thread, a bounded queue between thread and loop; for a recording the position of the
replay, one video capture under a lock. The oracle keeps nothing between calls.

*Operations.* `stream()` and `close()`; the node's timer and callback; `get_frame_at()` in
executor threads; `check()` and `describe_scene()`; the start of the process and its signals.

*What is hard.* The thread runs on while the loop is slow; an arm falls silent and the
timer goes on building frames of its last message; two threads move one capture; attempts,
backoffs and one deadline; a second signal during the drain.

*What makes it correct.* A silent arm is reported; the newest frame is never the one that
is dropped; a video frame is the one asked for, and the one shown to the oracle with a frame is
of the frame's own row; a decision comes in time.

### Risk scorer, treasury agent, invoices (`sdk/.../risk/`, `treasury/`, `invoicing/`, workers of `bridge.py`)

*State.* The two logs, the latest risk report and treasury analysis, the two multipliers,
the time of the next invoice.

*Operations.* Scoring of a copy of the logs; an analysis by the model or, without an answer,
by fixed rules; applying and taking back what the analysis orders; an invoice of the
last period.

*What is hard.* The payment log drops its oldest entries and the workers' reading of
it does not. Balance, score and orders are read before awaits and used after them. An invoice's
period is counted back from the moment it is made, with both ends in it, and rendering takes
time and may fail.

*What makes it correct.* Scorer and agent agree on the runway; a healthy wallet pays and is
sampled at the full rate; a payment is billed once.

### Provisioning (`scripts/setup_devnet.py`, `scripts/initialise_mainnet.py`)

*State.* Key files, an environment file, balances, the agent and the provider's record on chain.

*Operations.* Create or load keys, fund, initialize, whitelist, test, write. The scripts are
run again after any failure, and promise that every step is idempotent.

*What is hard.* A step's effect may be there although the script never heard of it, and a
step tests an account that only a later one creates.

### The rest

Mock and twin sources, the twin server, the Umbra sidecar and the Cloak script, the HTTP endpoints and
metrics, configuration, schema, hashing, logging and the demo launcher keep no state
that a property is about: section 6.

`PROJECT.json` lists every part with its sources and status, and under `hazards`
each place in the code where one of these behaviours bites.

## 2. The modules

| Module | Models |
| --- | --- |
| `HardwareAgent` | the four instructions of the program |
| `HardwareAgentLedger` | the same with a history of payments: sums over accounts, payments over time |
| `SpendingAllowance` | abstract: an allowance whose counts are zero when an epoch begins |
| `HardwareAgentAllowance` | the refinement mapping from the program to the allowance |
| `MCHardwareAgent` | small instances of the program |
| `Bridge` | `run()`, `process()`, queues, workers, treasury, drain |
| `FrameVerdicts` | abstract: what is decided about a frame, once, and nothing after the end |
| `SafetyWatchdog` | the node, its subscription, the service, systemd |
| `IdempotentSubmission` | abstract: one effect per key, acknowledged only when it is there |
| `PaymentSubmission` | providers, fallback, retries, `_send`, the cluster |
| `ComplianceSubmission` | submission layer, the client's loops, the cluster's slots |
| `Broadcaster` | the WebSocket server: broadcasts, sticky messages, replay, heartbeat |
| `Dashboard` | the page at it: `useBridgeSocket`, `useProgramEvents`, the store (extends `Broadcaster`) |
| `MCDashboard` | small instances of the two |
| `TelemetrySource` | the contract between bridge and source: stream, close, signals |
| `RosSource`, `RecordedSource` | the two sources with threads, on that contract |
| `OracleClient` | the two callers of the oracle, its deadline, its attempts and how a call ends |
| `Launch` | `run_bridge.py`: composes the four above with the start of the process |
| `RiskScorer` | the risk score as operators on the logs |
| `Treasury` | what the model's answer may order, and the rules without it (extends `RiskScorer`) |
| `Finance` | the logs and the risk, treasury and invoice workers (extends `Treasury`) |
| `MCFinance` | small instances of it |
| `Provisioning` | the two set-up scripts against the chain |
| `*Proofs` | the theorems about the module of that name |

Definitions keep the code's names where they can. Operators whose comment begins
with "Variant" (`RolledDrifting`, `ConfirmedEarly`, ...) are plausible mistakes in
the definition that follows them and are used by no specification. They are what each
property is tried against: a property is kept only if one of them breaks it.

### HardwareAgent

A transaction is atomic and an instruction that fails reverts, so an instruction
that succeeds is one step, guarded by all of its `require!`s and account constraints.
`agent[o]` is the owner's `HardwareAgent` account or `Unregistered`; `lamports[k]`
the balance of any account, the PDAs included; `received[p]` and `records` are the
`ComputeProvider` accounts; `logs` the `ComplianceLog` accounts.
`Rolled` is the lazy reset of the window, `Charged` the bookkeeping of a payment,
`Paid` the debit and credit in the order of the code, so that a payment of a PDA to
itself does what the code does. `AdvanceSlot` is the clock and `Transfer` any plain
transfer from outside. Fees, bumps, timestamps and emitted events are left out. Sums
are naturals: the budget is a `u64` and the budget test refuses what `checked_add`
would refuse.

`HardwareAgentLedger` adds `txAt`, how many payments an agent made in each slot,
which the program does not keep. Its properties are about accounts that no single
instruction holds together, and about payments rather than about the program's own counter.

### Bridge

One step is the code between two `await`s that can suspend. A `put` on the unbounded
queue and a `get` on a queue that is not empty do not suspend in asyncio and are part of
the step around them. `current` is the frame that `process()` holds while it
broadcasts; `complianceWorker` and `paymentWorker` say in which `await` the worker is
and what it holds; `unfinished` is the queue's own count and `phase` the join of the
drain. `elapsed` is the time since the last compliance put, capped at
the interval, `Tick` the clock. `raised`, `failed`, `cancelled`, `atStop`, `confirmed` and `unsampled`
are history and guard nothing. What a submission, the oracle, a payment and
the treasury answer is chosen freely. `StopStreaming` is the end of the source, an error in it, or a
signal, also in the middle of a broadcast. `CancelWorkers` is what `asyncio.run` does to the
tasks that are left.

`FrameVerdicts` is what the bridge decides, without queues, workers, oracle or network: a frame is paid for or
reported, a report is logged or fails, closing cancels at most the report being submitted.
`Verdict` reads a frame's verdict off the history, and the bridge is open while it is `Running`. Between them lies
most of the module: a payment that was denied travels through two queues and two workers before its frame has a verdict.

### SafetyWatchdog

rclpy runs one callback at a time, so a callback is a step. `inbox` is the
subscription with its depth of one: `Publish` overwrites it. The arm (`load`,
`Publish`), the service (`serviceUp`, `ServiceAnswers`, `ServiceChanges`) and systemd (`Restart`) are
external. `Crash` clears everything the process knew.

### PaymentSubmission and ComplianceSubmission

Each worker has one call at a time, so `pc` is where that call waits; the cluster
(`Decide`, `Execute`) runs concurrently. `txs` is every transaction sent with its fate,
`results` every return value. `lossy` is chosen at the start and says whether an answer
about something already sent can be lost (a 429 or a timeout on the status request, a
deposit whose process outlives its time limit); `provider` which provider is
configured. `errorsRaised` says whether the client raises the error of an executed
transaction: the loops over slots and sub-indexes are written for a client that does,
the pinned solana-py does not, and the properties are checked for both. The three
privacy providers have the same control and are one model.

`IdempotentSubmission` is what both promise: a key takes effect once, and is acknowledged only
after that. `Promise` in each module reads its two variables off the chain and the return values:
for a payment a transaction takes effect when it is processed, for a log when it executes without
an error that the client raises. It has no attempts, answers, slots or fates.

### Broadcaster and Dashboard

A message is its kind and its number. Every kind has a worker of its own that broadcasts one
message at a time; `worker[k]` holds the connection its send waits for and the copy of the set
it iterates. `wire[c]` is everything between the server and the page's `onmessage`: TCP keeps its order, and
a send returns once no more than `HighWater` messages are unread. `sticky` is a sequence because the
replay iterates a dict: a key keeps its place when its value is replaced, and a new key makes
the iterator raise, which ends the handler outside of its `try` and leaves the connection in
the set. A connection breaks (nobody is told), and is closed by the heartbeat or by the page.
On the page, `client` is the hook's socket and delay, `store` what is shown: `shown[k]` the message
last applied, `tally` what is added up, `rows` the rows of an event. `HandleLogs` is the chain's
feed, which reports any event any number of times, before or after the bridge does.

### TelemetrySource, RosSource, RecordedSource, OracleClient, Launch

`bridge` says where the bridge is with respect to its source, `stream` whether the generator runs.
In `RosSource` the node, the callbacks it posted to the loop (`posted`), and the queue are three
separate stages, so frames of the thread overtake nothing but are dropped when the bridge is slow.
Time is in ticks: `due` to the timer, `age` of the last message. A lost message is one that does not
arrive. In `RecordedSource`, `thread[w]` is a `get_frame_at()` in the executor, `lock` the
capture's; `close()` waits for it. `get_frame_at()` multiplies a float by the number of entries and
truncates: for a row between the ends whose share is whole the float may lie just below it (50 rows, 49 entries,
row 1), so `MapIndex` is a set that has the entry below as well; for some of these rows the float is exact.
`OracleClient` counts ticks up to the deadline; the event loop is in time, so `OracleTick` does not pass a
deadline or a backoff that is over. A call ends with the model's decision, with one by the client's own rules,
or by raising; which way a decision goes is chosen freely in `Bridge`. `Launch` interleaves
them as `run_bridge.py` does: it chooses source and provider by the environment, refuses an
incomplete configuration, runs the source with the bridge, and takes signals at any time. `tasks[w]` holds
frames that wait for a worker, each with the index that the source had when the frame was taken; `hand[w]` is the
one in the worker's hand, with the picture it fetched for it before it asks the oracle, while the source has
gone on.

### RiskScorer, Treasury, Finance, Provisioning

`RiskScorer` has the four dimensions as operators in exact integer arithmetic; a standard deviation
is compared by its square. A filtered log is the set of the places its entries have in the whole log, and
`ByTime` is Python's `sorted`: entries of one time keep their order. The outermost clamp of each dimension and of
the score is left out, because `ScoresArePercentages` (section 4) shows that it never cuts anything.
Times are hours, and a day is a constant so that an instance can make it
short. `Treasury` has the allowlist of the agent and its rules without the model. `Finance` is the
logs and the three workers, a step between two awaits: `worker` holds what the treasury worker
copied before it asked, so the analysis may be of a log that has changed since. Every balance that is
read may be zero (`BalanceRead`), as a failed request is. An invoice is the payments whose frame is
in the period, whose ends are both included; `Renders` is the cascade of engines. `Provisioning` is
one script at a time against the chain, stopped at any step, with transactions that land unheard and
files cut short; between runs the bridge pays.

## 3. The runs

Every run is a module and a configuration: `tlc -config <cfg> <module>`. Deadlock is
not checked where a bound ends the behaviour (slots, frames, calls) or the program
really stops; the watchdog's run checks it.

### Runs that pass

**program** (`MCHardwareAgent_program.cfg`, 1.2 million states). Two agents that share a hardware
key, two providers of which one is the first agent's own PDA, two epochs of two slots with two
payments each. Every PDA stays solvent (`Solvent`), the whitelist is a set
(`WhitelistIsSet`), the shared records match what all agents spent (`ReceiptsMatchSpending`), no
lamport appears or vanishes (`LamportsConserved`), the limit holds per epoch counted from the payments
themselves (`EpochRateLimit`), a log never changes (`LogsImmutable`), no state of budget, window or
whitelist forbids a log while the wallet has the rent (`ComplianceNeverGated`, by `ENABLED`), and the
program implements the allowance (`ImplementsAllowance`). Amounts 0..3 lie on both sides of the maximum of
2, budgets 2 and 3 on both sides of what two payments can spend, an illegal severity is tried, the hardware
wallet cannot always afford a record or a log, and the last slot is in the second epoch, so that every guard
both passes and fails and a window is rolled.

**bridge_queues** (`Bridge_queues.cfg`, 4.4 million states). Four frames of every kind, a payment queue of
one, and a shutdown at any point. Every task put is in exactly one place and the count of unfinished tasks is
exact, through errors and cancellation (`ComplianceAccounting`); when the join returns every task
pending at its start has been handled (`JoinMeansHandled`); a frame is not both paid for and
reported, nor twice either, and one that the full queue dropped is neither, later or at once
(`OneOutcomePerFrame`). Four frames fill the queue while the worker holds one and a further one arrives to be dropped; the interval of two ticks both
suppresses an anomaly and lets one pass.

**bridge_live** (`Bridge_live.cfg`, 220 000 states). Two frames while the treasury throttles, reserves and
recovers in every order. Sampling goes on within the product of both intervals
(`SamplingNeverStarves`), a raised task gets submitted however long payments take
(`ComplianceNotBlockedByPayments`), and a shutdown ends although a submission hangs
(`ShutdownCompletes`). Two frames are enough for one to be paid for while the
other is reported, in either order; a second throttle in a row is what tells a fixed multiplier from a
compounding one. The proof below removes the bound of sampling.

**watchdog_stop** (`SafetyWatchdog_stop.cfg`, 40 000 states). Three overloads in a row, requests that
succeed, fail or are lost, two crashes. No stop without three handled overloads
(`NoSpuriousStop`), one request (`OneRequest`), the latch is forgotten only by a crash
(`StopLatched`), and a lasting overload with a service that stays up and serves what reaches it
halts the arm, whatever happened before (`OverloadHaltsArm`). Two crashes allow one
before and one after the trigger. There is no bound on messages or on changes of load and service.

**payment_calls** (`PaymentSubmission_calls.cfg`, 150 000 states). Two calls over two keys, two attempts each,
with each provider, with and without lost answers. With one provider and no lost answer a key is
paid once (`PaidOnceIfAnswered`); a signature is of a processed transaction for its key
(`SignatureMeansProcessed`); a call returns (`CallReturns`). Two calls with one key are the repeated
submission the keys exist for; two attempts have a first, a retry and a last one.

**compliance_calls** (`ComplianceSubmission_calls.cfg`, 710 000 states). The same for compliance
logs, with another client that takes an address, two sub-indexes and a walk of two slots
(`LoggedOnceIfAnswered`, `SignatureMeansExecuted`, `CallReturns`). The guess is exact or one slot
behind, so all three outcomes occur: the log, an address in use, another slot.

**dashboard_feed** (`MCDashboard_feed.cfg`, 240 000 states). Two sticky kinds, one broadcast twice, a transport
that suspends after one message, two connection objects that are used again and again. A connected page that
has read everything shows the latest report of each kind (`ShowsLatest`), never an older one than
before (`NeverBackwards`), a broadcast ends (`BroadcastsEnd`) and a page that waits is connected again
(`Reconnects`). Two kinds are what it takes for a first report to break a replay of the other; two
connections for a stale one beside a new one. Reconnects are not bounded.

**dashboard_events** (`MCDashboard_events.cfg`, 2.1 million states). Two compliance events, one of them a session
marker, over both feeds, three reports of the chain, signatures for two. No event is added up
twice (`CountedOnce`) or has two rows from one feed (`RowsOncePerFeed`). The third report is a repetition
or finds the set of signatures full.

**sources** (`Launch_sources.cfg`, 6.8 million states). The process with each source, provider and set of videos,
complete or not, with two signals. A silent arm is reported within one period of the timeout
(`SilenceReported`); the newest frame is never the dropped one and frames keep their order
(`NewestKept`); a video frame belongs to the row asked for, or is the one before it where truncation allows it,
with two threads at one capture (`FrameAsAsked`); a call of the oracle ends by its deadline (`DecidesInTime`); the
picture shown to the oracle is of the row of the frame it judges, although the replay goes on while the frame
is queued and fetched (`PictureOfItsFrame`). Of three rows and four entries the middle row's share is whole, so it may
be cut, and the last row's lies outside the map; five ROS frames overflow a queue of two; a worker holds one frame and has
one waiting while the replay is two rows further; two attempts with a backoff of one tick meet a deadline of two; and the
second signal cancels the drain.

**finance** (`MCFinance_workers.cfg`, 1.2 million states). Three payments, a log of two, in three settings: the hours of
the treasury without an event, the same from an event on that wakes it, and the first ticks of a bridge that bills in
every tick. A payment recorded while the reserve is raised is recorded at seven tenths. Scorer
and treasury agent agree on a critical runway (`CriticalIsScored`), paying is no decline
(`PayingIsNoDecline`), a healthy analysis that is carried out leaves nothing throttled (`HealthyMeansFullRate`), a
payment is on one invoice (`BilledOnce`), and on the one of its period if the log then held it
(`LoggedIsBilled`). The log of two drops the oldest of three payments, the settings are separate because
hours and invoices would only multiply, and a day of one hour brings the edges of day and
week into four ticks.

### Runs that find a disagreement

**payment_twice** (`PaymentSubmission_twice.cfg`): a retry after a lost answer pays again. **provisioning_rerun**
(`Provisioning_rerun.cfg`): a script run again before the first payment is ended by a step already
done. Each checks one sentence of the code's own documentation; see section 5.

### Definitions without a run

`RollingRateLimit`, `RecordedMatchesPaid`, `RetriesUntilAnswered`, `SignatureMeansLogged`, `MarkersHidden`, `NeverRaises`,
`EveryProviderStarts`, `CaptureStaysReleased` and `EveryPaymentBilled` state sentences of the
documentation that the code does not keep; TLC finds each of them violated in the instances above, and section 5 says how.
The `TypeOK`s are conjuncts of the proofs. `RingKeepsLatest`, `LoggingPossible`, `ScoresInRange`, `CallShrinks`,
`Promise!Spec`, `ImplementsVerdicts`, `JoinHasWork`, `DrainShrinks`, `NoMissedStop`, `StopPursued`, `HeldUpByReader`,
`BroadcastShrinks`, `RollingTwiceLimit`, `OverpaymentBounded` and `DuplicatesBounded` are proved (section 4). TLC finds
each of the last ten true in the instances of the runs above before its proof.

### Fairness

| Specification | Assumed | Why |
| --- | --- | --- |
| `Bridge!LiveSpec` | the timer of the drain fires, `asyncio.run` cancels | `asyncio.wait_for` and interpreter shutdown; submissions, oracle, payments and source may hang for ever |
| `ComplianceNotBlockedByPayments` | in addition, as its premise, steps of the compliance worker | RPC calls have timeouts and broadcasts a heartbeat; nothing is assumed of payments |
| `SafetyWatchdog!LiveSpec` | callbacks that are ready run, systemd restarts, the arm publishes, a service that is up answers | the executor spins for ever, `Restart=always`, the arm is a periodic publisher; nothing is assumed about load, crashes or the service being up |
| `PaymentSubmission!LiveSpec`, `ComplianceSubmission!LiveSpec` | the call's next step, the cluster's decisions | HTTP timeouts, `asyncio.sleep`, expiry of a blockhash |
| `Dashboard!LiveSpec` | weak: a send that can return, the replay, the heartbeat, the handler's end, the page's `onclose`, timer and `onmessage`; strong: opening a connection | the event loops of server and browser run what is ready, aiohttp's `heartbeat` closes a silent connection; an attempt may fail any number of times but not for ever, as the page tries again and again |

Apart from the last entry all of it is weak fairness: no step is assumed to win a race that others could win for ever.

## 4. The proofs

`tlapm <Module>Proofs.tla` checks them. They hold for every value of the constants
that satisfies the named assumptions of the modules, which say no more than that bounds are
natural numbers (positive where the code needs it), that amounts, balances and the times of a setting are too, that
severities are 0..3, that a PDA is not a wallet key, that `Endowment` is a balance for every
account, that there are finitely many accounts, sticky kinds and events, and that compliance events are not sticky.

| Module | Theorems | Inductive invariant and why it is needed |
| --- | --- | --- |
| `HardwareAgentProofs` | `TypeCorrect`, `Solvency`, `WhitelistCorrect`, `WindowCorrect`, `LogsNeverChange`, `AllowanceImplemented`, `LamportsNeverCreated`, `ReceiptsCorrect`, `EpochLimit`, `RollingLimit`, `LoggingNeverGated`, `SpendingRateBounded` | `TypeOK /\ Solvent /\ WhitelistIsSet /\ WindowAligned`. That a balance stays a natural after a debit needs solvency and the guards; solvency needs that distinct owners have distinct PDAs (a lemma on `Pda`). Lemmas bound the balance of every account after a payment, the payee being the payer included; others show that `SwapRemove` takes just the entry named out of a list and leaves it a set, and what `\div` does at a multiple. The refinement needs `WindowAligned`: a window in the future would not be reset. `Books` (records and logs are finite sets, a record that does not exist has received nothing) is what the sums need besides. A payment changes two terms of the sum of balances, or one when the payer is the payee; a record changes one term of the receipts by what one agent spends. `History`: the window's counter is the payments of its epoch when the window is of this epoch, and no payment lies ahead of the clock; with `WindowAligned` that bounds every epoch, past ones included, and `RollingLimit` follows because a window's length of slots touches two epochs. `SpendingRateBounded` needs `SpentSince`: what has been spent since a chosen state is at most the full windows before the present epoch and the draws of the present one. `LoggingNeverGated` is a counting argument: logs of a slot map injectively to sub-indexes. |
| `SafetyWatchdogProofs` | `WatchdogTypes`, `RequestOnce`, `StopJustified`, `NoStopMissed`, `StopIsPursued`, `LatchHolds` | `Armed`: before the trigger there is no timer and no request, and the last `overCount` messages handled were all overloads. `Waiting`: an armed timer means that nothing was sent. The first connects the counter with the messages, the second excludes a second request by the timer. `NoStopMissed` is the converse of `StopJustified` and needs `RunExact`: the count is not only covered by the messages but is exactly the length of the run of overloads at their end, unless the stop was triggered. `StopIsPursued` is inductive with the two. `LatchHolds` needs neither: every step of a node that stays up keeps the latch. |
| `PaymentSubmissionProofs` | `SubmissionTypes`, `SignatureSound`, `PaidOnce`, `PaymentIsIdempotent`, `CallsAreBounded`, `OverpaymentIsBounded` | `Confirming`: while a call waits for an answer the last transaction is its own. `Retrying`: a pause is only before a further attempt. `PaidOnce` adds `Once`: a key has at most one transaction that is processed or may be, and that one is remembered or is the one being waited for. The same invariant gives the refinement: by `Once` the decision that processes a transaction finds no other effect of its key (`TakeEffect`), by `Confirming` a signature finds one (`Acknowledge`), all other steps stutter. `CallsAreBounded` counts the steps a call has left, four to an attempt. `OverpaymentIsBounded` has no premise: `SentWithin` says that a key's transactions are at most those of the finished calls and what the call in progress has sent by its stage (`SentByCall`). A call that answers "skipped" counts too when a provider falls back: its deposit may have been sent before (TLC refuted the bound without it). |
| `ComplianceSubmissionProofs` | `ComplianceTypes`, `SignatureIsEvidence`, `LoggedOnce`, `ComplianceIsIdempotent`, `CallsAreBounded`, `DuplicatesAreBounded` | the same, with `Walking`: the guessed slot is at most the clock's last plus the slots walked, which bounds the addresses. A call is bounded by the four counts of its nested loops in lexicographic order: attempts, slots, sub-indexes, stages of a transaction. `DuplicatesAreBounded` counts live transactions (logged, or they may be) against attempts: the inner loops go on only when the last one has failed, so `LiveByCall` grows by one at most between two attempts. |
| `BridgeProofs` | `BridgeTypeCorrect`, `SamplingContinues`, `NoTaskIsLost`, `DrainIsComplete`, `OneOutcome`, `NewestPaymentsKept`, `VerdictsImplemented`, `JoinNeverWaitsForNothing`, `DrainIsFinite` | Sampling: frames since the last sample are at most `oracleCount % (OracleInterval * Throttled)`; both intervals divide that span, so at a multiple of it a frame is sampled under whichever is in force. Queues: `QInv` says that the tasks raised are split over queue, hand, log, failures and cancelled, that the count is of the first two, and that a frame is in one of `process()`, the reports, the payment queue, the worker's hand and the payments. Without the frame that `process()` holds, a report could follow a payment. `DropInv`: a dropped frame is in none of these places. Ring: `RingInv`, with lemmas on suffixes. The refinement of `FrameVerdicts` follows from `QInv` and `HandsInv` (after the stream's end `process()` holds no frame, and once all has stopped no worker holds anything). `JoinNeverWaitsForNothing`: `WaitInv`, while the join waits the count is not zero, which `QInv` turns into a task queued or in hand. `DrainIsFinite` weighs queued tasks, held tasks and stages so that a denial, which moves a frame from one queue to the other, still lowers the sum. |
| `DashboardProofs` | `DashboardTypes`, `PageNeverGoesBack`, `PaymentsCountedOnce`, `NothingIsMissed`, `OneRowPerFeed`, `HeldUpOnlyByReader`, `BroadcastsShrink` | `FeedInv`: the sticky messages are the latest, and what is on a wire is in order and not older than what the page shows; a sticky kind may repeat there (replay and broadcast both send it), an event may not. `ConnInv`: a connection that is not closed is in the set, so the next broadcast has it. `UpToDate`: the latest message of a kind is shown, on the wire, still to be sent there by the broadcast, or ahead of the replay. `RowsInv`: rows are at most what was read and what was handled. `SockInv`: a connection that is open at both ends is the page's own, so a send that cannot return waits for a page that reads or for the heartbeat. |
| `LaunchProofs` | `SourceReportsSilence`, `NewestIsKept`, `FramesMatchRows`, `CallsDecideInTime`, `PicturesMatchFrames` | `Watched`: an unflagged frame's message was fresh when the timer last fired, and the timer has run for `Period - due` since. `Lined`: what the bridge has, what is queued and what is posted are one increasing line that ends in the newest frame. `Excluded`: the lock's holder is the thread inside, so the capture is where that thread moved it. `Indexed`: the source's index is that of the frame it yielded last, which is what a worker's task copies. `WorkInv`: an index stays with its frame through the queue and the worker's hand, and a worker that is not cancelled waits for one of its thread and its call. `OracleInv`: a call under way keeps its first deadline and has an attempt left while it waits. |
| `FinanceProofs` | `FinanceTypeCorrect`, `HealthRestoresRate`, `InvoicesAreDisjoint`, `LogIsBilled`, `RunwaysAgree`, `PayingNeverDeclines`, `ScoresArePercentages` | `Recovered`: a carried-out healthy analysis left both multipliers alone. `FInv`: payments are numbered, log entries are payments, an invoice has payments of its period only and the next period begins after it, because the worker sleeps a whole interval after an announcement that took time. `BInv`: nothing is stamped later than now, and the log is the newest payments in order; together they turn "in the period and not yet dropped" into "in the log when the invoice was made". The last three are about the operators of `RiskScorer` and `Treasury` on the logs that the type invariant allows: both burn rates are sums over the same entries of the last day, a payment made now adds to the recent half only, and a weighted mean of percentages is one; sums of counts and of their squares are bounded by the length of the log. |

`AllowanceImplemented` maps `Spec` to the allowance's specification step by step; it assumes
nothing of `MaxSlot`, so it holds for behaviours of any length.

The sums (of balances, receipts, burn rates, penalties) are `SumFunction` and `SumFunctionOnSet` of the
community modules, which are folds. What is proved of them comes from one fact, that a sum over a set is the
sum without an element plus that element's value; extending it to all finite sets is done by a
minimal counterexample instead of an induction (a finite set of counterexamples that is not
empty has a smallest member), since the library's induction theorems cannot be instantiated. The accounts and
the scorer need different sum lemmas, and each proof module has its own.

Every safety property of a passing run is proved, `ComplianceNeverGated` in the form of `LoggingNeverGated`, which says
of the guards what it says with `ENABLED`. Beside the liveness properties, which are out of the prover's reach, stand their
safety halves, so that what they still owe to TLC is that a step which stays possible is taken:

| Liveness | Proved of it | Left to fairness |
| --- | --- | --- |
| `CallReturns` (both submissions) | `CallsAreBounded`: a finite measure that every step of the call lowers and no other step raises | the next step of the call |
| `ShutdownCompletes`, `ComplianceNotBlockedByPayments` | `DrainIsFinite`, `JoinNeverWaitsForNothing`: work only shrinks from the end of the stream on, and the join waits only while there is some | the workers' steps, or the drain's timer |
| `BroadcastsEnd` | `BroadcastsShrink`, `HeldUpOnlyByReader`: the list of those left shrinks, and whoever holds it up can act | sends, page and heartbeat |
| `OverloadHaltsArm` | `NoStopMissed`, `StopIsPursued`, `LatchHolds`: the stop is triggered, not dropped, not forgotten | callbacks, restart, the service |

`OverpaymentIsBounded` and `DuplicatesAreBounded` say what is left of idempotency when answers are lost, which is
where the promise itself fails (payment_twice): a call costs its attempts, one deposit if it falls back, and no more.

The two refinements of `IdempotentSubmission` have a premise, `~lossy` (and one provider): without it the code breaks
the promise, as payment_twice shows.

Only model-checked: `OverloadHaltsArm`, `ComplianceNotBlockedByPayments`, `ShutdownCompletes`, `CallReturns`,
`BroadcastsEnd`, `Reconnects` and `ComplianceNeverGated`, because TLAPS has no liveness under fairness and no `ENABLED`.

## 5. Where the code and its documents disagree

With a run that shows it:

| Run | Text | Code |
| --- | --- | --- |
| payment_twice | `privacy/base.py:97`: repeated calls do not double-submit | a 429 of the status request is retried after the transaction was sent (`privacy/direct.py:94`) |
| provisioning_rerun | `setup_devnet.py:8`, `initialise_mainnet.py:11`: all steps are idempotent | whitelisting is tested by the provider's record, which the first payment creates (`setup_devnet.py:136`); run again before it, the program refuses a provider it has |

Stated in the modules, found by TLC, without a run of their own:

- The rate limit is over a rolling window of 60 slots (`programs/DESIGN.md:71`); the epochs are aligned, so up to twice the
  limit is paid within 60 slots across a boundary (`stream_compute_payment.rs:74`), and never more (`RollingLimit`).
  (`RollingRateLimit`)
- The treasury's multiplier is per payment (`bridge.py:540`); it scales what is recorded and broadcast, not what is
  paid (`bridge.py:879`). (`RecordedMatchesPaid`)
- The watchdog retries every second until the service responds (`safety_watchdog_node.py:119`); it retries only while the
  service is not ready, and a call that was made is never repeated (`:140`). (`RetriesUntilAnswered`)
- The client writes the log and returns the confirmed signature (`program/client.py:360`); the status' error is
  dropped, so a transaction that failed in another slot counts as logged (`client.py:257`, `:421`). (`SignatureMeansLogged`)
- Session markers should not appear in the dashboard (`useBridgeSocket.ts:243`); the chain's own feed makes rows of
  them. (`MarkersHidden`)
- `umbra` is one of the providers of `run_bridge.py`; starting it runs the event loop that is
  running, which raises (`run_bridge.py:250`). (`EveryProviderStarts`)
- `close()` releases the video capture (`recorded.py:237`); a thread that called before opens it
  again. (`CaptureStaysReleased`)
- Invoices are made of the payments of the chain; a payment is on none when its confirmation comes after the
  invoice of its period, when rendering failed, or when it falls between two periods, since the worker
  sleeps an interval after it has rendered one (`bridge.py:1160`). (`EveryPaymentBilled`)
- `check()` always returns a decision and never raises (`oracle.py:176`); an answer that has every field, one of
  them of a wrong type, raises when `OracleDecision` is built outside of the `try` (`oracle.py:206`). (`NeverRaises`)

Modelled as the code has it:

- A compliance event whose submission raises is reported and forgotten (`bridge.py:800`); `bridge.py:28`
  and `:442` say such events are never dropped. (`ComplianceFailed`)
- An anomaly within 45 s of the last one raises no event (`bridge.py:688`); `bridge.py:28` says never
  rate-limited. The interval is counted from the put and not from the log, so a failed
  submission suppresses the anomalies after it (`bridge.py:692`). (`RouteAnomaly`)
- A denial put after the join has returned, or just before, is cancelled with the workers although the
  drain did not time out; `bridge.py:562` says that no events are lost. (`OracleDenied`, `CancelWorkers`)
- The watchdog's subscription keeps one message and may miss overloads; the comment at
  `safety_watchdog_node.py:38` says it must see every message. (`Publish`)
- When a deposit fails and the fallback pays, only the fallback remembers the key; a repeated call deposits
  (`privacy/cloak.py:137`, `umbra.py:158`, `magicblock.py:176`). The same happens in one call when a
  deposit that timed out lands after all. (`PrivateFails`)
- A payment whose instruction failed on chain is counted and recorded as paid (`client.py:257`,
  `bridge.py:871`). (`Decide` with "failed", `Confirmed`)
- A 429 of the status request makes the submission layer log an event again, at a new slot (`bridge.py:331`).
  (`ConfirmFails`)
- A page that has joined before any report of a kind loses its connection if the first report of that kind comes during
  its replay (`bridge.py:254`); it reconnects. (`Replay`)
- A ROS thread whose spinning ends by an exception puts no end into the queue: the bridge waits for a frame for
  ever (`ros2_source.py:84`). (`SpinFails`)
- A second signal cancels the drain of the compliance queue. The demo launcher sends one on Ctrl-C, which the bridge has received
  already, and kills the bridge after 10 s of a drain that may take 30 (`run_recorded_demo.py:282`,
  `bridge.py:150`). (`Signal`)
- The node's timer and the watchdog's heartbeat are made by `create_wall_timer` (`telemetry_bridge_node.py:83`,
  `safety_watchdog_node.py:77`), which is C++'s name and none of rclpy's; the modules have the timer that is meant.
  (`TimerCb`)
- A failed balance request is a balance of zero (`bridge.py:1215`), hence a critical runway and a throttle. (`BalanceRead`)
- The agent's own `increase_reserve` has priority "high" (`treasury/agent.py:254`) and the worker applies "critical" ones
  only (`bridge.py:1089`): without the model the reserve is never raised. (`FallbackAnalysis`, `Orders`)
- An answer "healthy" with a critical throttle is applied, broadcast, and taken back without a
  broadcast (`bridge.py:1126`). (`Concludes`, `TreasuryRecovers`)
- pdfkit that is installed and fails, or weasyprint with anything but an `OSError`, ends the rendering (`generator.py:239`,
  `:251`); the docstring promises the page as a last resort. (`Renders`)
- A key file that a crash cut short stops every further run of a set-up script (`wallet.py:47`). (`LoadOrCreate`)
- The mainnet script asks for what the wallets lack and then transfers the whole grant to each that lacks
  anything (`initialise_mainnet.py:226`, `:237`). (`Preflight`, `Transfers`)

## 6. What is not modelled

- Mock and twin sources: they generate numbers, without queue or thread. Twin server: rendering and
  a one-way stream. HTTP endpoints and metrics: they read the workers' state and keep none.
- Umbra sidecar and Cloak script: stateless forwarding to vendor SDKs; their outcomes are those of `Deposit` in
  `PaymentSubmission`.
- Configuration, hashing, schema, logging, fixtures: pure functions and I/O. Hashes and keys are
  identities in the models.
- The demo launcher, the vendor set-ups, the report and the offline invoice: one-shot calls of what is modelled.
- In the program: fees, bumps, timestamps, emitted events and the minimum balance of plain wallets.
- In the bridge: metrics; a broadcast is one suspension there, and `Broadcaster` says what
  happens in it; a broadcast that raises is a worker's failure.
- In the submissions: priority fees (nobody fetches them), budget delegation, viewing keys, the layer's
  `stream_payment` (nobody calls it). Calls of one worker are sequential, as in the code.
- In the dashboard: telemetry, scenes, layout, the decoding of program logs. In the sources: the
  numbers of a frame, the parsing of a row. In the oracle: what a decision says, hence the thresholds and
  labels of its own rules, which look at no picture and approve a frame without a label. In oracle and treasury: prompts,
  reasons, the published allocation. In the scorer: the wording of factors, the plotted curve. In the invoices: LaTeX, HTML and PDF.
- Restarts of the bridge: it keeps everything in memory and starts anew, so idempotency keys are forgotten and the
  models begin at that point.

## 7. Plan

Modules were built in the order in which a mistake would cost most: the program that holds the money, the
bridge between telemetry and chain, the watchdog, the submissions, then the feed to the page, the
sources, the financial workers and the set-up. Where the development could go on, in this order:

1. **Composition.** Bridge, PaymentSubmission and HardwareAgent together: what the bridge records against
   what the ledger holds. Abstract specification: every recorded payment is a draw of `SpendingAllowance`.
2. **Restart of the bridge.** Idempotency keys and the ring lost between two submissions, with transactions
   of the first life still in flight in the second.
3. **Proofs.** That `Bridge` with its treasury implements what `Finance` says of the multipliers; a bound on what
   the bridge's calls, each costing what `OverpaymentIsBounded` says, draw from the allowance.

Runs stay few: a new module takes one run for its safety
and liveness together, with a violation run only where a text and the code disagree.

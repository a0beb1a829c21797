# Verification of FOLIO

FOLIO (`src/auto_trader/`, FastAPI) lets its users practise trading Korean
stocks on paper, run moving-average strategies on a paper account, place real
orders by hand through the Toss broker API, and collect candles for machine
learning. This directory holds TLA+ models of the parts that keep state, TLC
configurations that check them on small instances, and proofs for TLAPS.

    tlc -workers 2 -config PaperLedger.cfg MCPaperAccount
    tlapm PaperAccountProofs.tla

`PROJECT.json` lists components, runs, mutants, the source lines of every
definition, findings, hazards and theorems. Definitions whose comment starts
with "Variant:" are mutants: each is what a plausible bug would make of the
definition after it, and some run shows that a property notices.

## 1. The system

One process, one asyncio event loop, and a thread pool in which FastAPI runs
the handlers declared with `def`. State is kept in memory, per user, and in
PostgreSQL.

| Component | State | Operations | Talks to |
|---|---|---|---|
| Paper account, `paper.py` | cash, holdings, order log, answered request ids, auto lots, managed lots, scope, strategy context, seed; a durable copy as one JSON row | submit, begin_strategy, select, reset, load_snapshot, initialize | handlers of `api/paper.py` and `services/paper_workspace_service.py`, the engine, `database.py` |
| Engine lifecycle, `trading/engine.py` | running, emergency_stopped, the asyncio task, settings | start, stop, configure, `_run`, poll_market | feed and market hours (awaits), paper account, handlers, logout |
| Decision step, `trading/{engine,exits,sizing}.py`, `strategies/` | moving averages, trend, arming, cooldown, daily order count, last exit | step, `_buy`, `_sell`, `_entry` | paper account, risk limits, decision recorder |
| Risk limits, `risk.py`, `risk_policy.py` | limits, start-of-day value, loss block | check_buy, update | paper account |
| Live orders, `live_orders.py`, `services/live_order_service.py` | one row per client order id | submit, cancel, reconcile | broker, database |
| Broker transport, `brokers/toss/{transport,request_budget}.py` | access token, one lock and pace per group of endpoints, rate limits, the budget of a maintenance read | request, access_token, invalidate | every caller of the broker |
| Cached reads, `brokers/toss/{market_data,accounts}.py` | one cache, time to live and lock per kind of answer | portfolio, candles, candidates, ... | transport, handlers, workers |
| Connections, `user_connections.py`, `connection_vault.py`, `services/connection_service.py` | a row per user, an encrypted file, cached clients | migrate, own, save, client | live handlers, quote stream, broker |
| Quote stream, `quote_stream.py`, `api/market.py` | subscriptions, queues of length one, one socket task | subscribe, unsubscribe, run, publish, close | broker's socket, browser, connections |
| Workspaces, `user_workspace.py`, `runtime.py`, `auth.py` | the two accounts of a user, which one is selected, the lock | select account, restore, sessions | every handler |
| Recorders, `ml/decision_pipeline.py`, `ml/candidate_pipeline.py` | bounded queue, batch in a thread, counters | record, flush, stop | engine, database, shutdown |
| Collection, `ml/{collection_worker,gap_repair,quality_worker,collect_candles}.py` | schedule, slices, one lock; rows and runs in the database | regular reads, opening slices, final scan, second scan | broker, database |
| Macro context, `ml/{macro_worker,macro_pipeline}.py` | observations with the time they are known from | collect, version | sources, database |
| Quality report, `ml/quality_report.py` | one report per day | classify, write | database |
| Samples, `ml/data_readiness.py` | none between calls | snapshot, exclude, label | database |
| Replay, `ml/backtest.py` | none between calls | replay of a day in the order of arrival | files, engine rules |
| Long-term scan, `services/research.py`, `long_term_repository.py` | a status, a lock, tables of analyses | button, daily worker, page | network, database |
| Market hours and feeds, `market_hours.py`, `paper_feed.py`, `simulator.py` | cached calendar, last quotes | current, snapshot | engine |
| News, filings, presets, pages, launcher | caches | reads and single statements | network, database |

What is hard about it:

* **Concurrency.** Engine workers and `async` handlers interleave at awaits;
  `def` handlers run in threads beside them. The workspace lock covers most,
  but not all, handlers that touch an engine. Live orders have no lock.
* **Failure.** Every paper operation may fail to be saved, or be saved without
  an acknowledgement. Broker calls may be lost on the way there or back. The
  process may be restarted between any two steps of a handler.
* **Threads.** Broker clients and their caches are used by pool threads, with
  locks within locks; recorders hand batches to threads that may outlive them.
* **Knowledge.** Candles and macro values arrive late, twice and out of order,
  and reports, samples and replays must not use what was not known yet.
* **Sequences.** Lots, scopes, contexts and restarts combine in orders that
  tests do not enumerate.

What makes each component correct:

* *Paper account*: every share has one owner; a manual sale never takes shares
  a strategy looks after; cash is never negative; the order log explains the
  account; a request id is executed once and its answer stays true.
* *Engine lifecycle*: one worker at most; running means that a worker is at
  work; stopped means that none is; rules do not change under a worker; stops
  return.
* *Live orders*: an order is sent once; nothing is shown as final that is not;
  finality is found; an order nobody could match stays visible.
* *Decision step*: no order outside the session, the window, the cooldown or
  the daily limit; an entry needs a cross confirmed by a second candle; a lot
  is sold by its own exit rules.
* *Risk*: the limits nest; a loss block stays for the day.
* *Transport and cached reads*: an order goes out once; paces and budgets are
  kept; a stale token is replaced; nobody asks for what is cached or being asked
  for; every call and every read ends, in whatever order locks are taken.
* *Recorders*: bounded memory, every row stored or counted as dropped.
* *Quote stream*: one task per stream, honest states, every stock asked for.
* *Connections*: one owner per brokerage account; credentials fit the row, but
  for a first save whose commit was not answered.
* *Collection*: no row of an unfinished bar; the day is complete in spite of a
  failure; scans stay within their slices and leave no target out.
* *Macro context, report, samples, replay*: the past does not change, and no
  result rests on what came later.
* *Long-term scan*: an accepted request is served; the status is true.

## 2. Modules

| Module | Models | Composes or extends |
|---|---|---|
| `PaperAccount` | paper account, the handlers that change it, the worker as a source of orders, restart | |
| `ShareLedger` | abstract specification: who owns each share, and which orders move shares of which owner | |
| `PaperOwnership` | refinement mapping from accounts to ledgers | extends `PaperAccount`, instantiates `ShareLedger` |
| `PaperAccountProofs` | proofs, the refinement of `ShareLedger` among them | extends `PaperOwnership` |
| `EngineLifecycle` | start, stop, the worker's awaits, the lock, logout, settings in a thread | |
| `EngineLifecycleProofs` | proofs | extends `EngineLifecycle` |
| `LiveOrders` | submit, cancel, reconcile, start-up and crash, with the broker's orders | |
| `LiveOrdersProofs` | proofs | extends `LiveOrders` |
| `TradingStep` | how the worker decides: trading hours, candles, exits per lot, signals, cooldown, over time | |
| `TradingStepProofs` | proofs | extends `TradingStep` |
| `Transport` | calls of one broker client: token, locks, paces, limits, retries, budgets | |
| `TransportProofs` | proofs | extends `Transport` |
| `ReadCaches` | cached reads of one client, their nesting and errors | |
| `Recorder` | the two recorders | instantiates `RecorderPromise` |
| `RecorderPromise` | abstract specification: what becomes of a recorded row | |
| `QuoteStream` | viewers, socket tasks, streams and connection changes | |
| `BrokerConnections` | rows, files, clients, concurrent saves, crashes | |
| `ServiceProofs` | proofs about recorders, reads, quote stream and connections | extends `Recorder`, `ReadCaches`, `QuoteStream`, `BrokerConnections` |
| `Collection` | one day of the two workers that collect candles | |
| `QualityReport` | how missing bars are judged | |
| `Samples` | samples and labels over arriving data | |
| `Replay` | batches, signals and fills of a backtest | |
| `MacroContext` | collection of macro values and their versions | |
| `LongTermScan` | button, daily worker and pages | |
| `DataProofs` | proofs about the six modules above | extends them |
| `FoldLemmas` | lemmas about sums, extrema and images of finite sets | used by the proofs |
| `MCServices` | the recorder, the reads, the quote stream or the connections | extends the four |
| `MCData` | the collection, the report, the samples, the replay, the macro context or the scan | extends the six |
| other `MC...` | constants for TLC: model values, seeds, symmetry | the module they are named for |

`MCServices` and `MCData` check components that share no state in memory. Each
behaviour of such a run is one of its components, named by `subject`, with the
others at rest: the states of the components are added, not multiplied, and a
property about one says nothing of the rest.

### PaperAccount

`acct` is the broker's memory, `disk` the row of the database. A lot list is a
function from lot numbers to lots; numbers of one symbol grow in the order the
code appends, so "the first lot that still has shares" is the smallest number.
Prices of a lot are not kept: no property here depends on profit. Each broker
method runs under `PaperBroker._lock` and the `persisted` decorator, and is
therefore one action with three outcomes: `Saved`, `RolledBack` with the old
row, and `RolledBack` with the new row, for a commit whose acknowledgement got
lost (`LostAcks`). `RememberStrategy`/`ApplyStrategy` and
`ReplaceAssets`/`TakeBaseline` are the two halves of handlers that hold the
workspace lock (`lockedBy`) while they await something in between.
`answered` is a history variable, the answers given; a reset clears it only when
it is in memory or in the database.
`Restart` forgets everything but `disk`; `WarmUp` says whether start-up
configures the engine before it restores the account, as `lifecycle.py` does for
the owner's account when Toss is configured.

`Executions` is `submit`: log the order (rejected ones too), then move cash,
holdings and lots. A sale may split over lots, first lot first (`Takings`).

### ShareLedger and PaperOwnership

The ledger divides the shares of a symbol into free, adopted, managed and
resting ones, and says what each kind of order may take. `PaperOwnership`
computes the four numbers from an account and its saved form. `Ledger!Spec` is
checked as a property: a state whose mapped numbers are negative is no state of
the ledger, and neither is a manual sale of an adopted share.

### EngineLifecycle

Workers are the tasks that `start` creates; `at` says in which await each is
suspended, `cancelled` for which of them `Task.cancel` was called. A cancelled
task is resumed only to end, and if it has never run it ends without passing
through `finally`. The event loop runs ready tasks in order (`InTurn`), which
the properties need. A request that stops the engine holds the lock while it
awaits the worker; `logout` does not take it; `PUT /strategy/settings` checks
and changes in a thread (`CheckSettings`, `ApplySettings`). The prices, orders
and decisions of a worker are left to `PaperAccount`.

### LiveOrders

One step per call to the broker or transaction, because handlers run in pool
threads: `Prepare`, `Send`, `Look`, `SaveAccepted` submit; `Cancel`,
`SendCancel`, `LookCancelled`, `SaveCancelled` cancel; `List` and the actions
from `PassUnknown` to `SaveError` reconcile, order by order, with the copies of
the rows that the pass has read and the history it fetched once. `book` is the
broker, external, as those calls use it: an order is pending, partly filled,
being cancelled, and then final; `OTHER` is any status that
`_local_order_status` does not know. `Send` has every combination of "placed"
and "answered". `Crash` loses all handlers and `Startup` reconciles before any
request is served.

Not in the model: one account only, the preview checks (price, market, PIN),
dry-run orders, and pages of the order history beyond "the order may be missing
from it". `List` returns every order of the asked
statuses; the code returns the newest 100 (`live_orders.py:197`), so what is said of
a pass is said of accounts with no more of them.

### TradingStep

Time counts half minutes, because the code's deadlines are multiples of 30
seconds: an answer about trading hours is good for 90 seconds, prices for 30, a
candle for two minutes after it is complete, and a gap of more than two minutes
makes the engine forget. One candle says, per strategy, whether the short
average is above the long one; that is all the rules ask of prices, besides
profit and loss, which may be reached at any time.

`AskHours`, `ReadHours`, `ReadCandles` and `ReadPrices` are `poll_market`, one
action per await, with `asked` and `fetched` as its local variables; time and
the market go on in between, `Stop` cancels there, and `Restart` may come at
any point. `Exit`, `ExitsDone`, `Pass`, `Evaluate` and `StepDone` are `step`,
lot by lot and symbol by symbol. `memory` is what the engine keeps per symbol
(`_previous_trend`, `_entry_armed`, `_above_count`, `_last_bar_at`), and `Fail`
an order whose journal or save raises, which ends `_run`. `orderedAt`, `boughtOn`
and `lastBelow` are history variables for the properties.

Left out: amounts and sizes (a purchase may just not happen), scopes other than
AUTO, splitting of sales above 1000 shares, recording of decisions. The rule that
a symbol whose exit was handled learns nothing from its candle is kept.

### Transport

Calls run in threads, one step per lock, wait or request. Time is in timers that
count down, so that a state does not contain the clock. `Lookup` reads the token
without its lock, as `access_token` does; `tokenLock` and `groupLock` are the
locks of the client; `again` says that a call has replaced a refused token once;
`MayRepeat` says what may be sent a second time. The broker, external, accepts,
limits, refuses the token, fails or loses the answer (`MaxFaults`). The pace of a
group follows the limits the broker reports, between `Interval` and
`MaxInterval`.

Left out: `_json_request` computes the pause before a repeated read just after the
lock of the group is released (`transport.py:102`), the model in the step that
releases it. A limit that another call reports in that instant would lengthen the
pause; `LockGroup` looks at the limit again in any case. An error other than those of
`urlopen` while an answer is read ends a call at once.

### ReadCaches

A read is a recipe of requests and of other reads (`Recipe`); a reader keeps a
stack of them. A read that finds no answer in its cache takes its lock, looks
again, works through its recipe and stores the answer. `Ignores` says which
reads go on after every error, and `Tolerates` which may go on, depending on what
the error says; `Raise` unwinds the others and releases locks as `with` does. `Expire` may drop any answer at any time, which stands for all
times to live. The cache of the market day does not hold on closed days
(`open`), as the code has it.

### Recorder and RecorderPromise

`kind` chooses one of the two recorders: they differ in how a failed batch is put
back (`Restore`) and in `stop`. A write runs in a thread and ends in `Commit`,
`Fail`, or a commit whose acknowledgement is lost; `orphan` is the batch of a
thread that `stop` of the decision recorder no longer awaits. `RecorderPromise`
knows no queue: a row is offered, then stored or refused, and abandoned only
when the recorder may abandon rows.

### QuoteStream

Everything runs on the event loop; an action is what runs between two awaits. A
task is named after the viewer whose subscription started it. `view` is the one
place of a viewer's queue with the frame it took last. `CloseStream` and
`Replace` are the two halves of a connection change. The length of the back-off,
the contents of frames and the end of the application are left out.

### BrokerConnections

`rows` and `files` are durable, the cached clients and the clients of open
workspaces are not. A save is `Save`, `Reject`, `ReadRows`, one `Look`/`Build`
and `Compare` for every connection it must compare with, `Compared`,
`InsertRow`, `WriteFile`, `CommitRow`, `Forget`, `Adopt`. A commit takes effect
or does not, and one that does may lose its answer; the save then believes that it
has failed, and `Undo` puts the old file back, or fails to. `InsertRow` waits for an open transaction of the same
identity, as the unique index makes it. `GoDown` may come anywhere. Credentials
are model values, and `AccountOf` says which account they open; the number of an
account identifies it. That strategies are stopped and no order is open before a
save is in `LiveOrders` and `EngineLifecycle`, not here. `unanswered` is a history
variable: which file a user had before a first save (or one from ENV) whose answer got
lost, until a later save of the user is committed and answered. `CredentialsFit` excuses that one file, mostly none at all, and the client
made of it, and nothing else.
`LegacyAssumption` states two things the code relies on: rows of earlier
versions have different identities, and the settings do not name an account that
somebody has saved before. With a changed `.env` the second can be wrong, and
two users then share an account.

### Collection

Half minutes: regular reads are due at even ones, an opening slice may start at
an odd one. `worker` and `quality` are the two tasks; `Enter`, `Look` and `Miss`
are the scan they share, target by target, under `_repair_lock`. Rows, the
cursors of opening scans, the runs and the report are in the database; what the
worker remembers is lost by `Crash`. The broker may publish a bar of `Slow`
late, but before the final scan. Left out: holidays, manual scans, the resumption
by windows of a scan without a cursor (nothing in `src/` creates such a state),
and the command line.

### QualityReport, Samples, Replay

`QualityReport` has one series. A recheck finds out which bars the broker has,
lacks, or did not answer for, and is `flawed` if it raised or looked for the
whole session and could not see all of it; a report takes the bars first and the rechecks
later, and may be made as of an earlier moment. `Samples` has one stock, one
index and one macro indicator; every sample is computed from the state, as the
snapshot of `data_readiness.py` is. `Replay` has one stock; a batch without it
stands for batches of others. What the engine wants is left open within what its
rules allow, and a fill may be refused. Cash is not modelled.

### MacroContext

Two indicators, one fetched alone and one in the batch; each is about one event.
`Revise` changes what a source says, `Store` writes a row only for a value the
event has not had before, as `ON CONFLICT DO NOTHING` does.

### LongTermScan

`runner` has the two tasks that scan. `Press` is the button, `Wake` the daily
worker, `Restart` the process; a scan asks for each company with retries, and
saves at its end. `Visit` is a company's page, which writes the same tables
without the lock.

## 3. Runs

| Run | Bounds | Shows |
|---|---|---|
| `paper_ownership` | 1 symbol, 1 strategy, orders of 2 shares, strategy sales of at most 1 share at a time, 3 orders, 4 lots | each share has one owner and moves only as `ShareLedger` allows, with scope changes, resets, failed saves and restarts between the orders |
| `paper_ledger` | 2 request ids, prices 1 and 2, fee and tax 50 %, 2 orders, refusals by risk, lost acknowledgements | cash, log, request ids and answers |
| `engine_locked` | 2 requests, 3 starts, settings changes, no logout | one worker, stopped means stopped, and `StopReturns` under fairness |
| `live_handlers` | 1 order of 2 shares, 2 handlers, crashes | sent once, final is true, unmatched stays open |
| `live_reconciled` | 1 order of 1 share, 2 handlers, fairness | final is found |
| `trading_step` | 1 symbol, 1 strategy, 1 lot, 6 minutes over two days of 5 minutes, three sessions with an auction between two of them, cooldown 3 minutes | orders in session, one purchase per cross, waiting time after every order |
| `transport` | 2 calls in three mixes (an order and candles with a budget, candles twice, prices twice), pace 1 to 2, a limit of 2, token life 2, 2 faults | an order goes out once, paces and budgets are kept, every call ends |
| `services` | recorders: batches of 2, queue of 3, 4 rows, 2 faults; reads: 2 readers in seven mixes, one with a budget, pages of 2; quotes: 2 viewers, 3 stocks, 2 streams, at most 2 stocks, 1 trouble; connections: 2 users, 3 credentials of 3 accounts, 3 saves, 1 crash | no uncounted loss, shared and ending reads, one task, honest views, stocks asked for, one owner, fitting credentials |
| `data` | collection: a stock and an index, 4 bars, two openings, one request per slice, a late first bar, 2 troubles; report: 2 bars, 2 rechecks, 2 reports; samples: 4 bars, looking back on 2, lateness up to 2, 1 missing bar, 2 macro rows; replay: 5 bars, days of 3 minutes, batches of at most 2; macro: 2 indicators, 2 values, 2 losses; scan: 2 companies, 2 scans, 1 refusal | a day is recovered, and nothing is judged, learnt or traded by what was not known |
| `paper_warm_up` | as `paper_ownership`, `WarmUp` | **violated**: shares with two owners |
| `engine_logout` | as `engine_locked`, with logout | **violated**: a stop that leaves a worker |
| `live_recovery` | 1 order, fairness | **violated**: an order without an id is never matched |

Why the bounds are enough. Three orders build, split and sell a lot next to a
manual lot, which is what ownership is about; a second symbol shares only cash
with the first. Chunk 1 with orders of 2 makes a strategy sale split, as 1000
does for large lots. A fee of 50 % makes rounding and the boundary of cash
happen at prices 1 and 2. Two handlers are the smallest number that races, and
a third start is needed for an old, a current and a new worker. Six minutes are
the time of two purchases: a cross takes three candles, and the second purchase
three more. Two calls race for a token, a lock and a pace, and two faults refuse
a token and lose the repeated answer. Four rows overfill a queue of 3 while a
batch of 2 is in flight. Two readers nest every pair of locks the mixes name.
Two streams are one before and one after a connection change. Three saves are two
that race and one more. Four bars leave an opening slice, a second one and a gap
after both; two troubles are more than the day survives, which is why
`DayIsRecovered` allows one. Days of three minutes put a night between a signal
and the next bar. Deadlock is not checked where the system may stop: when the
bounds are used up, or when all viewers have left.

Where a theorem of section 4 states the property, it holds for every value of the
constants.

Each violation run is a disagreement between the code and its own documents,
comments or guards; `findings` in `PROJECT.json` quotes both sides.

### Fairness

* `EngineLifecycle!FairSpec`: weak fairness of each worker and of each
  suspended request. The event loop resumes every ready task; the awaited
  calls have timeouts. No fairness for starts and stops: they are the user's.
* `LiveOrders!FairSpec`: weak fairness of each handler at work (pool threads
  run on) and of start-up; strong fairness of `Refresh`, since the page of the
  owner polls the list of orders; and eventually no more crashes and failures.
  The broker is under no fairness: it may leave an order open for ever.
* `Transport!FairSpec`: weak fairness of time and of every step of a call that
  has begun: a thread runs on, a free lock is given to who waits, and requests
  have timeouts.
* `RecorderFairness`: weak fairness of the task, of the thread that writes and of
  the draining. Nobody has to start or stop the recorder.
* `ReadFairness`: weak fairness of each reader.
* `QuoteFairness`: weak fairness of each task and of those who wait for one to
  end. Nothing makes a viewer leave or the connection change.

### Divergences seen

`findings` in `PROJECT.json` has the disagreements a run shows: the warm-up of
the owner's account, the logout beside a start, and orders without an id. Seen
while modelling, and stated here with their lines:

* A settings change runs in a pool thread and may pass the check of `running`
  just before a start (`api/paper.py:133`, `trading/engine.py:584`): the rules of
  a running engine then change. `EngineLifecycle` has the interleaving.
* Listing real orders overwrites UNKNOWN with SUBMITTING
  (`services/live_order_service.py:28-30`), although `CHANGELOG_HISTORY.md:410`
  keeps such orders apart.
* The sell signal of a strategy sells all lots of the symbol, also those of other
  strategies (`trading/engine.py:380`, `PAPER_STRATEGY.md:69`).
* A viewer that subscribes while a connection change closes the stream starts a
  task on the old stream, which nobody stops (`quote_stream.py:31`,
  `connection_service.py:35-37`, `api/market.py:131`); the viewers of a replaced
  stream get nothing but keepalives. `OneTaskPerStream` is about each stream, and
  `StocksAreAskedFor` about the present one.
* A live order may be submitted between the check for open orders and the
  exchange of the connection (`connection_service.py:23-28`).
* When the commit of a saved connection and the undo of its file both fail, the
  new file stays with the old row; both are of one account.
* When the commit of a saved connection takes effect and its answer is lost, the
  undo puts the old file back, or removes the new one, beside the new row
  (`user_connections.py:126-139`). After a first save, and after one that leaves
  the settings, the row then says LOCAL and has mostly no credentials; a file
  left by a crash in an earlier first save comes back and may be of another
  account. The row keeps the account, and the user cannot get at it
  until a later save of that account succeeds.
* A macro source that returns to an earlier value gets no new row
  (`macro_pipeline.py:90`), against the docstring at line 105; `VersionsAreDated`
  excepts it. `available_at` is the start of a collection (lines 202, 220), which
  `data_readiness.py` makes up for by its end.
* The final scan is marked done when it fails (`collection_worker.py:321`), so
  that the scan of the quality worker is the last one: two failures lose the day.
* A report begun earlier and written later replaces a newer one
  (`quality_report.py:395-411`), and so does an analysis of a company
  (`long_term_repository.py:33`).
* The cache of the market day never holds on a closed day (`market_data.py:21`).
* In a replay, a sale at a later opening may pay for a fill at an earlier one of
  another stock (`backtest.py:138-173`).

## 4. Proofs

Every safety property of a passing run is the statement of a theorem, proved for
all values of the constants that satisfy the module's assumption (and `~WarmUp` or
`~Logouts` where this is said below); the runs and the mutants show that it says
something, the proof that the bounds hid nothing.
The inductive invariants named below were checked by TLC before they were proved.

`PaperAccountProofs`: `InvariantHolds` proves the inductive invariant
`PaperInvariant`, from `ConstantsAssumption` alone; the theorems `TypeCorrect`,
`CashStaysNonNegative`, `LotsAlwaysAgree`, `OrdersExecuteOnce`,
`AnswersAreDurable` and `OwnersNeverMix` follow. The invariant is needed because
none of the properties is inductive: that an id is executed once needs that
`requests` points at the order with that id, that answers are kept needs that
they are in the saved account too, also when a commit took effect without being
acknowledged, and that lots agree needs that new numbers are above all old
ones.

`BooksBalance` adds up the order log: each action keeps cash and holdings explained,
in memory and in the database (`StepExplained`), since an order adds its own effect
to the sum and a rejected one nothing.

`OwnershipHolds` is the invariant of the shares by owner. It divides the holdings
of a symbol by sums over the lots of each kind (`OwnersAre`) and says that what is
left, the free shares, is not negative, in memory and in what a restart would make
of the saved account. `NoShareIsOwnedTwice` follows, and so does
`AccountImplementsLedger`: `Init` maps to `Ledger!Init`, and `StepOwnership` shows for
every action that it is a step of the ledger or leaves the owners alone. The heart
of it are the lemmas about sales: what a strategy sale takes comes from adopted and
managed shares, what a manual sale takes from free shares first and then from
resting ones (`Takings` goes through the lots by number, the ledger by owner).
`OwnersNeverMix` and these three assume `~WarmUp`. The assumption is not a
convenience: with an early configure they are false, as the run `paper_warm_up`
shows.

`EngineLifecycleProofs`: `LockedEngineIsSafe` and `WorkersTakeTurns` assume
`~Logouts` and prove one worker, running has a worker and stopped means stopped;
the run `engine_logout` shows what goes wrong otherwise. The invariant says that
a worker which is alive is the engine's task, that a cancelled one which is
still alive is awaited by the holder of the lock, and that handlers that stop or
select hold the lock.

`TradingStepProofs`: `StepInvariant` proves the inductive invariant `StepInv` from
`StepAssumption` alone, and `OrdersStayInSession`, `CrossesAreUsedOnce` and
`PurchasesWait` follow. Two of its parts carry the argument. `Fetched` says that
what a poll holds was the last candle when it asked, so that a candle which came
in between is later, and recorded when it was below. `CrossesAreNew` says that
after a purchase the engine remembers an armed cross, or averages below, only
when the averages have gone below since: the market's candles, the fetched one
and the memory all follow the purchase. `CrossesAreUsedOnce` alone is not
inductive because a purchase looks at the memory and never at the past.

`LiveOrdersProofs`: `LiveInvariant` proves the inductive invariant `LiveInv` from
`LiveAssumption` alone; `LiveTypes`, `OrdersAreSentOnce`, `UnmatchedOrdersStayOpen`
and `FinalStatusIsTrue` follow. That a final status is true is not inductive,
because a request writes what it read steps ago. `JobOK` says of every request
that an end it has read at the broker is still the end, since ends are final;
that only the pass at the start has listed final rows, and nobody else acts
then; and that one request submits an order, whose row has no broker's id until
that request saves it. The proof has one lemma per action, over two that do the
common work: `SparedIsOK` (what a step leaves of the other requests) and
`UpdateKeeps` (which statuses may be written to a row).

`TransportProofs`: from `TransportAssumption` alone, `OrdersAreNotRepeated`,
`BudgetsHold` and `PacesHold`. The invariant `TransportInv` says that who waits for
the pace of a group, or has a request out, holds the lock of the group; that
what the code calls the time since the last request is the time since the group
was heard of; and how often an order can have gone out at each place of a call.

`ServiceProofs` has four parts.

* *Recorders*, from `RecorderAssumption`: `MemoryIsBounded` and `PromiseIsKept`, the
  refinement of `RecorderPromise`: each action is a step of the abstract
  specification or a stutter. `RecorderInv` adds to the types that batch and queue
  together are bounded, that they hold the rows in the order of recording, so that
  none is there twice, that no row in a buffer is counted as dropped, and which
  buffers a phase can fill. A row may be in the table and in a buffer at once: its
  acknowledgement got lost. `CleanStopsLoseNothing` adds `Clean`: as long as no write
  has failed, no row of the buffers is in the table, so that every write inserts
  some, and draining does not give up before the queue is empty.
* *Connections*, from `ConnectionAssumption` and `LegacyAssumption`:
  `AccountsHaveOneOwner` and `CredentialsAlwaysFit`. A user who has a connection keeps
  its account for ever, so that each key kept for the user - in the database, a
  file, a cache, an open workspace, or found by a save - opens that account
  (`Fits`). `SaverOK` says what an attempt to save knows at each of its steps: whom
  it has been compared with, that its account is the user's own if there was one,
  and what the undo would put back. `Found`, `Filed` and `UnansweredOK` carry the
  exception: a key that a save finds or would put back, and a file, may be the one
  that an unanswered first save has left. `IndexOK` is what the unique index sees to
  between two open transactions; the connection of the settings, which has no
  identity there, is kept apart by the comparison.
* *Quote stream*, from `StreamAssumption`: `StreamsHaveOneTask` and
  `ViewersAreToldTheTruth`. `Registers` says that a task which can be heard is the
  one its stream holds, that a viewer signs on once and to one stream, and that the
  streams to come are empty. That a viewer has been told follows from who publishes:
  only the one task of the present stream, which takes leave of its socket and tells
  its listeners in one step, and a subscription, which gets the frame of that task.
* *Cached reads*, from `ReadAssumption` and `MixAssumption`: `ReadersShareRequests`
  and `NobodyWaitsInACircle`. `Holding` says that a reader has the lock of each read
  on its stack below the innermost, and of that one while it works, and that no such
  answer is in the cache meanwhile: nobody else stores what the reader has locked,
  and the reader's other reads are of other levels (`PartsAreLower`: each answer is
  made of answers of a lower `Level`). `LocksHaveReads` is the converse, no lock
  without a read on the stack. Together they order the waiting, which is what
  `ReadsEnd` needs besides fairness.

`DataProofs` has six, each from the assumption of its module alone.

* *Collection*: `CollectionInvariant` has a part for each theorem. `CandlesAreFinal`
  is inductive. `OpeningScansAreComplete` needs `NothingIsForgotten`: what an
  opening scan has not looked after is in the list it goes by, saved or in memory.
  `SlicesMakeRoom` needs `SlicesKeepApart`: once a slice has begun, all plans are for
  the next interval. `OneTroubleLosesNothing` needs `AllIsPublished` (the final scan
  and the report come when all bars are there) and `TroublesExplainGaps`: each of the
  two workers that is through although bars are missing has had a trouble of its
  own, so that a gap takes two.
* *Quality report*: `AbsencesAreProven`. `Evidence` folds over the rechecks, so that
  what it returns is proved by induction over subsets (`SubsetInduction`); later
  rechecks take no evidence back (`ProofsStay`).
* *Samples*: `OutcomesStayUnknown` and `SamplesStayFrozen`. What a sample uses had
  arrived when it is predicted, and what arrives later is later (`Received`); the
  lemmas compare the sets a snapshot selects before and after a step.
* *Replay*: `ReplaysAreCausal`. `ReplayInvariant` says of the waiting signal what
  will be asked of the trade (`Rests`) and keeps the history in order (`History`).
* *Macro context*: `NoFutureLeaks`. Collections begin one after the other, so that
  each brings at most one version of an indicator, later than all others.
* *Long-term scan*: `ButtonIsHonest`. `ScanInv` says that who scans holds the lock,
  what the status shows at each stage, and that the task of an accepted request
  scans after it.

`FoldLemmas` has what these proofs keep needing of sums and sets: the sum of a
function is 0 on the empty set, adds over parts and changes by as much as one value
changes; a finite set of numbers that is not empty has a least and a greatest
member; the image of a finite set is finite. The library defines sums by folds over
functions that choose their own elements. What they compute is proved here by
taking a smallest subset on which the claim fails, which needs no induction theorem
with an operator parameter.

Assumptions on constants that the proofs brought to light are stated in the modules
and evaluated by TLC: the times of the `Collection` schedule are in order and each
opening scan begins before the limit, the `Slots` of `MacroContext` are finite, and
`QuoteStream` has a first stream. The settings of the program satisfy them.

Where a module has a proved type invariant, the runs do not check it again.

Model-checked only: the liveness properties `StopReturns`, `FinalIsFound`, `CallsEnd`,
`RowsSettle`, `ReadsEnd` and `StocksAreAskedFor`. They rest on fairness, which is
stated with ENABLED and out of reach of the provers. The three runs that expect a
violation refute, and have no theorem.

## 5. Plan

Done, in this order: `PaperAccount` with `ShareLedger` and `PaperOwnership`,
`EngineLifecycle`, `LiveOrders`, `TradingStep`, each with its proofs;
`Transport`, `ReadCaches`, `Recorder` with `RecorderPromise`, `QuoteStream`,
`BrokerConnections`, `Collection`, `QualityReport`, `Samples`, `Replay`,
`MacroContext`, `LongTermScan`; proofs of every safety property of the runs, among
them the refinements of `ShareLedger` and `RecorderPromise`.

Left, in the order of what they add:

1. `Sizing`: the search for a quantity against its definition, with the daily
   limit and the risk limits, and what a restart forgets of them.
2. `Workspaces`: the two accounts of a user and their workers, composed with
   `EngineLifecycle` and with the exchange of a connection.
3. Dry-run orders and the preview checks in `LiveOrders`.
4. The parts of liveness that need no fairness, as `NobodyWaitsInACircle` is one for
   the reads: that a call of the transport, a stop and a draining recorder can
   always go on.

### Not modelled

* *Risk limits and sizes*: comparisons of amounts within one step. `PaperAccount`
  and `TradingStep` let a purchase be refused at any time.
* *Sessions and PINs* (`auth.py`, `create_admin.py`, `set_live_pin.py`): single
  transactions around cryptographic functions.
* *Strategy presets, favourites, histories*: single-statement reads and writes.
* *News, filings, AI summaries, stock search, industries*: calls and formatting
  without state.
* *First experiment and statistics* (`ml/first_experiment.py` and the figures of
  the reports): numbers computed from files.
* *Simulator*: random prices.
* *Parsing of the broker's answers, formats of errors, frames of the socket*: no
  property is about them.
* *Web pages, launcher, set-up*: rendering and starting of processes.

# Verification of the Stader LST crank backend

TLA+ specifications, TLC configurations and TLAPS proofs for the backend in
`src/`: a NestJS process that sends the periodic ("crank") transactions of a
Solana liquid-staking program, follows the program's events and keeps
tables in Postgres and an event log in MongoDB. Paths below are relative to the
repository's own `src/` directory; `file:12` is line 12.

    tlasany CrankScheduler.tla                                # parse
    tlc -workers 2 -config sched_reliable.cfg MCCrankScheduler # check a run
    tlapm CrankSchedulerProofs.tla                            # check proofs

## 1. The system

One Node process, restarted by pm2 when it exits or passes 512 MB
(`runserver.config.js`). One JavaScript thread: code runs without interruption
from one `await` to the next, and everything between two awaits may interleave
with any other timer, cron, event callback or HTTP request. That is the
granularity of every module here: **an action is the code from one await to the
next**. An exception in a callback nobody awaits is an unhandled rejection and
ends the process.

| Component | State it keeps | Operations | Talks to |
|---|---|---|---|
| `crank/crank-scheduler.service.ts` | lock `areCranksRunning`, `processStatus`, last epoch of each check (memory) | 10 s timer over three checks, status getter | EpochService, CrankOpsService |
| `crank/crank-ops.service.ts`, `crank-data.service.ts` | loop variables of the operation that runs | `stakeReserve`, `updateActive`, `updateDeactivated`, `deactivateStake`, `mergeStake`, `redelegate` | table `stakedelegation`, RPC node |
| `epoch/epoch.service.ts` | none | `getEpochProgress`, `getEpochInfo`, `getSlotInfo`, `slotChecker` | RPC node |
| `epoch/epoch-tracker.service.ts`, `scripts/populate-epoch-info.ts` | `trackedEpoch` (memory), table `epoch_info` | initialise at start, check every 2 h, read for the API; the script populates | EpochService, Postgres |
| `state/state.service.ts` | tables `unstake_tickets`, `stakedelegation` | create, bulk create, update, bulk update, list tickets; create delegation; price, APY | Postgres, RPC node |
| `infrastructure/event-monitor/event.service.ts` | 25 event subscriptions, MongoDB log | one handler per event, seven of which also write Postgres; getters | StateService, ValidatorsDataService, both stores |
| `listeners/unstake-ticket.listener.ts` | one more subscription to `OrderUnstakeEvent` | inserts a ticket | EpochService, Postgres |
| `validators/validators-data.service.ts` | table `validators` | bulk upsert, list, refresh every 2 h | Postgres, an HTTP API |
| controllers, guards, interceptors, DTOs | none | forward requests | the services |
| `utils/`, persistence and environment modules | configuration | start-up only | - |

### What is hard in each, and what makes it correct

- **Scheduler.** `setInterval` does not wait for its async callback, and a crank
  takes minutes, so passes overlap. The epoch, the slot and the target come from
  different RPC calls. Every catch resets shared flags. Correct means: one crank
  at a time, none twice for an epoch, an epoch recorded only after its cranks
  completed, no lock or status left behind by a failure, and every check
  eventually run in an epoch.
- **Operations.** Pages are fresh queries with an offset over a table that
  grows; three of the loops never count what they process; transaction errors
  are dropped. Correct means: no listed row left out, bounded repetition, a
  truthful total, termination.
- **Epoch tracker.** Several awaited queries make up one logical update; the row
  of the next epoch is created ahead of time; restarts and a second process
  touch the same rows. Correct means: the active row is the chain's epoch, no
  epoch is reported before it begins, bounds do not drift.
- **Unstake tickets.** Two handlers insert a row for one event; claims, PATCH
  requests and inserts race on whole rows. Correct means: a ticket claimed on
  the chain is not listed as unclaimed, and an update changes only what it names,
  unless it misses another one between its query and its save.
- **Event monitor.** The fields of an event are listed by hand in three places:
  the generated program types, the handler, and the document schema or entity. Two
  stores without a transaction; a throw ends the process and with it every other
  handler and any crank under way; events during downtime are lost. Correct means:
  no row without the document of its event, no event that ends the process,
  no event taken up twice, also not by a process that comes up again.
- **Validators.** Check-then-insert on a column that is not unique, and a refresh
  over a list read before, beside requests that save entities read before. Correct
  means: what a request was told is stored is stored, one row per validator unless
  requests overlapped, and no old answer of the API stays.

`PROJECT.json` lists every hazard with its line and the property that covers
it, or says why none does.

## 2. Modules

| Module | Models | Kind |
|---|---|---|
| `CrankOncePerEpoch` | the promise of the scheduler: one run at a time, for a reached epoch that is not recorded | abstract specification |
| `CrankScheduler` | `CrankSchedulerService` with `slotChecker` and `getEpochInfo` | detailed specification |
| `MCCrankScheduler` | symmetry of the passes | TLC instance |
| `CrankSchedulerProofs` | theorems about `CrankScheduler` | proofs |
| `CrankOps` | `CrankOpsService` and `CrankDataService` | detailed specification |
| `MCCrankOps` | stakes of a small table | TLC instance |
| `CrankOpsProofs` | theorems about `CrankOps` | proofs |
| `EpochTable` | the promise of the table `epoch_info`: one row an epoch, in one of two forms, marked only when its epoch has begun | abstract specification |
| `EpochTracker` | `EpochTrackerService`, the script, the table | detailed specification |
| `EpochTrackerProofs` | theorems about `EpochTracker` | proofs |
| `UnstakeTickets` | the table `unstake_tickets`: `StateService`, the order and claim handlers of `EventService`, `UnstakeTicketListener` | detailed specification |
| `UnstakeTicketsProofs` | theorems about `UnstakeTickets` | proofs |
| `EventSchemas` | what the 25 events carry, which documents MongoDB and which rows Postgres accept | operators |
| `EventHandlers` | the 25 handlers as programs: the fields they copy, the calls they await | operators |
| `EventLog` | the promise of the monitor: received or missed, complete only when logged, lost together | abstract specification |
| `EventMonitor` | `EventService`: handlers of several events interleaving, the process that ends and starts again | detailed specification |
| `EventMonitorProofs` | theorems about `EventMonitor`, the refinement among them | proofs |
| `Validators` | `ValidatorsDataService` and the requests that reach it | detailed specification |
| `ValidatorsProofs` | theorems about `Validators` | proofs |

Every specification has, under "Seeded faults", mutated forms of some of its
definitions. No specification uses them; they exist to show that each property
fails when the code is changed in a plausible way (`PROJECT.json`, "mutants").

### CrankScheduler

`Ticks` is the set of passes of the timer callback in flight at once; a pass
goes through the three checks (`check`), and `pc` says what it awaits:
`slotChecker`, `getEpochInfo`, `getBlockTime` (the rest of `getEpochInfo`, after
the epoch is known), or an operation of `CrankOpsService`. `due` and
`currentEpoch` are the pass's local answers; `areCranksRunning`,
`processStatus`, `currentOperation` and `lastRunEpoch` the service's fields.

| Action | Code |
|---|---|
| `TimerFires` | `crank-scheduler.service.ts:39` |
| `SlotChecked`, `EpochRead` | the answers at 48-50, computed in `epoch.service.ts:159-182` and `58-66` |
| `StartCrank`, `SkipCrank` | the test at 53-57 (101-104, 146-149) and what follows it up to the next await |
| `UpdateActiveDone` | 188-196 |
| `CrankDone` | 67-79, 114-124, 157-166 with 198-214 |
| `CrankFailed` | inner catch and finally, 74-79, with `resetAllFlags` |
| `CheckFailed` | outer catch, 88-91 |
| `NextSlot`, `Restart` | the chain, pm2 (external) |

The `finally` of `executeUpdateCranks` and the code of its caller run in one
step: no other callback can come between. `lastExecutionTime` is left out.

### CrankOps

The table only grows (`Insert`; the repository never deletes a delegation).
`Answers` gives every answer the page query may return, rows of equal stake in
any order. `Find` and `Count` are the two queries of `findAndCount`; the pause
between pages is part of `find`. `Process` is one transaction; its error is
logged and dropped, so the loop goes on the same way. `Reject` is a throw that leaves the loop:
the query, `new PublicKey` on a malformed row, building the transaction, or the
blockhash request, none of which are inside the inner try. One operation runs at
a time; two at once (the stolen lock, below) share nothing but the table.
`mergeStake` and `redelegate` have no caller in the repository and run the same
loop as `deactivateStake`.

### EpochTracker

`Server` and `Script` are the two processes; the script builds the whole
application, so it runs `initializeEpochInfo` first and then its own code. `pc`
names the awaited call. A row is `[startSlot, endSlot, isActive]`; the slot index
cancels out of both bounds (`ChainRow`), and timestamps are left out. An insert
of a key that exists throws (`DuplicateKey`); anything else may throw when
`CallsCanFail`. `Served` is the set of epochs `getEpochInfoFromDb()` may answer
with. The script's process does not live long enough to reach its own two-hourly
cron, and the server's cron does not overlap itself; both are left out.

`EpochTable` is what readers of the table may rely on: an epoch gets one row, once,
from the chain's answer or by continuing the row before it; the row is never moved
or deleted; it is marked active when its epoch has begun, inactive when a later one
has. The two processes implement it with `epoch` and `rows` as they are
(`TableKept`), although each write acts on what was read several awaits before.

### UnstakeTickets

A task is an event handler (`<<"order", t>>`, `<<"listener", t>>`, `<<"claim", t>>`,
one each, as events are not delivered twice) or an HTTP request; `at` says what
it awaits. A row is named by the task that inserted it and its ticket, as the
table has a generated key and no unique ticket.

| Action | Code |
|---|---|
| `OrderUnstake`, `Claim` | the program's instructions (external); their handlers start if the process is up |
| `Request` | a POST or PATCH of `state.controller.ts`, single or bulk, with any body its declared types allow |
| `SaveEvent` | the MongoDB save, `event.service.ts:718`, `763` |
| `Estimate` | `getEpochInfo` and the `BigInt` of its answer, which throws for a fraction unless it was rounded: only the order handler rounds (`event.service.ts:770`) |
| `Insert` | the inserts of both handlers and of `createUnstakeTicket(sBulk)` |
| `Find` | `findOne` (any row of the ticket) or `find` (all rows of the tickets; all rows of the table when the list of updates is empty, `Found`), then the changes to the copy (`Asks`, `Updated`) |
| `Reload`, `Write` | `Repository.save` of the copy: TypeORM reads the row again, outside the transaction, and updates the columns that differ |
| `CallFails`, `Crash`, `Start` | a rejection that nothing catches ends the process (order handler, first await of the claim handler); events are missed until it is up again |

Nothing is assumed of clients beyond the declared types of a body: `claimed` may be
true for a ticket that is open, or false for one that is claimed (the tests at
`state.service.ts:405` and `454` let false through), the updates of a bulk request
may differ or be empty, and name tickets that do not exist. `Times` are the times
clients give; a body the types do not allow is left out. `claimedTime` is written
with `claimed` and left out too. `missed` is a history variable: the rows another
task has written since a task took its copy, up to the moment its save reads them
again.

### EventSchemas, EventHandlers, EventMonitor

Three lists of field names per event, each from its own files: `XPayload` from the
generated types (`utils/targets/types/stader_liquid_staking.ts`, from line 2504),
`XSchema` from `infrastructure/mongoose/schemas/`, `XHandler` from
`event.service.ts`. Types are kept as far as a store's answer depends on them: plain
values, structs (a change of old and new, a fee), fields that may be null; in a
schema, required, optional and mixed fields; in a table, columns that must have a
value because they are `NOT NULL` or because their transformer calls `toString` on
whatever it is given, `undefined` included. Whether a handler can finish
(`Accepted`, `Throws`) is computed from these lists, never assumed.

| Action | Code |
|---|---|
| `Emit` | the program emits an event of any kind, with or without its optional fields, with or without numbers of 2^53 or more; the handler builds its document (`event.service.ts:194`-1073) and saves it |
| `Answer` | what the handler awaits succeeds, and it goes on to its next call |
| `AnswerThenThrow` | the same, and the code up to the next call throws (`toNumber` of null or of 2^53, also of the fields `getState()` answers with, lines 546-612) |
| `Refuse` | the store refuses the document or row: validation, cast, transformer, `NOT NULL` |
| `Fail` | a call is rejected for a reason of its own; only the claim handler's update is in a try |
| `Catch` | the claim handler's catch, lines 720-742 |
| `Crash`, `Start` | pm2; `onModuleInit` (158-191) subscribes without waiting for anything |

`written` holds the calls whose write is in its store. A process that ends may
have sent writes that still succeed (`late`). `updateUnstakeTicket` is one call
here; `UnstakeTickets` looks inside it, and models the second subscriber.

`EventLog` is what this is meant to be: `EventMonitor` implements it with the
running events as its open ones and the first call of each as its log
(`EventLogOfMonitor`).

### Validators

A row is named by the request and the position in its list that inserted it, as
the table has a generated key and no other unique column. Of its columns the model
keeps the vote account and `stats`, the answer of the API (numbered by `version`)
that the six refreshed columns hold.

| Action | Code |
|---|---|
| `Request` | POST `bulk-update` or `create` (`validators.controller.ts`) |
| `Find` | the query of `createOrUpdateBulk` and the `Map` that keeps one row of each account; a list may name an account twice |
| `Insert` | `save(toInsert)`, one transaction; also `create` |
| `Reload`, `Write` | `save(toUpdate)`: TypeORM reads the rows again and updates those that differ, which are all: the driver gives `bigint` columns as strings, the list as numbers |
| `Fails` | the catch of either; what was inserted stays |
| `CronFires`, `RefreshFind`, `RefreshGet`, `RefreshUpdate` | `updateValidators`, a row at a time |
| `RefreshFails` | one rejected call ends the walk |
| `ApiChanges`, `Restart` | the validators API, pm2 (external) |

One refresh is under way at a time: the walk takes seconds, the cron two hours.

## 3. Runs

| Run | Question | Result |
|---|---|---|
| `sched_reliable` | passes overlap over an epoch boundary and a restart, no RPC call of a check rejected: `OneCrankAtATime`, `StatusTruthful`, `RunIsNew`, refinement of `CrankOncePerEpoch` | pass, 370 000 states |
| `sched_failing` | any call may be rejected at any moment: `NoLeakedLock`, `NoStaleStatus`, `RecordedMeansRan`, and liveness `EveryCrankRecorded` | pass, 239 000 states |
| `sched_rollover` | a crank for the current epoch starts at or after its target slot | violated |
| `sched_stolen_lock` | a pass starts a crank only when no other pass runs one | violated |
| `ops_paging` | over a growing table: `NoItemSkipped`, `RepeatsBounded`, `ReportedTotal`, `WorkBounded`, `WorkShrinks` and liveness `EveryCallEnds` | pass, 12 000 states |
| `epoch_table` | a server that may restart and the script beside it, any call failing: `ActiveBegun`, `TrackedHasRow`, `SlotsDoNotDrift`, refinement of `EpochTable`; and, while the server is alone and not restarted, `NeverAhead` and liveness `CurrentEpochActive` | pass, 580 000 states |
| `epoch_forgotten` | the API comes to report the chain's epoch, with one restart and no failure | violated |
| `tickets_table` | handlers, a request with any body, rejected calls, a crash: `ClaimsExplained`, `ChangesExplained`, liveness `ClaimReachesRow` and `OrderKeptOrCrash` | pass, 22 000 states |
| `tickets_listed` | a ticket that a row says is claimed is not listed as unclaimed | violated |
| `events_log` | two events of any of the 25 kinds, rejected calls, restarts: `StoresAgree`, `PoisonIsKnown`, refinement of `EventLog`, `EndsRunOut`, liveness `EveryHandlerEnds` | pass, 229 000 states |
| `events_unsaved` | the delegation a handler is to save is saved, with nothing failing | violated |
| `validators_table` | two requests of any kind, the refresh, rejected calls and a restart: `DuplicatesExplained`, `RequestKept`, liveness `RefreshedInTheEnd` | pass, 726 000 states |

### What the violations show

- **`sched_rollover`**: the chain enters a new epoch between `slotChecker` and
  `getEpochInfo`. The old epoch's slot passed its target, the new epoch is not
  recorded, so the crank starts at once and the new epoch is recorded as done,
  long before its target slot (`crank-scheduler.service.ts:52`).
- **`sched_stolen_lock`**: a pass whose RPC call is rejected clears the lock in
  its outer catch while another pass is in the middle of a crank; a third starts.
- **`epoch_forgotten`**: the server restarts in a new epoch. Its initialisation
  either tracks the row made ahead of time without activating it or creates a
  second active row; the old row stays active for good. The same end is reached
  without a restart when a check fails, after activating a row, for the whole
  rest of an epoch: `CurrentEpochServed` then fails under `CallsCanFail` too.
- **`tickets_listed`**: the order's event is handled twice, by `EventService` and
  by `UnstakeTicketListener`; when the estimated time is an integer (one slot in
  five at 0.4 s a slot) both insert a row. The claim updates the row `findOne`
  happens to answer with, and the other is listed as unclaimed for good.

- **`events_unsaved`**: no call fails, and yet a StakeReserve or DepositStakeAccount
  event never reaches `stakedelegation`: the handler leaves `stakedAmount` unset
  and its transformer calls `toString` on it (`stakedelegationhistory.entity.ts:29`).
  An AddValidator event does not even get that far: its schema requires
  `validatorId` and `timestamp`, which the handler does not give. In all three the
  exception ends the process, and after the restart the event is not seen again.

`PoisonIsKnown` says which events do that, and that no other does: AddValidator,
SetValidatorScore (a struct for a number), StakeReserve, DepositStakeAccount,
UpdateDeactivated (columns whose transformers do not take null are left out) at
every occurrence; UpdateActive when an optional fee is null or a number
reaches 2^53, after its metrics row is in Postgres and before its price row is.
`StoresAgree` still holds then: the document is always there first.

What `ChangesExplained` leaves open is as telling as what it says. An update that
has read a row before a claim is written, and whose save reads the row again after
it, writes `claimed = false` back over the claim, because TypeORM writes every
column in which the copy differs. The property bounds this lost update to that
window: a claim written after the save has read the row again is kept. It fails as
soon as `missed` is dropped from it. A client's explicit `claimed: false` takes a
claim back at any time, and the property counts it as asked for.

### Bounds

- Scheduler: two passes are enough for every race found between a pass and the
  owner of the lock (a third pass adds a repetition of the second); the theorems
  are for any number. Epochs have two or three slots: before the target, at
  it, and the last one; two epochs give one boundary, and the chain stops in
  the last slot of the last (`FinalEpoch`). `MaxRestarts` bounds restarts; a
  second one starts from a state the first could start from.
- Operations: six rows, three of them inserted while an operation runs, one
  malformed, one larger than a row already passed; pages of two rows, so an
  operation reads up to four pages. `Rows` bounds the insertions, which is also
  what ends the loops: a table that grows faster than a loop reads it is outside.
- Tracker: four epochs, so that a row can be extrapolated from an extrapolated
  one, an epoch can be slept through, and a stale row can be left two behind.

- Events: two, of any kinds, so that one may end the process while the other is at
  any of its calls, or arrive while it is down; three wide fields, two
  read before the metrics row, from the event and from `getState()`, and one after
  it; one crash besides those that
  events and rejected calls cause. More events only add handlers that share nothing.
- Validators: two accounts, two requests with lists of two, one change of what the
  API says, one restart: two requests may race, name an account twice,
  carry an old answer, and fail between inserts and updates.
- Tickets: one ticket with its three handlers, one request and one time a client
  may give. The request may
  overlap any handler, a second claim of a ticket does not exist, and bulk
  requests find both rows of the ticket. Several tickets and requests at once are
  covered by the theorems.

### Fairness

`LiveSpec` of the scheduler: the chain makes slots, the timer fires for an idle
pass, and what a pass awaits settles, with a result or a rejection. There is no
timeout in the code, so "settles" is an assumption about the RPC client; an
operation ends by `EveryCallEnds` under the same assumption. `EveryCrankRecorded`
is conditional on failures stopping some day; `Failing` counts only steps that
nothing but a failure explains, as a rejected call of a pass that would have
skipped leaves no trace, and a premise that forbade those steps too would never
hold. `LiveSpec` of the tracker has the same form; the cron fires for
ever. In `UnstakeTickets` what a task awaits settles and pm2 starts
the process again, in `EventMonitor` what a handler awaits settles; nobody is
obliged to order or claim, or to emit an event. In
`Validators` what is awaited settles and the cron fires again and again;
`RefreshedInTheEnd` is conditional on refreshes that stop failing. The fairness is
weak throughout: no step needs to be enabled only now and then.

## 4. Proofs

`CrankSchedulerProofs`, for any set of passes, any epoch length, targets, bounds:

- `TypeCorrect`, `LockNeverLeaked`, `StatusNeverStale`, `RecordsAreEarned` hold
  whatever fails. The status invariant is inductive with the lock's: a flag
  belongs to a pass that runs the operation, and clearing flags never adds one.
  `RecordsAreEarned` needs that a pass in `updateDeactivated` has completed
  `updateActive` for its epoch.
- `CranksExclude`, `StatusExact`, `RunsAreNew`, `SchedulerKeepsPromise` assume
  `RpcCanFail = FALSE`: then no pass clears a lock it does not hold. The
  invariant (`ReliableInv`) joins three facts: the lock is set exactly while one
  pass runs, the flags name exactly its operation, and its epoch is later than
  the record of its check. The refinement maps `busy` to the running passes and
  shows each action to be a step of `CrankOncePerEpoch` or a stutter.
- `PassesStartAlone`, under the same assumption: the property `StartsAlone` that
  `sched_stolen_lock` refutes. So a rejected call is the only way the lock is
  stolen, and no overlap of passes alone does it.

`CrankOpsProofs`, for any table, page size and insertions:

- `TypeCorrect`, and `NoneSkipped` and `RepeatsAreBounded` under `DistinctStakes`. The rows up to the end
  of the page read last (`window`) precede every listed row outside of it; a
  listed row skipped by the next offset would have the whole window before it,
  more rows than the offset skips. And a loop cannot end early while a listed row
  is outside the window, because the table then has more than `skip + limit` rows
  and `processedCount` does not exceed that. `PagingInv` states it; it rests on
  cardinality lemmas about `Answers`. For the repeats, the
  listed rows of the window were all sent or are still in the page, so what was sent
  beyond them is no more than the window's rows that were inserted meanwhile.
- `TotalsReported` and `WorkIsBounded`, with equal stakes too: `AmountInv` counts
  what an operation has behind it (transactions sent, the offset, the rest of the
  page) against the table. Which rows a page brings does not matter for it, only
  how many.
- `WorkAlwaysShrinks`: while the table does not grow, every answer lowers `Left`,
  a number bounded when the operation is called; its bound on the offset is
  `PageSizeInv`. This is the argument why the loops end that never count; only its
  last step, from a number that shrinks to the end, is liveness and stays with TLC
  (`EveryCallEnds`).

`EpochTrackerProofs`, for any epochs, number of restarts and script runs, and
whatever calls fail:

- `TypeCorrect`, `TrackedEpochsHaveRows`, `ActiveEpochsBegun`, `SlotsStayClose`.
  The invariant `IInv` adds to the properties what a process knows between two
  awaits: the epoch it has read has begun, and the row it has found or saved is
  still there (`KnowledgeInv`); `priorEnd` is the end of that row where it is used
  (`PriorInv`). Neither the flag's nor the slots' property is inductive without
  them, since the check that sets `trackedEpoch` or inserts a row reads the table
  several awaits earlier. It stays true because of what may happen to a row at all
  (`RowStep`): it is inserted, or its flag changes, and it is never deleted.
  `ProcessStep` says when a step of one process keeps the invariant; each action
  has a lemma that gives it its facts.
- `NeverServedAhead`: while the server is alone, a row that is served has begun
  although between the two updates of a check none is active and the highest row,
  which may be made ahead, would be served. `AloneInv` says why: a row is
  ahead of the chain only beside the active row of the tracked epoch, and a check
  that deactivates that one has read a later epoch, so the row is not ahead any more.
- `OneActiveAtRest`, assuming `CallsCanFail = FALSE`: between checks exactly the
  tracked epoch's row is active (`CalmInv`), so the API has one answer. A check that
  fails half way, or a restart (`epoch_forgotten`), ends that.
- `TableIsKept`: the refinement of `EpochTable`. The end of every row is the first slot of the
  next epoch whichever way it was made (`EndInv`, `PriorEndInv`), so the script, which
  computes the next row from the chain, and the service, which continues the row in the
  table, insert the same row; and what a check deactivates is over (`OverInv`).

`UnstakeTicketsProofs`, for any tickets, requests and crashes:

- `TypeCorrect`, `ClaimsTraced`, `ChangesTraced`, in three layers. `IInv` says what
  tasks and copies are: a task holds copies only while it saves them, of rows that
  are there, and inserts once. `ClaimsExplained` is not inductive: a row gets its
  flag from a copy taken several awaits earlier, so `SourceInv` says the same of
  copies and of the tasks that are going to take one; it stays true because a step
  writes nothing but columns of copies (`RowSources`), copies are taken of rows
  (`CopySources`) and what a client asked for stays asked (`AssertedStays`).
  `FreshInv` is about rows a task has not missed a write of: until save reads such a
  row again, the copy is the row with what was asked for; after that, the columns to be
  written are columns that were asked for. A task that holds a copy goes from its save to
  its write or stays where it is (`Holding`), and a write by another task is missed by
  every task whose save has yet to read again (`Noticed`).
- `OrdersEndKept`: the handler of an order ends with its row in the table or with the
  process, whatever calls are rejected. It is the safety half of
  `OrderKeptOrCrash`; that the handler does end is the other.

`EventMonitorProofs`, for any number of events, wide fields, failures and restarts:

- `TypeCorrect`, `Agreement`, `PoisonKnown`, `MonitorLogs`. For `Agreement` the
  invariant adds what a running handler has behind it: all it has been answered is
  written, and nothing beyond the call it awaits can be. `PoisonKnown` rests on
  two lemmas about the fields: `Faultless` (from `GoodDocuments`, a case for each
  handler that compares what it copies with payload and schema) shows every
  call of an event that is not poison accepted, `Faulty` names the call of a poison
  event that cannot be; `PassedInv` says that what a handler has behind it was
  accepted. The refinement needs the type
  invariant (no handler runs while the process is down) and shows that each way a
  process ends is a `Crash` of `EventLog`.
- `NoCrashLoop`: each end of the process uses up the event that caused it, or one of
  the crashes that no event causes, and nothing brings one back (`EndsLeft` never grows).

`ValidatorsProofs`, for any validators, requests and refreshes:

- `TypeCorrect`, `DuplicatesKnown`, `RequestsKept`. `DuplicatesExplained` is not
  inductive: between the query of a request and its insert other requests may
  insert. `PlanInv` says that a bulk request that has yet to insert an account
  overlapped every other bulk request that has a row of it. `RequestsKept` needs (`CoverInv`) that what
  is listed is in the table or still among what the request will insert, and that
  no row leaves the table or changes its account.

Assumptions on the constants are the named ASSUMEs of the modules (the epochs
start above 0, because `lastXEpoch` starts at 0; the targets lie in an epoch).

Only model-checked: `EveryCrankRecorded`, `EveryCallEnds`,
`CurrentEpochActive`, `ClaimReachesRow`, `OrderKeptOrCrash`, `EveryHandlerEnds`,
`RefreshedInTheEnd`: liveness under fairness is out of the prover's reach.
Of `EveryCallEnds` and `OrderKeptOrCrash` the part that is safety is proved.
Every other property of a passing run is the statement of a theorem. `NoItemSkipped`
and `RepeatsBounded` are proved for distinct stakes only, because with equal ones
they do not hold.

## 5. Plan

1. A composition of `CrankScheduler` with two `CrankOps` at once: what the stolen
   lock does to one table scan. Two operations share only the table, which
   neither writes, so every property of `CrankOps` holds of each by itself; the
   composition would say how often a stake account is sent the same transaction.
2. The lists the API pages through (`getValidatorsList`, `getDelegationRecords`),
   which read their tables the way `CrankDataService` does.

## 6. Not modelled, and why

- Price and APY (`state.service.ts:249`): floating-point arithmetic over one query.
  Its fallback and its choice of the latest row are listed as hazards.
- Timestamps of `epoch_info`: nothing bounds their error.
- Whether a crank's transactions took effect: `updateActiveCall` and its like drop
  the error, and no comment promises otherwise (a hazard).
- The getters of `EventService` and the paginated lists: reads of one collection
  or table. Controllers, guards and interceptors: no state.
- Accounts and arguments of the transactions, the rest of the generated program
  types (instructions, accounts, errors): data of the on-chain program.
- Key and connection set-up, persistence, environment and logging configuration,
  and the Redis and Bull modules, which the application does not import.

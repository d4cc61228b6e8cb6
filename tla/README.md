# binance-auto-trader: TLA+ models, checks and proofs

The program (`src/backend/app`) trades Binance USDT futures for one owner.
Each *strategy* is a row of `strategy_instances`: a symbol, a side, a ladder of
up to ten entry stages, up to twenty take-profit levels, stop losses and a
`status`.  Three kinds of process change that row: the API server on behalf of
the owner, about forty scheduled jobs, and a consumer of the exchange's user
stream.  They share a Postgres database and a Redis server; nothing else orders
their steps.

What can go wrong is the agreement between three copies of the truth: what the
exchange holds, what the rows say, and what a handler read some seconds ago.
The modules follow a strategy through its life: it comes to be (`AutoEntry`),
climbs its stages (`StageEntry`), takes its profits (`TakeProfit`), is closed
(`EmergencyClose`), and is accounted for (`OrderLedger`), by jobs that run under
one leader (`SchedulerLeader`).

| module | what it is | lines of code it stands for |
|---|---|---|
| `StrategyStatus` | the statuses and their classes | `core/strategy_status.py` |
| `AutoEntry` | strategies made by entry jobs and re-entries | `services/strategy_service.py`, `services/position_limit.py`, `services/auto_family_registry.py`, `workers/auto_reentry_worker.py`, `workers/auto_bb_breakdown_worker.py` |
| `StageEntry` | the stage ladder of one strategy | `services/execution_service.py`, `workers/stage_trigger_worker.py`, `api/v1/strategies/control.py`, `services/stage_trim.py` |
| `TakeProfit` | take-profit ladder, trailing, forced stop loss, the peak | `services/risk_service.py`, `services/tp_sl_orchestrator.py`, `workers/run_workers.py` |
| `EmergencyClose` | closing a position: every caller, the stream, the reconcile job | `services/execution_service.py`, `workers/reconcile_worker.py`, `api/v1/strategies/lifecycle.py` and others |
| `FillLedger` | abstract: each executed unit is booked at most once | (what `OrderLedger` promises) |
| `StageLadder` | abstract: the stages are bought one after the other, each once, and climbed as they are bought | (what `StageEntry` promises) |
| `TpLadder` | abstract: the levels are taken in ascending order, each once, but for lost answers | (what `TakeProfit` promises) |
| `EntryLicence` | abstract: entries within a family's limit, and after a stop only those let through before it | (what `AutoEntry` promises) |
| `JobTurns` | abstract: a job is at work in one process at a time, but for those at work when Redis loses its keys | (what `SchedulerLeader` promises) |
| `OrderLedger` | order rows, user stream bookings, orphan repair | `services/stream_service.py`, `services/zombie_guardian.py` |
| `SchedulerLeader` | leadership of the scheduler and job locks | `workers/distributed_scheduler_guard.py`, `workers/scheduler_runner.py` |
| `..._proofs` | theorems about the module of that name (`StageJob_proofs`: about the job in `StageEntry`; `CloseLeaves_proofs`: about what a close in `EmergencyClose` leaves) | |
| `MC...` | constants of its TLC runs | |

To check: `tlc -config close_race.cfg MCEmergencyClose.tla` (the sections below
name the module of each `.cfg`), and `tlapm OrderLedger_proofs.tla`.

## 1. Inventory

Paths are relative to `src/backend/app`.

| component | state | operations | interacts with |
|---|---|---|---|
| **Order ledger** `services/stream_service.py`, `models/order.py` | `orders` rows (status, executed_qty, avg_price), `realized_pnl`, `total_capital` | `handle_order_trade_update`, row creation after a placement, `detect_orphan_db_orders` | user stream, REST look-ups |
| **Closing** `services/execution_service.py`, `api/v1/strategies/lifecycle.py`, `services/tp_sl_orchestrator.py`, `workers/reconcile_worker.py` | strategy status and quantity, Redis lock `emergency_close`, `STOPPING` age in Redis | stop request, forced / trimmed / staged stop loss, take profits, verify and retry, acknowledge, reconcile pass | exchange, stream, each other through the row |
| **Entries and stage ladder** `execution_service.start_stage1 / trigger_next_stage`, `workers/stage_trigger_worker.py`, `api/v1/strategies/control.py`, `services/stage_trim.py` | stage plans (`is_triggered`), `current_stage`, status, orders | start, click, pass of the job, trim, fills, reconcile of a pending stage | stream, closing, guards |
| **Levels** `services/risk_service.py`, `services/tp_sl_orchestrator.py` | peak in Redis, `max_profit_pct`, `TPn_DONE_PARTIAL`, `tp1_pct_override` | forced stop loss, trailing, next level, quantity of a level; add, reset and threshold of the owner | closing, stages, stream |
| **Automatic entries** `workers/auto_*`, `services/strategy_service.py` | new rows, `REENTRY_*`, advisory lock of a family | slot check, creation, start, clean-up, re-entry | gates, guards, closing |
| **Scheduler** `workers/scheduler_runner.py`, `workers/distributed_scheduler_guard.py` | Redis `sched:leader`, `sched:job:*` | wait for leadership, heartbeat, guarded job, SIGTERM | Redis, the next process |
| **Statuses** `core/strategy_status.py` | none | classes of statuses | all |
| Account guards `services/account_kill_switch_service.py`, `account_daily_loss_limiter.py`, `workers/daily_loss_aggregator.py`, `services/auto_trading_halt.py` | kill switch, day's limit row, halt setting | trigger, clear, add realised PnL, check | entries, stream |
| Entry gates `services/position_limit.py`, `single_entry_guard.py`, `*_gate.py` | settings | whether an automatic entry may pass | entry workers |
| API back-off `core/api_backoff.py` | Redis ban keys per account | record, check, reset | every job that calls the exchange |
| PnL synchronisation `workers/realized_pnl_sync_worker.py` | `realized_pnl` | overwrite from `userTrades` | never scheduled, see section 8 |
| Notifications `services/notification_service.py`, `workers/telegram_retry_worker.py` | `notifications` rows | send, mark failed, retry | all |
| Paper trading `services/paper_trading.py` | `paper_trades` | simulate entries and exits | prices |
| Chart analysis, learning, detectors, agents, reports | rows of their own | numeric rules over candles, reports | entry workers (signals) |
| API, idempotency, models, client, front end, deployment | | | |

What makes the modelled ones correct:

- **Order ledger**: every executed unit is booked once, at the price and with
  the commission it had; a lost event is made up for; a row ends with the
  status its order ended with.
- **Closing**: a terminal strategy owns nothing on the exchange and has no order
  that could open a position; a partial close closes its part and keeps the
  strategy; `STOPPING`, in which no stop loss is evaluated, does not last; the
  row's quantity follows the exchange.
- **Stage ladder**: a stage is entered once; a stage marked as entered was; a
  stage called open has filled; no stage is bought on top of one that has not.
- **Levels**: a level is taken once per ladder; a retreat from the peak closes
  the rest when it is seen; the ladder can be climbed to its end.
- **Automatic entries**: the daily limit of a family and the slot limit hold,
  the kill switch stops what has not passed it, no entry the exchange holds is
  forgotten, a closed strategy is re-entered once.
- **Scheduler**: one leader's jobs run, a job runs once at a time across a
  restart, and the jobs never stay without a leader.

The behaviours that are hard here, each with its place in the code, are listed
as `hazards` in `PROJECT.json`: events lost while the consumer reconnects, or
repeated; a fill that arrives before the row of its order; statuses written from
an ORM copy that is seconds old; a lock that expires under its holder; a position
query that fails and is replaced by a guess; a retry sized by a position that is
about to change; a claim that only one of two actors makes; limits that are
checked and not reserved; a reconcile pass that commits what it read long before;
keys that Redis loses.

Five of the modules implement an abstract specification of a handful of lines: a
run checks the refinement on a small instance (`..!Spec` as a PROPERTY), a theorem
proves it for every value of the constants (`Implements...`), and a second theorem
(`...Suffice`) shows that the abstract specification says enough: whatever
implements it has the state property one would otherwise check, which is why the
runs check the refinement instead of that property.  `EmergencyClose` has none:
its callers promise no order of steps, only what `NoOrphan` says of a state.

The type invariant of `OrderLedger`, `SchedulerLeader`, `AutoEntry` and
`TakeProfit` is a conjunct of the inductive invariant their runs check.

## 2. The order ledger (`OrderLedger`, `FillLedger`)

**State.** `exch` is what the exchange knows of each order (status, cumulative
quantity `z`, notional), `stream` the events on their way, `row` the table
`orders`, `booked` what the strategy has booked, `realized` and `capital` its
`realized_pnl` and `total_capital`; `trades` and `prices` count each order's trades
and keep their prices, for the properties about money to read.  Amounts are integers in units of `1/Scale`,
`Scale` a multiple of every quantity, so that an average price is exact.

**Actions.** `Accept`, `Trade`, `Cancel` are the exchange's; each emits its
event.  `CreateRow` is `place_order` returning and the row being committed,
possibly after the fill.  `Deliver` is the whole of `handle_order_trade_update`
as far as orders and money go: an event without a row is dropped
(`DropUnmatched`), any other overwrites the row (`ApplyEvent`) and books the
*difference* `Delta` if it is positive and, for an exit, the status is a fill.
`Lose` and `Repeat` are the transport: the consumer logs an exception of the
handler and goes on, and fetches nothing again after a reconnect.
`RepairOrphanDbOrders` is the reconcile job's repair with its look-up budget.

**Abstract specification.** `FillLedger` knows two counters per order and two
steps, `Execute` and `Book`; `BooksAtMostOnce` says that `OrderLedger` under
`filled <- exch[o].z` does only these.

| run (module `MCOrderLedger`) | distinct states | shows |
|---|---|---|
| `ledger_faults` | 218 127 | an exit and a LIMIT addition, each at a price of its own, one event lost and one repeated: `BooksAtMostOnce`, `CatchesUp`, the inductive `LedgerInv`; a drained ledger that lost nothing equals what was earned (`ProfitIsExact`) and added (`CapitalIsExact`) |
| `ledger_repair` | 91 573 | the repair against lost, late and repeated events: `NeverBookedTwice`, `CanceledIsReal`, and `RowsSettle` under fairness |

*Bounds.* Two orders of two units each have every interesting history: no fill,
one, two, of an exit against an addition.  One lost and one repeated event are
enough to put an event before or behind any other of its order.  The stream
repeats its last event (`RepeatOld = FALSE`): that is what the consumer's
reconnects can do.

*Fairness.* The consumer thread reads in a loop (`WF(Deliver)`), and the
reconcile job, every two minutes, looks each row up until it gets an answer
(`WF(Lookup(o))`; a look-up that failed for ever could settle nothing).

**Proved** for any finite set of orders, quantities, prices and bounds:
`TypeCorrect`; `AlwaysInOrder`, i.e. `[]LedgerInv`; `BookedAtMostOnce`, i.e.
`[]NeverBookedTwice`; `ImplementsFillLedger`; `AFillCatchesUp`
(`[]CatchesUp`); `CanceledRowsAreReal` (`[]CanceledIsReal`);
`FillLedgerSuffices`, that whatever implements `FillLedger` has `NeverBookedTwice`.
All but the first and the last two assume `RepeatOld = FALSE`; `CatchesUp` also that there is no repair
(it writes the row without booking), and `CanceledIsReal` instead of both
that one pass may look every row up (`Cardinality(Orders) <= ProbeBudget`).  `NeverBookedTwice` is not inductive: an event may be in
the stream behind a smaller one.  `LedgerInv` adds that the events of one order
are in order in the stream (`StreamInOrder`), that the one that may come again
is not behind what is still to come (`PastInOrder`), and that a row lies between
what is booked and what is executed (`RowsInOrder`).  Then a positive difference
is exactly what is new.  `CatchesUp` needs that `NEW` is shown only of what has
executed nothing and that a cancellation is the last event of its order;
`CanceledIsReal` that every event that says so, and every answer to a look-up,
comes from an order that was cancelled.

`EarnedIsBooked` (`[]ProfitIsExact`) and `AddedIsBooked` (`[]CapitalIsExact`) prove
the amounts, also under `RepeatOld = FALSE`.  Their invariant is `MoneyInv`.  As long
as no fill was missed, whatever a row does not know yet is on its way and is told
by a fill before any other event (`Announced`), so each unit is booked as it
arrives; an order traded at one price shows that price times the quantity
wherever it is shown (`Priced`), so the average the code computes is that price;
and `realized`, `capital` are at every moment the sums over the rows, a commission
counted for every fill that is no longer to come (`ProfitSoFar`, `CapitalSoFar`,
`Settled`, `Fresh`).  The sums are the community modules' `SumFunction`.  Its
recursion is over subsets of a finite set, so no induction over data is needed:
`Smallest` takes a least counterexample, and `SumChanges` says that a sum moves by
as much as the one term that does.  `ProfitIsExact` leaves out exits filled at
several prices, which the code books inexactly (see section 8), and entries of
more than one trade.  Only model-checked: `RowsSettle`, which is liveness.

## 3. Closing a position (`EmergencyClose`)

**State.** `status`, `qty` are the row; `pos`, `limit`, `late`, `stream` the
exchange's side: the position, a resting LIMIT entry, accepted close orders that
have not filled yet, and events on their way.  `lock` is the Redis lock, `call`
where each caller is and what it remembers (its ORM copy of the status, the
quantity asked for, the position it saw, the retry), `recon` the same for the
reconcile job, `since` the age of `STOPPING`.

**Actions.** A step is what the code does between two calls to the exchange, two
commits or two sleeps.  `StopBegins` is `stop_strategy`, `JobDecides(plan)` the
tp_sl job's decision: `FORCE_SL`, `TRIM` (partial stop loss with a stage to
follow), `SL`, `TP1` (partial), `TP_FINAL`.  Both go through
`emergency_close_position`: `Enter` (lock), `Query`, `NoPosition` or `Mark`,
`Place` / `PlaceLimit` / `PlaceFails`, `Verify` after 3 s, `Retry`, `Recheck`
after 10 s; then `Post` and `MarkReentryReady` are what the caller writes.
`Deliver` runs the handlers of account updates, entry fills and exit fills;
`ReconcileLoads`, `ReconcileAsks`, `ReconcileCommits` and `DetectStuck` are the
four phases of a reconcile pass.  `Acknowledge` is the owner's confirmation of a
clean-up.  The exchange fills a market order at once in any part, and the rest
later or never.  An ORM copy matters: assigning a status that the copy already
has writes nothing, which is why `call[a].cached` exists (`Store`).

The quantities abstract lots, stages 1 and 2 stand for all ten, level 1 for all
take profits.  `Fails` names the calls that may fail, `Expires` whether the
lock's five seconds may pass, `Late` whether orders may fill after they were
looked at.

| run (module `MCEmergencyClose`) | distinct states | shows |
|---|---|---|
| `close_race` | 2 656 832 | a stop request and the job close at once, the lock expires, every call may fail, events are lost: `NoOrphan` and the inductive `CloseInv` |
| `close_partial` | 1 664 | partial closes, verified and tried again: `PartialCloseKeepsRest`, `PartialCloseKeepsTheStrategy` (the query answers, nothing fills late) |
| `close_settles` | 242 557 | all five plans, late fills, lost events, a trade by hand: `StoppingResolves`, `QtyFollows`, under fairness |
| `close_resting` | 500 827 | a take profit of everything against a LIMIT entry order: `NoZombieEntry` |

*Bounds.* Two callers are enough for every race of two closes; a third one waits
at the same lock.  Two or three units allow a part, a rest and a partial fill of
either.  One decision of the job per behaviour, since the next one starts from a
state that some first one reaches.  `Patience` 1 or 2 stands for the cycles in
five minutes.  `CHECK_DEADLOCK FALSE`: a closed strategy may rest for ever.

*Fairness.* A call is a thread that runs to its end, each request has a timeout
and each sleep ends (`WF(CallStep(a))`); the consumer reads on (`WF(Deliver)`);
the reconcile job is scheduled every two minutes (`WF(Reconcile)`).  No request,
decision, fill, owner's action or answer of the exchange is assumed.

**Proved** for any callers, plans, quantities and failures: `TypeCorrect`;
`CloseIsSafe` (`[]CloseInv`) where no LIMIT entry rests (`Resting = 0`), whatever
the job decides; and `NoOrphanIsLeft` (`[]NoOrphan`) where it also decides neither
`TP_FINAL` nor `SL`.  The assumptions are what the code needs: a final take profit
writes `COMPLETED` and a re-entered stop loss `REENTRY_READY` without asking
(`Unasked`; with `TP_FINAL` the property is false, section 8), so of these two
statuses `CloseInv` says nothing, and of every other terminal status that it is
written over an empty position also where they are decided; and an entry that
fills late opens a position under a terminal status.  `NoOrphan` is not
inductive: `CloseInv` adds that every caller about to write a terminal status has
seen the position empty, that a caller never asks for zero (so that a failed
query, which counts as the quantity asked for, is never taken for an empty
position), that the same holds between the reconcile job's question and its
commit, and that nothing that could add to the position is on its way.  An empty
position then stays empty.

`CloseLeaves_proofs` has what a close leaves.  `ThePartIsLeft` and
`TheStrategyLives` (the two properties of `close_partial`) for one partial close
of any size whose query is answered, with no trade by hand and no late fill
(`PartialOnly`; section 8 has what happens otherwise): the part asked for is
measured by the position the caller has seen, a retry only by what is missing of
it, and as something is left no handler finds the strategy flat.
`NoEntryOutlives` (`NoZombieEntry`), where closes of the job ask for everything, a
cancellation is served and the exchange lists the symbol (`CancelsFirst`): as long
as the entry rests, row, events and copies know of no less than the exchange
holds, so a close is seen to be a full one and cancels first.  Only model-checked:
the two properties of liveness.

## 4. The stage ladder (`StageEntry`)

**State.** The row (`status`, `stage`, `qty`) and the `triggered` flag of each
stage's plan; the position, the entry orders the exchange has accepted (with
`known`: the row of the order is committed, and `answered`: its caller got the
answer), the events on their way; `call`, where each actor is and what it
remembers; `recon`, the status the reconcile job has loaded.

**Actions.** A start (`StartBegins`), a pass of the stage trigger job
(`JobLoads`, `JobPicks`, `JobWaits`) and a click (`ClickReads`, `ClickClaims`,
`ClickEnters`) go on together: the gates, the trim (`TrimAsks`,
`TrimFindsNothing`, `TrimCloses`), the order (`Places`, `PlacesUnanswered`), its
row (`CommitsRow`) and the stage (`CommitsStage`); `Fails` is any refusal before
the order.  Only clicks claim a stage before they act, with an `UPDATE ... WHERE
NOT is_triggered`.  `StopCancels`, `StopCloses` and `StopFinishes` are the stop
request, `Deliver` the entry and exit fills, `ReconcileLoads` and
`ReconcileCommits` the reconcile job's treatment of a pending stage.  Gates,
signals and sizes are a nondeterministic refusal; the close inside a trim is one
step (its inner life is in `EmergencyClose`).

| run (module `MCStageEntry`) | distinct states | shows |
|---|---|---|
| `stage_entry` | 318 507 | a start, two clicks, two passes, a stop, a lost event and a lost answer, five ways together: `ClimbsTheLadder`, `NoStageIsLost`, `OpenMeansFilled`, `JobClimbsOnFills`, `TrimmedFirst`, the inductive `EntryInv`, and `PendingResolves` under fairness |
| `entry_double` | violation | the job and a click at once: `NoDoubling`, promised in control.py, is false |

*Premise* `Alone`: an entry that claims nothing (a start, the job) and another
entry are not at work on the strategy at the same time.  Nothing in the code
enforces it, and `entry_double` shows what happens otherwise.  `stage_entry`
explores the behaviours that keep it (`Together = FALSE` lets nothing begin that
would overlap); the theorems that need it have `[]Alone` in their statement.

*Bounds.* Three stages: the first, which needs no evidence and no trim, the
second, and one with a stage before it that is not the first.  A budget says how
often what may happen; each of the five puts other actors and faults together,
because all at once add only states in which they do not meet.

*Fairness.* The reconcile job runs every two minutes (`WF(ReconcileLoads)`) and
some day its query for the order is answered (`SF(ReconcileCommits(TRUE))`).

**Proved** for any actors, stages, quantities and budgets, however the actors
overlap: `TypeCorrect`, `NothingIsLost` (`[]NoStageIsLost`) and `ClicksNeverDouble`
(`[]ClicksBuyOnce`: of two answered orders of one stage, one is of an entry that
claims nothing).  For the behaviours with `[]Alone`: `LadderIsClimbed`
(`[]EntryInv`), `PlacedOnce` (`[]StagePlacedOnce`), `OpenIsFilled` and
`ImplementsStageLadder`; these say nothing of a strategy on which a click and the
job meet.  `ApartIsAlone` says that `~ Together` gives `[]Alone`, which ties them
to the run.  `LadderSuffices`: whatever implements `StageLadder` has bought each
stage up to the current one, and none twice.
`ClicksNeverDouble` is what the claim is worth by itself: of clicks, one at a time
works on a stage and keeps it marked (`OneClaims`), only a click that has not
ordered takes a mark off (`WhoUnmarks`), so a stage that a click has bought stays
marked and no other click gets at it (`BoughtIsClaimed`).
`NothingIsLost` rests on `Traced`, which holds however the actors overlap: an actor
about to write a stage has an order of that stage, and so has a stage that the row
or the reconcile job calls pending.  A mark is therefore of a stage that was
ordered or of a click still at work.  `StagePlacedOnce` is not inductive:
`EntryInv` says that a working actor's target is the next stage (`NextStageOnly`), that one click works
at a time and its stage is marked (`OneHolder`), that answered orders are of
stages reached, or of the actor that is about to write (`OrdersClimb`), that what
is marked has been bought or is being (`MarkedIsBought`), and that events and
copies speak of stages that were reached (`ReportsAreTrue`).  `StageJob_proofs`
adds the two step properties of the job: `TheJobClimbs` (`JobClimbsOnFills`) and,
where a trim closes all it was asked to (`~ Partial`), `TheTrimIsFirst`
(`TrimmedFirst`).  What the job has seen of a fill stays true, because executed
units are never taken back; what it has seen of the position stays an upper
bound, because with no limit entry resting only an entry of its own could raise
it.  Only model-checked: the liveness of `PendingResolves`.

## 5. Take-profit and the peak (`TakeProfit`)

**State.** The row (`status`, `qty`, `saved` for `max_profit_pct`, `tp1` for
`tp1_pct_override`), the position, `peak` for the Redis key, `stream`; `job`, the
tp_sl job with the copy it loaded at the start of its cycle, `owner`, an add that
starts the ladder again.  `taken`, `lost`, `top` and `forgot` are history: orders
per level, lost answers, the highest ROI of any cycle, and whether Redis has lost
the peak.  The ROI is no variable: `Evaluate(roi)` takes any.

**Actions.** `CycleLoads` is `run_tp_sl_once`'s query, `Evaluate` is
`run_for_strategy` with `evaluate_force_stop_loss` and
`evaluate_take_profit_level`: the forced stop loss, `Extremes`, `UpdatePeak`, the
two trailing branches (`Trailing`, `TrailingAnyway`), the level after the one the
status names (`NextLevel`, `Reached`) and its quantity (`RatioOf`, `Floored`,
`WholeIfSmall`, `CloseQty`).  `FindsNothing`, `Mark`, `Place`,
`PlaceUnanswered`, `Refused` and `Busy` are `emergency_close_position` as the job
meets it, `Record` the status it writes at last, `CycleEnds` the rest of the
cycle, at whose end the new `max_profit_pct` is committed only if something else
commits.  `OwnerAdds`, `OwnerForgets`, `OwnerCommits` are `add_position_now` in
its two modes, `OwnerSetsTp1` the threshold endpoint, `StageEnters` the stage
trigger.  `Deliver`, `ReconcileStops`, `ReconcileSyncs`, `ReconcileHandsOver` and
`RedisLoses` are the others.

Simplified, because modelled elsewhere: verification and retry of a close, the
callers' lock and the phases of a reconcile pass (`EmergencyClose`), the steps of
an add or a stage (`StageEntry`, a pending stage counting as open); the two
events of a trade arrive together, and an exit leads to `REENTRY_READY`.  The
strategy is taken to have the stages the second trailing branch asks for.  The
exchange is assumed to accept an order that is not below the minimum or that
closes everything (`Accepts`).  Left out: crisis mode and adaptive thresholds,
which put other numbers in the same places, and the stage-dependent stop loss.

| run (module `MCTakeProfit`) | distinct states | shows |
|---|---|---|
| `take_profit` | 334 819 | `TakenInTurn`, `RetreatIsTaken`, the inductive `TpInv`, and under fairness `FlatEnds` and `LadderIsClimbed` |
| `tp_off` | violation | with TP off, the older trailing branch still closes the rest that two levels left (`TpOffStopsAll`) |

*Bounds.* Two levels, the first of which would close everything (and is put back
to the default ratio) and the second half of the rest.  Four units (eight in
`tp_off`, so that two levels leave a rest that trailing then closes) and a minimum
order of two: the first level closes two, the second would leave less than the
minimum and closes all.  ROI values below the stop, at zero, at and above the
levels.  Two budgets: an add with a loss of Redis, or one each of the other
disturbances.

*Fairness.* The job runs every 15 s (`WF(Job)`), the stream is read, the
reconcile job runs every two minutes, and an add that has begun is served to its
end.  `LadderIsClimbed` speaks of behaviours in which the price stays beyond the
last level from some time on.

**Proved** for any ladder, ratios, quantities, prices and budgets:
`TpInvariant` (`[]TpInv`), `LevelsAreTakenOnce` (`[]LevelsOnce`),
`ImplementsTpLadder` (`TakenInTurn`), `LadderSuffices` (whatever implements
`TpLadder` has `LevelsOnce`) and `RetreatsAreTaken` (`RetreatIsTaken`).  The job's copy may be arbitrarily stale;
what holds is that it is never *behind* (`JobIsAhead`): no level above the one
its status names has been ordered, other than by orders whose answer was lost.
Every write of another status than `TPn_DONE_PARTIAL` starts the counting anew,
and the job itself writes `TPn_DONE` for what it ordered; so whoever writes in
between, the fact survives.  For the peak: while Redis has kept it, the stored
peak is at least every ROI evaluated (`top <= peak`), since `UpdatePeak` never
lowers it and whoever deletes it begins anew.  Only model-checked: `FlatEnds` and
`LadderIsClimbed`, which are liveness.

## 6. Automatic entries (`AutoEntry`)

**State.** `rows`, the strategies there may ever be; what the exchange holds
(`held`) and has ever accepted (`bought`); the advisory `locks` of the families;
the kill `switch`, the `halt`, the `banned` client; `call`, where each job is.
`kept` and `spared` are history: re-entries a passing refusal has kept for
another time, and jobs that had passed the check when the switch came on.

**Actions.** A pass of a signal job or of the re-entry job: the slot check
(`Begins`), `create_strategy_instance` (`CreateLooks`, `AccountAnswers`,
`CreateCounts` under the family's lock, `CreateCommits`), `start_stage1`
(`StartLooks`, `MarginIsSet`, `OrderAnswered`, `StartCommits`), `ReentryDone`.
`Refused` is any refusal with its exception, `OrderUnanswered` a lost answer,
`CleansUp` the removal of a failed signal entry, which first looks for a
residue; `Crash` ends the process.  Beside them positions close, and switch, halt
and ban come and go at any moment.  Signals and the gates that only read are left
out: a gate that refuses is a pass that does not begin.

| run (module `MCAutoEntry`) | distinct states | shows |
|---|---|---|
| `auto_entry` | 929 847 | `FamilyDailyCap`, `SlotBound`, `EntriesAreKnown`, `ReentryOnce`, `EntersByLicence`, and the inductive `AutoInv` |

*Bounds.* One account and one day; a signal job and the re-entry job, three new
strategies in two markets and two families, one slot, one trouble of five kinds.
Two jobs are every race of two, and three strategies one more than the slot limit
lets in; the new strategies are symmetric (of temporal properties only the
refinement's initial state and steps are checked, which treat them alike, so
symmetry is sound).

**Proved** for any jobs, strategies, markets, families, limits and troubles:
`TypeCorrect`, `Invariant` (`[]AutoInv`), `DailyLimit`, `SlotsBounded`,
`SwitchHolds` (`SwitchStops`), `ImplementsEntryLicence` (`EntersByLicence`),
`EntriesStay`, `OneReentry`: every property of the run; and `LicenceSuffices`:
whatever implements `EntryLicence` keeps the limit of every family.  An order the
exchange accepts is an entry of the licence: its job had passed the switch
(`SwitchFits`), no other job knows its row (`IdsDiffer`), it was not bought before
(`CallsFit`), and what is bought is counted (`RowsFit`).  The daily
limit holds because the row is committed before the family's lock is released and
the count is taken under it; the second look in `start_stage1` has no lock and
adds nothing to the argument.  The slot limit has no lock at all: the theorem
says what is left of it, an excess of at most the number of jobs less one,
because a job that has found a slot is one of `Pend` until it takes it.

## 7. The scheduler (`SchedulerLeader`)

**State.** The keys `sched:leader` and `sched:job:*` with their times to live;
for each process whether it waits, is up, was told to stop, or has released the
key; which jobs have passed the leadership check and which are at work.  Time is
counted in heartbeats of 10 s: a leader key lives for 3 of them, a process waits
for 4 (45 s).  A process is started once, since `node_id` holds its start time.

**Actions.** `Start`, `BecomeLeader`, `GiveUp` are `wait_for_leader`;
`Heartbeat` is one turn of the heartbeat loop; `Check`, `Lock`, `Skip`, `Finish`
are `guarded_job`; `Sigterm`, `Release`, `Die` the end of a process.  `Refreshed`
is the Lua script: extend one's own key, take a missing one, unless stopping.
`Wipe` is a Redis that loses its data, `Tick` a period that passes.

| run (module `MCSchedulerLeader`) | distinct states | shows |
|---|---|---|
| `scheduler` | 69 286 | two processes, one wipe, three failed calls (enough for a leader to lose its key to another): `TakesTurns`, `StoppedStaysOut`, `LoneProcessLeads`, `LeaderAgain`, and the inductive `LeaderInv` |

*What `Tick` assumes.* Within a period a process that is up has tried its
heartbeat (the call may fail, and then counts against `MaxFaults`), one that
waits has tried at least once and got an answer (it tries every 2 s), and a job
that is not in `Slow` ends before its lock does.  The last one the code does not
enforce: `acquire_job_lock` is never extended.  A job that outlives its lock can
be at work twice after a take-over; `TakesTurns` and `NoJobTwice` say nothing of such
jobs.  Where Redis loses its locks, `TakesTurns` says what is left: another process
may repeat the jobs that were then at work (`Exposed`), until they end, and no
others.

*Fairness.* Time passes; heartbeats, a waiting process's tries and the end of a
job are fair; a process that was told to stop is killed after its grace time.  No
process need be started, so `LeaderAgain` is about times when one is up for good.

**Proved** for any processes, jobs and times with a patience longer than the
key's life: `TypeCorrect`; `LeaderIsSafe`, i.e. `[]LeaderInv`; `JobsRunOnce`
(`NoJobTwice`); `ImplementsJobTurns` (`TakesTurns`) and `TurnsSuffice` (whatever
implements `JobTurns` runs no job twice while Redis keeps its keys); `AWaiterOutlivesTheKey` (`LoneProcessLeads`);
`TheStoppedStayOut` (`StoppedStaysOut`).  The argument: a
job at work holds its lock (`WorkHoldsLock`), because only time takes a lock away
and a dying process leaves it; and while a process has met no other, nobody
extends the key it waits for, so `left + waited` never grows (`LeftoverRunsOut`).
A process that has released the key takes no missing one: `MayRetake` asks
whether it is stopping.  Only model-checked: `LeaderAgain` (liveness).

## 8. What the code does against its own comments

Two disagreements have a run and are listed under `findings`: a click and the job
enter the same stage (`entry_double`), and trailing with TP turned off
(`tp_off`).  Others were met while modelling; each follows from the actions as
they are, and where a property is named it is defined in the module and TLC finds
it violated when it is put into a `.cfg`.

Ledger
- Fills of one exit at two prices: the difference is priced at the order's
  average (`stream_service.py:404`), not at its own price as the comment at 397
  has it.  `ProfitIsExact` holds with one price per order.
- A fill that arrives before the row of its order is dropped
  (`stream_service.py:41`), and the commissions of an entry's partial fills are
  not deducted.
- If an event older than the last one came again, the row's quantity would go
  back and the next event would be booked twice; the theorems assume that only
  the last event repeats.
- A last fill event that is lost, or one that only a `CANCELED` event follows, is
  never booked: the consumer fetches nothing again
  (`binance_user_stream_consumer.py:111`), and a cancellation raises `executed_qty`
  without booking (`stream_service.py:170`).
- What the repair has counted is booked by nobody (`zombie_guardian.py:1031`): the
  late event finds a difference of 0 and is skipped, with its profit and with the
  status it would have written.
- A repair pass that has used its 20 look-ups marks further rows `CANCELED`
  unasked (`zombie_guardian.py:1009`).
- `stream_service.py:399` and `reconcile_worker.py:239, 251` rely on the PnL
  synchronisation to correct the books, but nothing schedules
  `realized_pnl_sync_worker`: only its own `__main__` imports it.
- The day's row of the loss limiter is unique per account and day (migration
  0003): two sessions that both insert the first one make the second one's flush
  fail, and the event it was booking is lost although the comment near
  `stream_service.py:435` wants the failure isolated.

Closing
- `emergency_close_position` holds its lock for 5 s and sleeps for up to 16 s
  inside, so two closes can overlap (`execution_service.py:397`).  `close_race`
  has both inside and finds nothing worse.
- A failed position query counts as the quantity asked for
  (`execution_service.py:433`): a partial close is then marked as a full one,
  against the comment at 517.
- A failed take profit of everything: `MANUAL_CLEANUP_REQUIRED` is overwritten by
  `COMPLETED` (`tp_sl_orchestrator.py:450`), a terminal status with a position;
  a stop loss writes `STOPPING` or `REENTRY_READY` over it
  (`tp_sl_orchestrator.py:1039`).
- The stop request's last write takes a strategy that the stream has meanwhile
  stopped back to `STOPPING` (`lifecycle.py:809` against the comment at 754):
  `StopKeepsTerminal`.
- `_NOT_FOR_TP_SL` lacks `MANUAL_CLEANUP_REQUIRED`: a strategy that waits for
  its owner is still evaluated by the job, from its first level again.
- A close that fills after it was handed to the owner ends the strategy as
  `REENTRY_READY`, not `STOPPED` (`stream_service.py:377`).
- A strategy that the reconcile job stops because the exchange does not list its
  symbol keeps its LIMIT entry orders (`reconcile_worker.py:255`), and so does one
  whose cancellation failed, which is only logged (`execution_service.py:481`).
- A partial close computed from a row whose account update is on its way, or
  retried while the first order still fills, closes more than its part.

Stages
- A click takes a strategy that was stopped while its order was sent back to a
  pending stage (`StopWins`, against `execution_service.py:1299`), and so does
  the job, which also enters the next stage of a strategy that became `STOPPING`
  after it was loaded (`execution_service.py:380`).
- An order whose answer is lost is placed again: nothing looks for the client id
  first.  A crash between claim and order leaves the claim (`control.py:779`).
- The start request looks at no status (`control.py:26`): pressed on a live
  strategy it enters stage 1 again.  The model starts `WAITING` strategies only.
- For stage 1 the reconcile job takes any position as evidence of the fill.
- A trim that closes less than it was asked to is only reported, and the stage is
  entered on the larger rest (`execution_service.py:1962`).
- The job and a click meet on one stage (`entry_double`), so `StagePlacedOnce` and
  `ClimbsTheLadder` hold only where they do not (`[]Alone`).

Levels
- `_update_peak_pnl` promises that a peak lost with Redis is kept by
  `max_profit_pct` (`risk_service.py:907`); in a cycle that closes nothing and
  alerts nobody no commit follows, and the new maximum is dropped with the
  session: `PeakOutlivesRedis`.
- Fix 187 is skipped when the floor is zero (`close_qty > 0` in
  `tp_sl_orchestrator.py:345`): one step is then ordered, which may be below the
  minimum.  A stale row quantity can leave a rest below the minimum as well.
- After Fix 187 has closed everything, `TPn_DONE_PARTIAL` is written; the
  reconcile job ends the strategy later.
- `add_position_now` looks at no status: an add in the mode "reset" makes a
  completed strategy live again, in the mode "preserve" it gives an ended one a
  position.
- A reset in the middle of the job's cycle: the job's copy puts the old peak back
  into Redis, and its `TPn_DONE` overwrites the reset, so that TP1 is skipped.
- A stage entered after a take-profit keeps the old peak, so that the next TP1
  may be followed by a trailing exit at once (compare
  `execution_service.py:1550`).

Entries
- A halt or a ban after `create_strategy_instance` has committed leaves a
  `WAITING` row; the next attempt meets it as a duplicate and gives the closed
  strategy up for good, although the comment at `auto_reentry_worker.py:189`
  wants the chance kept: `ChanceIsKept`.
- `REENTRY_FAILED`, terminal in `SYSTEM-SPEC.md:178`, is not in
  `TERMINAL_STATUSES`: the duplicate check of `strategy_service.py:172` refuses
  its market and the account's limit counts it: `EndedFreesMarket`.
- A suppressed request is recognised as a ban only where its exception is
  wrapped; at the order it is not, and the strategy is given up
  (`auto_reentry_worker.py:197`).
- Two jobs of different families can both pass the duplicate check
  (`strategy_service.py:155-163`), and `SlotBound` is weaker than the comment at
  `auto_bb_breakdown_worker.py:1429`.
- After a crash before `REENTRY_DONE` the closed strategy is entered again once
  its child is closed; a `WAITING` row with a position is nobody's (`Lost`).

Guards
- Once the day's limit has been breached its row stays `TRIGGERED`: if the owner
  clears the kill switch, no further loss of that day turns it on again
  (`account_daily_loss_limiter.py:75`).
- A ban recorded later for a shorter time replaces a longer one, and a reader
  that has seen an expired ban deletes the one recorded since
  (`api_backoff.py:194`).

## 9. What is not modelled

Prices, indicators and signals are nondeterministic: any ROI may be evaluated, any
gate may refuse.  Rounding to lots and ticks, commissions in BNB, texts, metrics,
the dashboard's health keys and Sentry are left out.  One strategy per symbol and
side: `handle_account_update` matches by symbol and side without the account.
Two settings that are off by default: the scope "ladder" of the account's limit,
which leaves some strategies out of the count (`position_limit.py:115-145`), and
`ALLOW_DUPLICATE_SYMBOL_STRATEGIES`, which drops the duplicate check
(`strategy_service.py:171`).  The clean-up of a failed entry asks for the position
and the open orders and then deletes the row (`auto_bb_breakdown_worker.py:2156-2180`);
`CleansUp` does it in one step, since a signal entry is at market and nothing of
it can fill between the questions.
The chart analysis and the entry signals (the larger part of the code under
`workers/auto_*` and `services/*analyzer*`) are stateless numeric rules over
candles; a bounded model could only repeat them.  The learning, detector, report
and agent parts write rows that no trading decision of these modules reads, and
paper trading shares no state with the real orders.  What remains with state worth
a model, and has none, is the back-off of `core/api_backoff.py`, the day's loss
row of the limiter, the retry of notifications and the idempotency middleware;
`PROJECT.json` lists them with their reasons.

The modules are not composed into one: each takes what its neighbours do as steps
of its own, at a coarser grain (the close inside a trim, the stage beside a
take-profit, the stream beside all).  The product of their states is out of TLC's
reach.

Liveness under fairness is beyond the prover and stays with TLC.  No module
declares a RECURSIVE operator.

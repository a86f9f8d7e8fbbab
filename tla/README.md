# TPT Banking: TLA+ models, model checking and proofs

This directory holds the formal models of the TPT Banking monorepo: TLA+
modules translated from the TypeScript services and the SQL triggers, TLC
configurations that check them on small instances, and TLAPS proofs of the
properties that matter most for every value of the constants.

There are five groups of models:

- the double-entry **ledger** (`JournalService` and the database triggers) and
  the **transfer saga** on top of it, statement by statement;
- **trading** in the investment bank: orders, executions, positions and the
  connection pool they share;
- the **gateway**: payment rails, cards and disputes, open-banking consents and
  tokens, webhooks in and out, idempotency keys, the circuit breaker;
- the **offices**: the services of the prime broker, the treasury, wealth
  management, lending and collections, compliance and regulatory reporting.

## 1. Inventory of the system

### 1.1 Core banking (`apps/banking-core`)

| component | state it keeps | operations | hard behaviour | what makes it correct |
|---|---|---|---|---|
| ledger (`ledger/journal.service.ts`, triggers of `1700000000000-InitialSchema.ts`) | `journals`, `ledger_entries`, the balance columns of `accounts` | `postJournal`, `reverseJournal`; triggers on insert of an entry and on update of a hold | overlapping transactions at READ COMMITTED, row locks in opposite orders, retries with one idempotency key, lost connections | every visible journal balances; a key names one journal; REVERSED and reversal belong together; `available = balance - hold + overdraft` |
| transfer saga (`transactions/saga/transfer.saga.ts`) | `transactions` rows, by idempotency key | `execute` (lookup, insert, validate, hold, post, release, complete), `compensate` | eleven awaited statements that are not one transaction; failing statements, crashes, retries, other sagas on the same account | one saga per key; COMPLETED means the money moved; FAILED means nothing moved; the verdict is final; holds are released |
| accounts (`accounts/accounts.service.ts`) | `accounts` rows: status, hold, balances | `create`, `updateStatus`, `placeHold`, `releaseHold` | read-modify-write without a lock | a hold is released by the amount it was placed with |
| payments (ACH, wire, RTP, SEPA) | one row per payment with a status; holds on accounts | initiate, approve, submit, settle, reject, return | hold, journal and status are separate statements; network answers arrive later | holds are covered by funds and accounted for by payments; a settled payment has moved its money |
| cards and disputes | cards, card authorizations, disputes | issue, freeze, unfreeze, cancel, `processAuthorization`, `clearTransaction`, dispute webhooks and evidence | Stripe and the row are updated in turn; events arrive twice and out of order | row and Stripe agree; a cancellation stands; a dispute has the status of its last event |
| loans, collections | loans, schedule and payments; cases, workout plans | apply, underwrite, disburse, pay; open, act, resolve | one call updates a case and then a loan, outside a transaction | the schedule repays the loan; one open case; a loan in trouble is watched |
| auth, users | users, refresh-token hash, TOTP state | login, refresh, logout, step-up | expiring Redis keys | a rotated or revoked token is worth nothing |
| customers, statements, notifications, health | rows, mail | create and read | single-row updates only | - |

### 1.2 Open banking and integrations

| component | state it keeps | operations | hard behaviour | what makes it correct |
|---|---|---|---|---|
| OAuth2 and consents (`open-banking/.../oauth2`, PSD2, OBIE, FDX) | consents in the database, codes and token pairs in Redis | authorise, exchange, refresh, revoke, introspect, expire | a read, an await, a write: requests overlap at every await | a revocation stands; a code or refresh token is spent once |
| VRP | period totals | pay within limits | limits checked before an await | (no payment is reachable, see 6) |
| webhook delivery | subscriptions in memory, a Kafka topic | queue, deliver, retry, dead-letter, suspend, delete | emit that is not awaited, offsets committed late, crashes, delays | each delivery ends once, at its callback or in the dead letter queue, after all its attempts |
| circuit breaker and provider adapter | state, failure times, opening time | `execute` with retries and timeout | overlapping calls, late failures and successes, probes | an open circuit keeps calls off for its recovery time; it closes when the provider has healed |
| webhook router and event store | one key per event | `route` | the event is marked before its handler runs | a marked event is not handled again |
| idempotency interceptor (`packages/common`) | one cached response per key | `intercept` | the cache is read before and written after the handler | a stored response is replayed, not recomputed |

### 1.3 Markets, treasury, wealth

| component | state it keeps | operations | hard behaviour | what makes it correct |
|---|---|---|---|---|
| orders, executions, positions (`investment-banking`) | `orders`, `executions`, `positions` | place, cancel, modify, `recordFill`, `applyFill`, `applyExecution`, `settle`, `markToMarket` | one fill spans three transactions on up to two connections; fills of different orders meet in one position row; `markToMarket` writes what it computed from an earlier read | quantities add up; every execution is counted; no position update is lost; the pool cannot lock up; marks and fills leave the market figures in order |
| securities lending | loans, buy-ins, corporate actions, availability board | open, return, recall, buy in, manufacture, list | long sequences of partial returns and recalls; clamped quantities | no share is lost from the board; income is complete |
| margin calls | exposure, calls, disputes | calculate, issue, deliver, dispute, resolve, default, cancel | thresholds, minimum and rounding; deliveries against an amount that changes | cured exactly when covered; the verdict stands |
| collateral | assets, pledges, substitutions | register, pledge, release, substitute, optimize | a pledge fails half-way; a substitution settles late | an asset secures one pledge and is never locked away |
| prime accounts | accounts with stored metrics, positions, facilities, rehypothecations | update, draw, rehypothecate, return | stored figures derived from other stores | stored figures are never stale |
| correspondents, nostro, cash pool, FX desk (`treasury`) | messages and exposure; statement entries; balances; deals | send, match, dispute, sweep, book, settle, mark | check and update in different calls; resent statements; rounding | exposure counts what was sent; matches are pairs; sweeps conserve money; a round trip never earns |
| trusts, estates, robo-advisor, private bank, family office, personal office (`wealth-management`) | in-memory stores with stored totals | distribute, account, advance; plan, execute; assign; enforce; add and remove | stored totals and counts against the records they summarize; refused calls that have changed something already | totals follow the records; plans reach their targets; shares stay within the whole |

### 1.4 Compliance and reporting

| component | state it keeps | operations | hard behaviour | what makes it correct |
|---|---|---|---|---|
| SAR, CTR, EDD, CDD, alerts, cases, screening reviews | one row each with a status | approve, file, review, decide, note | find, check and update in separate statements: calls overlap | two officers; a verdict stands; no note is lost; nobody exposed passes without due diligence |
| KYC, screening | verifications and their provider; the records of three searches | start, webhook, review; screen, resolve | calls to a provider between statements; webhooks early, late and twice | an approval has its grounds; one active verification; clear only after all searches |
| transaction monitoring (`AmlService`, `AmlRulesEngine`) | alerts | `monitorTransaction` with six rules | three rules are rejected at their query while the others answer; alerts are saved one by one; a call cut off or repeated | a rejected rule costs no other its alert |
| report scheduler, capital (`regulatory-reporting`) | remembered runs; a report | run, trigger, enable; generate | only the last runs are remembered; floors, bands and rounding | a late report is listed; a capital report agrees with itself |

Also in the repository: `pricing-engine` and `risk-analytics` (numerical code),
`api-gateway`, `web`, and the packages `shared`, `auth`, `kafka`, `telemetry`,
`vault`, `database` (entities and migrations).

### 1.5 How they interact

`TransferSaga` calls `AccountsService` (reads, `placeHold`, `releaseHold`) and
`JournalService` (`postJournal`, `reverseJournal`), each in database transactions
of their own. `JournalService` writes `journals` and `ledger_entries` in one
transaction; the insert of an entry fires a trigger that locks the account row
and writes its balance columns; an update of `hold_amount` fires another trigger
on the same row. The payment rails, cards and loans call the same two services.
So the accounts row is the state shared by every service of core banking,
written by two triggers and by `save()` of whole entities.

Outside core banking the applications hardly call each other: each service keeps
stores of its own, in memory or in its tables, and reads no other's. Those in
memory run every call to its end; those with a database or a provider let other
calls run at every `await`.

Two conventions of the code shape the models. Nothing is locked between two
awaited statements of a service: every read made before an `await` may be stale
after it. And no service resumes work another process left behind: a saga whose
process dies stays where it was.

## 2. Modules

| module | models | source |
|---|---|---|
| `Postings` | the pure part of the ledger: balance check per currency, legs of a reversal, what each trigger does to an account row | `journal.service.ts`, the two trigger functions |
| `Ledger` | `postJournal` and `reverseJournal` as PostgreSQL transactions, one step per statement that another transaction can observe or block | `journal.service.ts`, `1700000000000-InitialSchema.ts` |
| `Books` | abstract specification: a set of journals that grows by one whole, balanced journal at a time; a reversal marks and adds in one step | promise of `JournalService` |
| `TransferSaga` | `execute` and `compensate`, one step per awaited statement; `placeHold`, `releaseHold` and `updateStatus` | `transfer.saga.ts`, `accounts.service.ts` |
| `Transfer` | abstract specification: a transfer is accepted once and then completes with the money moved or fails with nothing moved | promise of `TransferSaga` |
| `Positions` | what one trade does to quantity, average cost, cost basis and realized profit | `positions.service.ts` |
| `Trading` | place, cancel, modify, `recordFill`, `settle`, one step per statement, over the connection pool | `orders.service.ts`, `executions.service.ts`, `positions.service.ts`, `data-source.ts` |
| `Gateway` | composition of `Rails`, `Cards`, `Consents`, `Delivery`, `Breaker`, `Redelivery` | section 2.4 |
| `Offices` | composition of eighteen office modules | section 2.5 |
| `LedgerProofs`, `SagaProofs`, `TradingProofs`, `GatewayProofs`, `DeskProofs`, `ClientProofs`, `OfficeProofs`, `Sums` | theorems and the lemmas they rest on | section 5 |
| `MCLedger`, `MCTransferSaga`, `MCTrading`, `MCGateway`, `MCOffices` | small instances for TLC | section 3 |

### 2.1 `Ledger`

A *request* is one call of `postJournal` or `reverseJournal`. The journal it
inserts carries its name, so journal ids are requests.

| variable | in the code |
|---|---|
| `pc`, `req` | where the call is, and its argument (`dto` or journal id) |
| `row` | committed `journals` rows: absent, POSTED, REVERSED |
| `inserted` | how many `ledger_entries` rows its INSERT has produced |
| `sum` | `v_new_balance` of the trigger that is running |
| `acct` / `wip` | committed `accounts` rows / the version written by the transaction that holds the row lock |
| `owner` | that transaction |
| `answer` | what the caller was told |

| action | code |
|---|---|
| `Post` | `validateBalance`, then the lookup of the idempotency key, both outside the transaction |
| `InsertJournal` | INSERT INTO journals; waits for an open transaction with the same key, fails on a committed one (unique index) |
| `ReadOriginal` | `reverseJournal`: reads the original and checks its status outside the transaction |
| `MarkReversed` | UPDATE ... SET status = 'REVERSED' without a condition on the status, and the insert of the reversal row |
| `TriggerSum` | `SELECT SUM(...) INTO v_new_balance` of the BEFORE INSERT trigger |
| `TriggerApply` | `SELECT ... FOR UPDATE` (waits for the row lock), UPDATE accounts, the row's CHECK |
| `Commit` | the foreign keys and COMMIT, whose acknowledgement may be lost |
| `DeadlockAbort`, `LoseConnection` | PostgreSQL's detector; a connection or process that dies before COMMIT |
| `UpdateHold` | `placeHold`/`releaseHold` of any other service: one UPDATE with its trigger |

Rows that a transaction has written are private until `Commit`; only locks are
visible. That is READ COMMITTED as far as these statements can tell: each
SELECT sees what is committed when it starts plus the transaction's own rows.
The legs of one INSERT fire the trigger row by row, so later legs see earlier ones.

### 2.2 `TransferSaga`

A *call* is one POST of a transfer. Calls with the same key are retries and share
the `transactions` row of that key. `pc[c]` names the statement the call executes
next; the labels follow the text of `execute` (`lookup`, `create`, `begin`,
`validate`, `holdRead`, `holdWrite`, `holdMark`, `post`, `link`, `releaseRead`,
`releaseWrite`, `complete`) and `compensate` (`compensate`, `reverse`,
`unholdRead`, `unholdWrite`, `markFailed`). `Handler` says where an exception
thrown at a statement leads: inside the try block to `compensate`, inside
compensate's own try block to `markFailed`, elsewhere out of the call.

`posted` and `reversed` stand for the ledger (one journal per transfer key, as
`"journal:" + key` is its idempotency key); posting is one step here because
`Ledger` shows that a journal appears whole. `booked` is the sum of the entries of
an account, `acct` its columns; they differ because the trigger is one entry
behind (section 4). `saves` holds `updateStatus` calls between their read and
their `save()`, which writes every column that differs from what was read.

Failures: `Fault` is a statement that fails without effect, a lost
acknowledgement (second disjunct of `Advance`) is one that took effect but
reports an error, `Crash` ends a call for good.

### 2.3 `Trading`

A *request* is one call of `recordFill`, `cancel` or `modify`. A fill takes the
statements `execute` (BEGIN and the insert of the execution), `applyRead` and
`applyWrite` (`applyFill`), `position`, `lock` and `positionWrite`
(`applyExecution`: BEGIN, SELECT FOR UPDATE, write and COMMIT), and `commit`. The
execution is visible once the request is `recorded`; there is no table of its own for it.

| variable | in the code |
|---|---|
| `pool` | `DATABASE_POOL_MAX` |
| `vetted`, `order` | the verdict of `runPreTradeChecks`; the rows of `orders` |
| `position` | the rows of `positions` for one instrument |
| `pc`, `req`, `seen` | where a request is, its argument, what it has read |
| `tape` | history: the trades applied to each position |

| action | code |
|---|---|
| `PlaceCheck`, `PlaceSave` | `place`: the pre-trade checks (lot size, short sales), then the insert as NEW or REJECTED |
| `CancelRead`/`CancelWrite`, `ModifyRead`/`ModifyWrite` | `cancel`, `modify`: the read with its checks, then the update |
| `FillRead`, `InsertExecution` | `recordFill` up to `manager.save` |
| `ApplyRead`, `ApplyWrite` | `applyFill`, on a connection of its own and committed at once |
| `BeginPosition`, `LockPosition`, `WritePosition` | `applyExecution`, a second transaction on a second connection; the unique key refuses a second first insert |
| `CommitFill`, `Settle` | COMMIT of the execution; `settle` |
| `PoolTimeout`, `Fault` | `connectionTimeoutMillis`; a statement that fails without effect |

Connections are counted, not stored: a fill holds one from `applyRead` to `commit`
and a second one at `lock` and `positionWrite`; a statement outside a transaction
needs one to be free. `Exclusive` says that the requests of one order are sent one
after the other, as a venue session does; with `FALSE` they overlap (section 4).
`Positions` treats every side but BUY as a sale, as the code does, and rounds the
average cost to the sixth decimal while the cost basis uses the unrounded one.

### 2.4 `Gateway` and its parts

The parts share no state in the code, so a behaviour of the whole is a behaviour
of one of them while the others stand still. `Gateway` therefore picks one
`part` at the start and lets it run; one TLC run covers all of them without
multiplying their states. Each part is a specification of its own
(`RailSpec`, `ConsentSpec`, ...), and the proofs are about those.

| module | state | actions and the code they stand for | left out |
|---|---|---|---|
| `Rails` | `payment` and `rail` per payment, the account `row`, `clerk` per request between its statements, `calls` (times delivered) | `InitiateWire`, `StartHold`/`ReadForHold`/`WriteHold`/`RecordHold` (approval of a wire or authorization of a card payment around `placeHold`), `SubmitWire`, `CompleteWire`, `Reject`, `InitiateAch` to `CompleteAch`, `SendRtp`, `SettleRtp`, `SendSepa` to `SettleSepa`, `StartClearing`/`ReleaseAndClear`, `Outage` (a process dies between statements). Every rail posts through `Balanced` of `Postings`, with the leg the code gives it | daily limits and Plaid's answers are inputs |
| `Cards` | `card` (status in the row and at Stripe), `dispute`, `events` sent by Stripe, `window` per call | freeze, unfreeze, cancel as read, call to Stripe, update; webhook events handled in any order; evidence; failures at Stripe (with or without effect) and at the row | issuing a card is the initial state |
| `Consents` | `consent`, `pair` (token pairs in Redis), `request` per request between its awaits | `CreateConsent`, `ReadToAuthorise`/`WriteAuthorised`, `FindCode`/`ClearCode`, `FindRefreshToken`/`CheckRefresh`/`DeleteRefreshToken`, `IssueTokenPair`, `Introspect`/`Resolve`/`Serve`, `ReadToRevoke`/`WriteRevoked`, `ReadLapsed`/`WriteExpired`, `RevokeToken`, expiry of codes and consents | PKCE, redirect and scope checks refuse before any state is read |
| `Delivery` | `sub`, `topic`, `unflushed`, `handling`, `outcome` | `QueueDelivery`, `Flush`, `Post`, `PostSucceeds`/`PostFails`/`LastPostFails`, `Requeue` (a message that is not due), `Commit`, `Suspend`, `Delete`, `Crash`, `DeliveryTick` | payloads and signatures |
| `Breaker` | `circuit`, `caller`, `healed` | `Execute`, `AttemptSucceeds`, `AttemptFails`, `LastAttemptFails`, `BreakerTick`, `ProviderHeals` | which provider |
| `Redelivery` | `marked`, `eventCall`; `stored`, `keyedCall` | `DeliverEvent`, `CheckEvent`, `MarkEvent`, `EventHandled`/`EventFails`; `SendRequest`, `ReadCache`, `HandlerAnswers`/`HandlerThrows`, `StoreResponse`; expiry of both keys | signatures: an invalid one changes nothing |

Times in `Delivery` and `Breaker` are ages and waits in ticks, capped where no
comparison in the code can tell two apart. A message on a topic is a record of
event, attempt and remaining wait; a partition is consumed in order.

### 2.5 `Offices` and its modules

`Offices` composes the services in the same way, one `office` per behaviour.
Except where noted, an operation runs to its end without an `await` on shared
state and is one action; its guard holds the checks that throw, in their order.
A refused call is an action only where it changes something before it is refused.

| module | service | state and operations | abstraction |
|---|---|---|---|
| `SecuritiesLending` | `securities-lending.service.ts` | loans, buy-ins, corporate actions, one board entry: open, return, recall, buy in, manufacture and settle a payment, list | income in share-days; one security; two next-state relations: a corporate action asks only whether its loan exists |
| `MarginCalls` | `margin-call.service.ts` | exposure (threshold, minimum, rounding) and calls: issue, deliver, dispute, resolve, default notice, cancel | the initial margin is an input: its models read no state |
| `Collateral` | `collateral-management.service.ts` | assets, pledges, substitutions: register, price, pledge (with its half-way refusal), release, request and settle a substitution; `Optimized` | the list of a pledge is a bag |
| `PrimeAccounts` | `prime-brokerage.service.ts` | accounts with stored metrics, positions, synthetics, facilities, rehypothecations | a position is side and value |
| `Correspondents`, `TreasuryDesk` | the treasury services | messages and exposure; statement batches, manual matches, disputes; balances and the sweep, interest and its allocation; deals at the desk's quotes with their rounding | rates in 0.00001, results in cents |
| `Trusts` | `trust-estate.service.ts` | the life cycle, distributions and accounting of a trust; stages, assets, claims, bequests of an estate | cents; a refused `BOTH` keeps its first half |
| `Marking` | `positions.service.ts`, `instruments.service.ts` | `markToMarket` as read of all rows, lookup of an instrument, write of its row; overlapping calls, price changes and fills in between | a fill is one step, which `PositionSteps` of `trading` shows to be sound; one instrument, because rows share nothing |
| `RoboAdvisor` | `robo-advisor.service.ts` | enrol, holdings, drift, plan, execute | a formatted percentage is a number of basis points |
| `PrivateBanking` | `private-banking.service.ts` | onboard, assets, managers, concierge requests | one capacity |
| `FamilyOffice` | `family-office.service.ts` | policies and violations; distributions; document vault | three next-state relations: the parts share only the group; the clock of the service is UTC (a distribution is dated in UTC, line 440, and its year read in local time, line 450) |
| `PersonalOffice` | `personal-office.service.ts` | net worth; goals with the status computed from the month; beneficiaries and documents | three next-state relations |
| `LoanDesk` | `loans.service.ts`, `collections.service.ts` | apply, underwrite, disburse, pay; cases and plans; the amortization arithmetic with its rounding; calls cut off between case and loan | the calls of one loan follow each other |
| `Filings` | SAR, CTR, EDD, CDD, alert, case and screening-review services | one row; a call finds and checks it (`FindAndCheck`) and updates it (`Update`) in two steps, so calls overlap | all operations share these two steps; `Operations` gives the statuses each requires and sets |
| `Kyc` | `kyc.service.ts`, its two providers, `screening.service.ts` | `KycNext`: each await of starting a verification, of a webhook and of fetching a result is a step; `SearchNext`: the three searches, the jurisdiction, the dates | a check ends passed, unsure or failed |
| `Monitoring` | `aml.service.ts`, `aml-rules.engine.ts`, `aml.module.ts` | the six rules as the module wires them (its engine has no transactions to query, so three of them are rejected at their query), the alerts saved one by one; calls cut off, repeated and overlapping | a transaction is its amount and three flags |
| `ReportScheduler` | `report-scheduler.service.ts` | cron runs, manual runs, enabling, days, restarts; the overdue list | days |
| `Capital` | `basel.service.ts` | one report from tiers, books and income: risk weights, floors, ratios, bands, loss-absorbing capacity | exact fractions for floating point |

History variables (named "history" where they are declared) record what the code
does not keep and a property needs: that two calls overlapped, that a call was
refused half-way, what was paid at the last accounting. They never decide what an
operation does; a guard reads one only to keep a counter within its bound.

## 3. Runs

| run | instance | properties |
|---|---|---|
| `ledger` | 3 requests, all three at a time, 2 accounts, 1 key; opposite transfers and one-legged postings; hold updates; fairness | `TypeOK`, `JournalsBalanced`, `KeyNamesOneJournal`, `ReversalsPaired`, `AvailableFollowsColumns`, `ImplementsBooks`, `RequestsAnswered` |
| `ledger_sum_claim` | 3 requests one at a time; all kinds of entry lists (one-legged, two currencies, zero amount, missing account, one account twice) | `BalanceIsLedgerSum` is violated |
| `ledger_concurrency_claim` | 3 requests, 2 at a time | `ConcurrentInsertsCounted` is violated |
| `ledger_reversal_claim` | 3 requests, 2 at a time | `ReversedOnce` is violated |
| `saga_faults` | a transfer, a retry of it, a transfer back; one fault, one lost acknowledgement, one crash | `TypeOK`, `OneSagaPerKey`, `CompletedMovedMoney`, `HoldsReleased`, `FinalStatus` |
| `saga_atomic` | two transfers from one account; one crash, one status change, no faults; fairness | `ImplementsTransfer`, `TransfersSettle` |
| `saga_hold_claim` | two transfers from one account, nothing fails | `HoldsReleased` is violated |
| `trading` | a purchase and a sale in one portfolio, 3 requests, pools of 2 and of 4 connections, one failing statement; fairness | `TypeOK`, `OrderArithmetic`, `ExecutionsCounted`, `LongCost`, `PositionSteps`, `FillsAnswered` |
| `trading_race_claim` | 2 requests, a pool of 4, nothing fails | `OrdersMatchExecutions` is violated |
| `gateway` | one instance per part; fairness | `GatewayTypeOK`, `PaymentsSound`, `GrantsSound`, `DeliveriesAccounted`, `EveryDeliveryEnds`, `CircuitSound`, `HealedCloses`, `RedeliverySound` |
| `rails_claim` | the payment rails of `gateway` alone, nothing fails; fairness of the calls of a real-time payment | `RtpSettles` is violated |
| `offices` | one instance per office | `OfficesTypeOK`, `LendingSound`, `MarginSound`, `CollateralSound`, `PrimeSound`, `TreasurySound`, `AdviceSound`, `HouseholdsSound`, `DistributionsLeaveBalances`, `LoanDeskSound`, `ComplianceSound`, `ReportingSound` |

The properties of the two compositions are conjunctions, one conjunct per promise;
each conjunct is defined and commented in the module of its service:

| property | conjuncts |
|---|---|
| `PaymentsSound` | `HoldWithinFunds`, `HoldsAccounted`; `CardAgrees`, `StaysCancelled`, `DisputeFollows` |
| `GrantsSound` | `RevocationStands`, `GrantSpentOnce` |
| `DeliveriesAccounted` | `DeadAfterAllAttempts`, `OneLiveMessage` |
| `CircuitSound` | `ClosedBelowThreshold`, `OpenedOnRecentFailures`, `OpeningHoldsCallsOff` |
| `RedeliverySound` | `MarkedIsNotHandled`, `StoredIsReplayed` |
| `LendingSound` | `BoardKeepsShares`, `BoardMatchesLoans`, `IncomeIsComplete` |
| `MarginSound` | `CuredIffCovered`, `ExposureIssuable`, `VerdictsStand` |
| `CollateralSound` | `LivePledgesDisjoint`, `PledgedIsBacked`, `OptimizerFills` |
| `PrimeSound` | `MetricsFresh`, `RehypFlagAgrees` |
| `TreasurySound` | `ExposureCountsSent`, `ExposureWithinLimit`; `MatchedInPairs`, `NoEntryTwice`; `SweepConserves`, `NettingNeverCosts`, `AllocationNearTotal`; `RoundTripsCost`; `FiguresAgree`, `DayCountsOnce` (`Marking`) |
| `AdviceSound` | `PlanFollowsDrift`, `PlanReachesTarget`; `ManagersCounted`, `TotalsAreFirstAssets` |
| `HouseholdsSound` | `PolicyInForce`, `ViolationsShow`, `TotalsFollowPayouts`; `NetWorthFollows`, `StoredStatusIsOld`, `SharesWithinWhole`; `EstateInOrder` |
| `LoanDeskSound` | `ScheduleRepays`, `OneOpenCase`, `TroubleHasCase` |
| `ComplianceSound` | `FiledByTwo`, `RowNamesTwo`, `VerdictsStay`, `NotesKept`, `ExposedNeedsEdd`; `ApprovedOnGrounds`, `OneActive`, `StuckWasAbandoned`, `ClearIsComplete`; `PlainRulesStand`, `AlertsInOrder` |
| `ReportingSound` | `OverdueListed`; `FloorHolds`, `ReportAgrees`, `CapitalHelps` |

Several conjuncts hold only under a condition a history variable records
("no two calls have overlapped", "no settlement came late"). The condition is
where the code does *not* keep the promise; section 4 lists those cases.

**Bounds and why they are enough.** Ledger: three requests are the least for
which a reversal can race another reversal of the same journal, and for which a
third transaction reads what two others left; all three may run at once, so that a
transaction can wait behind a deadlock of two others. One key suffices for a key
to be contended, and calls without a key are part of every run. Two accounts are
the least for opposite lock orders. Amounts 1 and 2 let sums differ. For the saga,
three calls give a retry and a transfer in the other direction at once; one fault,
one lost acknowledgement and one crash in one run combine in any order, and each
may hit any statement. Opening balances of 4 with amounts 2 and 1 allow both
transfers; the validation's refusal is reached when the column lags behind.
For trading, two fills exhaust a pool of 2, each holding a connection and waiting for
another; with 4, two fills contend for one row lock, and a third request meets a pool
they have emptied. A purchase of 4 filled by 1 and 2 leaves an open order with three
filled, so that a modification to 2 must be refused; prices 1 and 2 have averages that
need rounding; the sale may be filled first, which makes the position short. Not
reached by this instance, though modelled: REJECTED orders and orders without a
portfolio.

Gateway: two payments that the account covers one by one, and together only with
its overdraft, two requests at a time, one crash, and each authorization delivered
up to twice. One consent, two requests and two token pairs, the least for two
exchanges, a refresh or a revocation to cross. One subscription, two events, three
attempts with delays 1 and 2, one crash: a retry can be queued behind another
event. Three callers against a threshold of 3, a window of 4 and a recovery of 2
ticks: failures age out, a call that began while the circuit was closed ends while
it is open, and probes overlap. Three deliveries of an event and three requests
with a key: one that sets the key, one that overlaps, one that comes late.
Two calls on a card, three dispute events, one mishap.

Offices: at least two of everything that can compete (loans, pledges over three
assets, accounts, messages, managers, groups, officers' calls, the verifications of a
customer, overlapping handlers), one where nothing competes, and values chosen on both sides of every
threshold: market values that call for margin and for its return, deliveries that
cover a call together but not alone, capital ratios below, inside and above every
band, amounts on either side of 10,000 and of 500,000, loans of one and of two shares so that
returns are partial or full, the same finding against a policy recorded twice, holdings so near a drift threshold that rounding
to basis points decides, loan terms and principals that do not divide. Calendars
run for two to six days, months or years, enough for every gap and deadline in use to
pass. Constants named `Max...`, `Last...` and `Kept...` are bounds (or limits of the code
made small, as their comments say).

`CHECK_DEADLOCK FALSE` stands in the runs of `Trading`, `Gateway` and `Offices`: a desk whose
requests are all over and whose calendar has ended has nothing left to do. Requests
that are stuck before that are caught by `FillsAnswered`, `EveryDeliveryEnds` and
`HealedCloses`. In the saga, `Finished` stutters when every call has ended, so that
TLC's deadlock check reports a saga that stops anywhere else. In the ledger,
`UpdateHold` remains possible; a stuck request is caught by `RequestsAnswered`.

**Fairness.** `FairSpec` of the ledger, the saga and trading assumes weak fairness of
`Step(r)` for each request or call: an awaited statement that is not cut off returns,
and the database's deadlock detector and the pool's timeout fire. Nobody is obliged to
send a request or to change a status, and nothing failing or crashing is ever required.
`Step` of a request that waits for a lock is disabled, so weak fairness does not assume
that locks are granted; that they are follows from the holders' own progress and from
deadlock detection and the pool's timeout: without `DeadlockAbort` or without
`PoolTimeout`, `RequestsAnswered` and `FillsAnswered` fail.
Weak rather than strong fairness is enough, as a lock that has become free stays
free for the waiting transaction in the finite runs a request makes.

`Delivery` assumes that an emitted message is flushed, that the consumer of a
partition goes on (`Consume`: a message is posted, requeued or committed, one way or
another) and that time passes. It does not assume that a callback ever accepts.
`Breaker` assumes that time passes, that clients keep calling (`Execute`), and that a
call to a provider that answers does return; it assumes nothing of the
provider, and `HealedCloses` only speaks of one that has healed for good. `RtpSpec` of `rails_claim`
assumes weak fairness of the two calls that carry a real-time payment on, more than the
code gives: even so the payment does not end. The offices
promise nothing that must eventually happen, so `Offices!Spec` has no fairness.

## 4. What the checks show

### 4.1 What holds

- The books balance: no abort, deadlock or lost connection leaves a journal with
  one side only, and a key never names two journals even when two calls pass the
  lookup together. For readers of committed data the ledger is `Books`.
- In every committed row and every version a transaction has written, the available
  balance is balance less hold plus overdraft, although two triggers write it from
  different columns and a hold can be updated between the two statements of one.
- A saga never runs twice for a key; COMPLETED means a journal that is posted and
  not reversed; verdicts are final (the last two up to the first lost
  acknowledgement: when the acknowledgement of the final update is lost,
  `compensate` runs on a COMPLETED transfer and reverses it). Without failing
  statements the saga implements `Transfer`, whatever processes die.
- Order quantities add up through fills, cancels and modifications that follow each
  other; every execution in the books is counted on its order; no position update
  is lost although fills of different orders overlap. Fills that hold every
  connection of the pool and wait for a second one are released only by the pool's
  timeout, as errors; by then `applyFill` may have committed.
- The holds of the rails and cards are never negative and never more than the
  account could pay, however requests overlap, crash or repeat; without overlap and
  crash they are exactly what approved wires and open authorizations account for.
- A revoked consent is brought back only by a request that had read it before; no
  code or refresh token is accepted once it has produced a pair.
- A webhook that is queued ends at its callback or in the dead letter queue, once,
  after all its attempts, while the process lives.
- An open circuit keeps calls off for the whole recovery time whatever calls are
  still running, a closed one never remembers a threshold of failures, and it
  closes for good once the provider has healed.
- A marked event or a stored response is not carried out again in its 24 hours.
- The board of lent securities keeps its shares; a margin call is cured exactly
  when it is covered; an asset secures one pledge; stored account metrics are never
  stale; sweeps conserve money; a round trip on the FX desk never earns; plans reach
  their targets; stored counts and totals follow the calls; schedules repay loans
  exactly; a suspicious activity report is approved by two officers other than
  its preparer *however calls overlap*; an approved customer was approved on grounds;
  a transaction whose monitoring has ended has the alert of every rule that needs no
  query; a late report is listed; a capital report keeps its floor and rewards capital.

### 4.2 Disagreements with a run

1. *The balance is not the sum of the entries* (`ledger_sum_claim`). The trigger fires
   BEFORE INSERT (line 333 of the migration), so the entry being inserted is not in the
   sum it writes. `account.ledger.spec.ts:155-156` expects 1000 after one CREDIT of
   1000.00, line 267 of the migration says "from ALL ledger entries for that account",
   `account.entity.ts:85` "sum(CREDIT) - sum(DEBIT) of all ledger entries". With requests
   one at a time the column misses exactly one entry (`OneEntryBehind`, theorem
   `SerialBalances`): that is how far it is off, and no promise.
2. *Concurrent inserts are not counted* (`ledger_concurrency_claim`). The SUM is
   read before the account row is locked; the comment at line 271 of the migration
   says that summing "ensures correctness even under concurrent inserts". The claim grants
   the entry of 1: what is missing here is more than that.
3. *A journal can be reversed twice* (`ledger_reversal_claim`): the status is
   checked outside the transaction and the UPDATE has no condition on it.
4. *A hold can stay for ever* (`saga_hold_claim`): `placeHold` and `releaseHold`
   write a value computed from an earlier read.
5. *The first fills of a position race* (`trading_race_claim`): `positions.service.ts:31`
   promises an upsert with advisory locking; the code selects FOR UPDATE, which locks
   nothing while there is no row, and inserts. The second INSERT is refused and its
   execution rolled back, but `applyFill` has committed: an order is filled without
   an execution.
6. *A real-time payment never ends* (`rails_claim`). `rtp.controller.ts:33` has
   "Sub-second settlement, 24/7/365", `rtp.service.ts:108` "For real-time rails, settle
   immediately". `settle` posts a journal with one leg, `validateBalance` refuses it, and
   the payment stays PROCESSING. SEPA (`sepa.controller.ts:40`), wires
   (`wire.controller.ts:77`) and ACH meet the same refusal (`TODO.md:97-99` lists the
   rails as done), and so does the disbursement of a loan (4.3).

### 4.3 Where the code does not keep a promise a reader might expect

These are built into the models; the properties are stated around them, and the history
variables that exclude such an outcome are named in the hazards of `PROJECT.json`.

*Ledger and saga.* The update
to PROCESSING stands before the saga's try block, so its failure is not compensated;
a failure of line 94 keeps the hold and one of line 120 leaves the journal posted
under a FAILED transfer. The currency of the destination is never compared
(`transfer.saga.ts:15` against lines 67-90); `updateStatus` writes stale balance
columns back (`accounts.service.ts:97`).

*Trading.* Overlapping fills of one order both pass the check against `leavesQty` and
one is forgotten; a fill that overlaps a cancel reopens the order
(`Exclusive = FALSE`); BUY_MINUS is booked as a sale; selling from a short position
realizes a profit; `markToMarket` overwrites the total of a fill that lands between
its read and its update, until the next mark or fill; the result of the day such a
mark leaves out is never brought back, and that of a short position has the wrong sign
(`positions.service.ts:160`).

*Rails, cards.* Every rail, loan and card posts a journal with a single leg, which
`validateBalance` refuses: no rail settles (run `rails_claim`). A card payment that was
approved at the processor and is refused its hold is recorded nowhere. `completeWire` looks at no status. The card webhook approves every
authorization and calls neither `processAuthorization` nor `clearTransaction`, which
have no other caller. The webhook answers before the dispute is stored, so an event
whose handling fails is lost; `cardId` of a dispute is never set. A freeze or unfreeze
that has read the row before a cancellation brings the card back. A LOST or STOLEN
card can be cancelled again.

*Open banking.* A consent made by the OBIE or FDX server carries the client `pending`,
so its code can never be exchanged. `RevokeToken` deletes one token of a pair and
leaves the other. FDX revokes without a look at the status. The third retry delay is
never used; the emit of a retry is not awaited, so a crash loses it. The webhook router has no
caller in the applications and the interceptor stands at one controller
(`vrp.controller.ts:49`). The breaker's window is not enforced on failures
(`onFailure` prunes nothing, against the comment at `circuit-breaker.ts:6`).

*Prime broker and treasury.* A `createPledge` that fails has marked the assets before
the failing one; `settleSubstitution` does not check that the pledge still lives or
lists the asset; the credit limit of a correspondent counts no queued message;
`manualMatch` looks at no status; CANCELLED margin calls can change again; the size
of a pip depends on the spelling of the pair.

*Wealth.* A distribution from BOTH that is refused keeps its first half, and an odd
amount loses a cent; tax-loss harvesting tests with `&&` what its comment (lines
533-534) says with "or"; a plan is executed without looking at the drift of today; the
totals of relationship managers follow no update of a client and may turn
negative; the phone line stays as it was at onboarding; `createIPS` takes the old policy out of force
before it validates the new one; a goal without contributions is BEHIND on one path and AT_RISK on
another; net worth adds amounts of different currencies; removing a document ignores its
retention.

*Lending and compliance.* No loan is funded, although `loans.service.ts:114` has "debit
loan-receivable account (asset), credit customer account" and `TODO.md:68` lists
disbursement as done: the journal has one leg and is refused (`NothingFunded`, theorem
`LoansNeverFunded`, a fact about the code against its comment). A loan becomes ACTIVE through the resolution of a case; a
call cut off between case and loan leaves the loan behind, because its retry is
refused. Overlapping approvals can put one officer in both columns, overlapping calls
undo verdicts and lose notes. An Onfido webhook is applied to any pending verification,
whoever its applicant is, and a null result becomes DECLINED; Onfido's `createCheck`
has no caller. A provider that does not answer leaves an INITIATED row that keeps
its customer from starting again; expiry is never checked. Screening and AML use
different country lists. `AmlModule` gives the factory of the rules engine one repository
for two parameters (`aml.module.ts:15-20`), so the engine has no transactions: structuring,
velocity and round amounts throw at their query, `Promise.allSettled` logs it, and only
three rules ever raise an alert. With a repository they would see the transactions *from*
the account only (`sourceAccountId` at `aml-rules.engine.ts:128`, 164 and 216; cash
deposits have it null, `transaction.entity.ts:47-52`), and the velocity count, which has
no upper end and adds one for a transaction it may contain, would alert at ten where the
comment at line 32 and its test say more than ten. `monitorTransaction` has no caller.
Alerts are saved in the order of the rules, so that a call cut off loses the jurisdiction
alert, the most severe, before a cash or wire alert. The AML documentation
lists eight rules of which rapid movement and dormant accounts do not exist; the currency report
is due above 10,000 and the alert from 10,000 on. The overdue metric leaves out
ESCALATED alerts.

*Reporting.* The scheduler keeps 500 runs and makes about 520 a year, so yearly
reports are listed as never run at the year's end; FINRA_TRACE_SUMMARY and
SEC_FORM_N_PORT have no cron handler. `outputFloorApplied` is never true (`basel.service.ts:262-277`), because the
credit book has been floored before; Tier 2 is described as capped at 1.25 % and
is not. The trade life cycle is CLOSED by the state of the last execution alone.

## 5. Proofs

All theorems hold for every value of the constants that satisfies the named
assumptions of the modules (`LedgerConstants`, `SagaConstants`, ...); TLC evaluates the
assumptions on every run. They ask for little: types, that payments, loans, positions,
facilities, messages, verifications, assets, asset classes and managers are finitely many
where sums over them are compared, that there is at least one year, that the exposures,
incomes and charges of a capital report are not negative, and that the word the models
use for "nobody" or "no policy" names no manager and no policy. A theorem with a further
hypothesis says so below.

**`Sums`.** Balances, holds, counts and totals are folds of the community modules,
each a CHOOSE of a function on subsets that meets a recursive equation. `Sums` shows
that such a function exists on a finite domain and that the order of summation does
not matter, each time by picking a smallest counterexample among finite subsets, and
derives what the other modules cite: the sum without one element (`SumWithout`), after
one change (`SumChange`), of naturals (`SumOfNaturals`), of a part (`SumPart`), compared
pointwise (`SumMonotone`), of two functions (`SumPlus`), of multiples (`SumScaled`) and
of a constant (`SumConstant`); `FoldEndsInSum` ties the other spellings of a fold to
`IntegerSum`. Folds of other operations (a sweep over accounts, a statement entered line
by line) exist by `FoldExists`, and keep what each of their turns keeps by `FoldKeeps`.

**`LedgerProofs`**, for any requests, accounts, keys and entry lists:

| theorem | statement |
|---|---|
| `TypeCorrect` | `Spec => []TypeOK` |
| `BooksBalance` | `Spec => []JournalsBalanced` |
| `IdempotentPosting` | `Spec => []KeyNamesOneJournal` |
| `ReversalsArePaired` | `Spec => []ReversalsPaired` |
| `AvailableBalance` | `Spec => []AvailableFollowsColumns` |
| `SerialBalances` | with `MaxConcurrent = 1`: `Spec => []OneEntryBehind`, what becomes of the violated claim `BalanceIsLedgerSum` |
| `Refinement` | `Spec => ImplementsBooks` |

The argument: none of the invariants is inductive. What a commit publishes was
decided several steps earlier, so the invariant `IInv` follows a request through
its transaction: the legs of a request past the balance check are balanced; the
legs of a reversal are the mirror of a journal that was committed when they were
read, and committed entries never change; between `InsertJournal` and `Commit` no
other open or committed request has the same key, because of the index lock; the
number of legs inserted is bounded by the legs, and equal to them at `commit`.
`Balanced` of a mirror follows from the exchange of the two sides. The
available-balance theorem needs the same relation for `wip`, the uncommitted
versions. `SerialBalances` needs `SerialInv`: the sum a trigger has read is that of
everything visible to it, the version it has written misses exactly one of the legs
inserted so far, and an account nobody has locked misses one committed entry. The
hypothesis is needed: with two requests at once more than one entry can be missing, as
`ledger_concurrency_claim` shows. The refinement maps the committed rows
to `Books`; every action but `Commit` leaves them alone, and `Commit` is `Books!Post`
or `Books!Reverse`.

**`SagaProofs`**, for any calls, keys and accounts:

| theorem | statement |
|---|---|
| `TypeCorrect` | `Spec => []TypeOK` |
| `OneSaga` | `Spec => []OneSagaPerKey` |
| `HoldsAreReleased` | with `SourcesApart`: `Spec => []HoldsReleased` |
| `CompletedTransfers` | `Spec => []CompletedMovedMoney` |
| `VerdictsAreFinal` | `Spec => FinalStatus` |
| `AtomicTransfers` | with `MaxFaults = 0` and `MaxLostAcks = 0`: `Spec => ImplementsTransfer` |

The argument: `OneSagaPerKey` with the types is inductive by the unique index.
`HoldsAreReleased` says that, undisturbed, a hold is gone when its saga has ended. It
needs `HoldInv` (between the write of the hold and that of its release the account
holds the amount of the one transfer that debits it, and nothing otherwise) and the
hypothesis `SourcesApart`, that no two transfers debit one account: a hold is read in
one statement and written in another, and `saga_hold_claim` shows the violation when
two sagas share a source. The next two theorems rest on an invariant that ties the
statement a call is at to the row and the journal of its key (past `post` the journal
is posted, COMPLETED is only reached through `post`, `compensate` never follows
`complete`), which holds while every acknowledgement has arrived. The last adds that,
when nothing fails, `compensate` is entered with nothing linked unless the failing
statement was `releaseRead` or later, so a snapshot taken by `compensate` tells the
truth about the journal.

**`TradingProofs`**, for any orders, requests, portfolios, fills and pool sizes:

| theorem | statement |
|---|---|
| `TypeCorrect` | `Spec => []TypeOK` |
| `UpdatesOneTrade` | `Spec => PositionSteps` |
| `OrdersAddUp` | `Spec => []OrderArithmetic` |
| `BooksCounted` | `Spec => []ExecutionsCounted` |
| `CostFollowsMoney` | `Spec => []LongCost` |

The argument: types need `WellFormed`, what a request has established by the time it
reaches a statement (a modification asks for more than it saw filled, so `leaves` is
natural), and that a trade maps typed positions to typed positions on either side of
zero. `UpdatesOneTrade` needs `Locks`: who holds the lock of a row is alone with it and
has seen what the row holds; without a row, only the unique key protects, and the
writer saw none because there is none. `OrdersAddUp` needs `OrderInv`: at most one
request of an order is in flight, and what it has read of the order is still so.
`BooksCounted` adds `CountedInv`: the requests whose execution is in the books are
finitely many, and their quantities sum to no more than the order has counted.
`CostFollowsMoney` needs `CostInv`, which follows the tape of committed trades: while a
position has never been short, its cost basis less the realized profit is the money
paid, up to half a cent for each trade that has been rounded.

**`GatewayProofs`**, for any consents, requests, token pairs, events, subscriptions,
callers, payments, cards and calls:

| theorem | statement |
|---|---|
| `ConsentsTyped`, `GrantsAreSound` | `ConsentSpec => []ConsentTypeOK`, `ConsentSpec => GrantsSound` |
| `DeliveryHolds` | `DeliverySpec => [](DeliveryTypeOK /\ DeliveriesAccounted)` |
| `BreakerHolds` | `BreakerSpec => []BreakerTypeOK /\ CircuitSound` |
| `RemembersTheKey` | `RedeliverySpec => []RedeliverySound` |
| `GatewayTyped` | `Spec => []GatewayTypeOK` |
| `PaymentsHold` | `Spec => []PaymentsSound` |
| `DeliveriesReported`, `CircuitHolds`, `GatesHold` | the properties of the parts, of the whole `Gateway` |

The argument, part by part:

- *Consents.* Neither half of `GrantsSound` follows from a step alone. `GrantInv` adds to
  the types (with pairs stored in the order they are issued) that whoever can still
  write a consent that was revoked was in flight at the revocation and is among its
  `revokedBy`, and that the code or refresh token behind a token pair is spent: a code
  that produced a pair has been cleared from its consent, a refresh token that did has
  left Redis, so no request finds it again.
- *Delivery.* `DeliveryInv` says where the message of a delivery is: exactly one is
  about, in memory, on the topic or in the hands of a consumer, until the delivery has
  ended, as long as no process has crashed; a dead letter has used up its attempts.
- *Breaker.* `BreakerInv` keeps the failures remembered from the oldest to the newest,
  fewer of them than the threshold while the circuit is closed, and says that what a
  call in flight found inside the window has aged no longer than the call has run
  (`CallsAreShort`), and that an opening holds the circuit shut until it has waited
  (`HeldShut`).
- *Redelivery.* `EventInv` and `KeyInv` say that, before the key expires, whoever began
  late began with the mark or response in place, that it is still in place, and that a
  stored response is the body of a request that has been carried out.
- *Rails and cards.* `RailInv` counts the holds: the hold of the account is covered by
  its balance whatever overlaps, and as long as requests follow each other and none
  is cut off it is the sum of the approved wires and open authorizations. It needs
  what each request has read to be still so while it is alone (`OneAtWork`). `CardInv`
  does the same for a card and its disputes: with at most one call between its two
  writes, the row follows Stripe, an ended card or dispute stays ended.
- *The whole.* The parts share no variable; `StepParts` shows from the text of `Next`
  that every step of `Gateway` is a step of each part or leaves it alone, so that
  `GatewayInv`, the conjunction of the invariants, is inductive.

**`DeskProofs`**:

| theorem | statement |
|---|---|
| `TrustsBalance` | `TrustSpec => [](TrustTypeOK /\ DistributionsLeaveBalances)` |
| `MarginCallsSound` | `MarginSpec => MarginSound` |
| `LoansWatched` | `LoanSpec => [](OneOpenCase /\ TroubleHasCase)` |
| `LoansNeverFunded` | `LoanSpec => [](LoanTypeOK /\ NothingFunded)` |
| `SecuritiesLent` | `LendingSpec => [](LendingTypeOK /\ LendingSound)` |
| `PrimeBalanced` | `PrimeSpec => [](PrimeTypeOK /\ PrimeSound)` |
| `ExposureCounted` | `CorrespondentSpec => [](CorrespondentTypeOK /\ ExposureSound)` |
| `NostroReconciled` | `NostroSpec => [](NostroTypeOK /\ NostroSound)` |
| `PoolsKeepMoney` | `PoolSpec => [](PoolTypeOK /\ PoolSound)` |
| `NoFreeRoundTrip` | `FxSpec => [](FxTypeOK /\ RoundTripsCost)` |
| `MarksAgree` | `MarkingSpec => [](MarkingTypeOK /\ MarksSound)` |
| `EstatesOrdered` | `EstateSpec => [](EstateTypeOK /\ EstateInOrder)` |
| `CollateralSecured` | `CollateralSpec => [](CollateralTypeOK /\ CollateralSound)` |

`TrustsBalance` is inductive with the types of the amounts: a distribution from both
takes two halves that differ by the odd cent. `MarginCallsSound` needs `CallInv` (types
and `CuredIffCovered`) and a pair of lemmas on rounding: rounding to a multiple of the
rounding amount takes nothing that reaches a minimum, itself a multiple, below it.
`LoansWatched` rests on `DeskInv`, the two promises with their types, and on one lemma
for the shape all collection calls share (`CaseStep`: a case is set, and then the loan
unless the call is cut off). `LoansNeverFunded` is no promise but what the code does against its comment (4.3). It
needs that there are cases of an application only, which asks for a positive amount (the DTO insists on it): then the
one leg of a disbursement does not balance, and without a schedule a payment finds no
installment. `SecuritiesLent` needs `LendInv`: the board keeps the shares that were
listed, the quantity lent out by the open loans is a sum over them of which every
operation changes one term, and a loan that was never recalled has the income of every
day it was out (`IncomeKept`).
`PrimeBalanced` needs `PrimeInv`: stored metrics equal what would be computed now,
because every operation that changes an input ends with the recalculation, and what
belongs to an account belongs to one that is open.

The treasury: `ExposureInv` says that the exposure is the sum, over all messages, of
what each has added, and that while no two are waiting the one that waits still fits the
limit it was checked against. `NostroReconciled` and `PoolsKeepMoney` are about folds:
each line of a statement, and each account of a sweep, keeps the promise of the loop
(`EnteredOne`, `SweptMoves`), and so does the loop (`EnteredAll`, `SweepFolds`); that
netting never costs and that rounded shares miss by half a unit each are inequalities
between sums. `NoFreeRoundTrip` needs `FxInv`: every deal is at the quote of its pair,
spelling, tenor and side, and has come to what `Result` says of it, settled or marked;
then quotes do not cross (`QuotesApart`) and rounding half away from zero never turns a
loss into a gain (`CentsBalance`). `MarksAgree` needs `MarkInv`: what a call has read
of a position, if no fill has come since, is the quantity and cost the row still has,
and a result of the day that counts each price change once if the row's own does
(`Abreast`).

`CollateralSecured` needs `PledgeInv`, which adds to the promises where the assets of a
pending substitution are: the incoming one is on its way and promised to no other
(`OnTheirWay`). What an optimization posts is a fold over the candidates that takes the
largest haircut first; it keeps `PostedFrom`: what is filled is the requirement or the
worth of all that was offered, whichever is less, and nothing is posted while an asset
with a larger haircut is left.

**`ClientProofs`**:

| theorem | statement |
|---|---|
| `FilesHold` | `FilingSpec => [](FilingTypeOK /\ FiledByTwo /\ RowNamesTwo /\ VerdictsStay /\ NotesKept)` |
| `ExposedAreAssessed` | `FilingSpec => []ExposedNeedsEdd` |
| `CustomersIdentified` | `KycInit /\ [][KycNext]_kycVars => [](ApprovedOnGrounds /\ OneActive /\ StuckWasAbandoned)` |
| `CustomersScreened` | `SearchInit /\ [][SearchNext]_searchVars => []ClearIsComplete` |
| `TransactionsWatched` | `MonitorSpec => [](MonitorTypeOK /\ MonitoringSound)` |
| `PoliciesEnforced` | `FamilySpec => [](PolicyInForce /\ ViolationsShow)` |
| `PayoutsCounted` | `FamilySpec => [](VaultTyped /\ TotalsFollowPayouts)` |
| `NetWorthKept` | `PersonalInit /\ [][NetWorthNext]_wealthVars => []NetWorthFollows` |
| `GoalsNotWorse` | `PersonalInit /\ [][GoalNext]_goalVars => []StoredStatusIsOld` |
| `SharesKept` | `PersonalInit /\ [][HeirNext]_heirVars => []SharesWithinWhole` |
| `PlansReachTargets` | `RoboSpec => [](RoboTypeOK /\ PlanFollowsDrift /\ PlanReachesTarget)` |
| `ManagersAgree` | `BankingSpec => [](BankingTypeOK /\ ManagersCounted /\ TotalsAreFirstAssets)` |
| `OverdueFollows` | `ReportSpec => [](ReportTypeOK /\ OverdueListed)` |
| `CapitalRewarded` | `CapitalSpec => [](CapitalTypeOK /\ FloorHolds /\ ReportAgrees /\ CapitalHelps)` |

`FilesHold` needs `FilingInv`: which call a desk can be in the middle of
(`CallsKnown`), that the columns of the row stand for officers whose approval was
accepted (`DualControl`), and that what a call has read is still so while it is
alone (`WhileAlone`). `ExposedAreAssessed` adds `AssessedInv`: no call but
`completeAssessment` completes anything, and that one leaves no score of 30 or more. `CustomersIdentified`
needs `IdentityInv`, which relates each handler in flight to the verification it read
and every approval to the check, webhook or review it came from;
`CustomersScreened` needs `ScreeningInv`: a search that has passed one list has a clean
result of it. `TransactionsWatched` needs `MonitorInv`: in every call, the rules found
and not yet saved and those saved are together what `Evaluate` says of its transaction,
and none that is saved stands behind one that is not.

The wealth desks: `PoliciesEnforced` adds the types of the rows to the two promises
(`PolicyInv`); superseding takes every policy of the group out of force before the next
is tried (`SupersededIs`), and an enforcement opens a violation for each breach that has
none. `PayoutsCounted` needs `PayoutInv`: the running totals are the sum over the years,
and the year's total is that of the last year with a distribution. `NetWorthKept` needs
`WealthInv`: assets and debts are summed by owner, and a step changes one summand of one
customer. `GoalsNotWorse` rests on `GoalsFade`, that a goal looks no better next
month; `SharesKept` on `HeirInv` and `HeirsMove`, a change of one term of the sum over
the beneficiaries of a rank. `PlansReachTargets` needs that the trades of a plan
come from the holdings it carries (`PlansFromRows`); the rest is arithmetic: each class
is rounded once, the exact trades of all classes cancel, and what is left alone has
drifted by less than the threshold. `ManagersAgree` needs the count of each
manager as a cardinality (`CountsKept`) and the totals as two sums that every
assignment changes alike (`TotalsKept`).

The regulator's view: `OverdueFollows` needs `SchedulerInv`, that the last run of a
report stands in the remembered runs as far from their end as runs came since, or has
been forgotten because as many as are kept came since. `CapitalRewarded` is arithmetic
about sums over a credit book of any length: standardized assets are multiples of 40, so
that the floor is exact and, taken on the credit book first, never bites on the total
(`ReportIs`); a ratio that is met stays met with more capital and with fewer assets
(`CoversMore`), and the payout rises through its bands (`PayoutRises`); a further
exposure adds to both sums (`BookGrows`).

**`OfficeProofs`** lifts these to the whole: `ServicesApart` shows that each step of
`Offices` is a step of the one service the behaviour is about and leaves the others
alone, `ServicesStandAlone` that a behaviour of `Offices` is one of every service, and
`ComplianceHolds`, `TreasuryHolds`, `AdviceHolds`, `HouseholdsHold`, `CollateralHolds`,
`ReportingHolds` and `DesksHold` conclude `Spec => []ComplianceSound`,
`Spec => []TreasurySound`, `Spec => []AdviceSound`, `Spec => []HouseholdsSound`,
`Spec => []CollateralSound`, `Spec => []ReportingSound` and the properties of the desks
of the whole. `OfficesTyped` concludes `Spec => []OfficesTypeOK` from the same
invariants: the types of every service are part of its own.

Only model-checked:

- liveness under fairness, which is out of the prover's reach: `RequestsAnswered`,
  `TransfersSettle`, `FillsAnswered`, `EveryDeliveryEnds`, `HealedCloses`;
- `LoanDeskSound` beyond its three parts proved above: `ScheduleRepays` is about the
  amortization of the loans of the instance, and not true of every loan (at rate 0, a
  principal of 10 over 15 months is repaid before the last installment);
- everything about the violated claims (`BalanceIsLedgerSum`, `ConcurrentInsertsCounted`,
  `ReversedOnce`, `HoldsReleased` with two sagas on one account, `OrdersMatchExecutions`,
  `RtpSettles`).

## 6. Not modelled, and why

`PROJECT.json` lists every component with its status. In short:

- **VRP** (`open-banking`): a payment needs a consent that is AUTHORISED
  (`vrp.service.ts:125`) and no code sets that status, so a faithful model has no
  payment in any behaviour and nothing can be asked of its period limits.
- **pricing-engine, risk-analytics**, the stress scenarios of CCAR, the liquidity and
  interest-rate figures of the treasury: floating-point numerical analysis without
  state.
- **Reports and documents** (FinCEN, FINRA, SEC, statements, the summaries of every
  office): formatted from their inputs, no state.
- **Trade life cycle, trading desk, instruments, portfolios**: they read orders,
  executions and positions, or write single rows; of the instruments only the last
  price is modelled (in `Marking`).
- **auth and users**: password, TOTP and token checks on single rows and expiring keys.
- **PSD2, OBIE, FDX**: only their consents (in `Consents`); the translation of accounts
  and payments between formats is data. The registry of clients is not modelled.
- **Fuzzy name matching** of the screening: string arithmetic.
- **customers, notifications, health, audit, filters, api-gateway, web**, and the
  packages **auth, kafka, telemetry, vault**: no sequence of steps that could go
  wrong.
- Within modelled components: `create` of an account (one insert), the choice of a
  route for a payment in the treasury, record keeping in wealth management that no
  check reads, daily limits and Plaid's answers in the rails (inputs).

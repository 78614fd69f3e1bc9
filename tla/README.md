# A TLA+ model of ffc-pay-processing

`ffc-pay-processing` receives payment requests for farming schemes, works out
what each one changes for the customer, and sends what is to be paid or taken
back to DAX. Everything it does for a request spans several transactions,
several messages and often several hours: a lease on a schedule, a message to
a request editor and its reply, a hold, a rejection by DAX. This directory holds
the TLA+ specification of that machinery, the TLC configurations that check it
on small instances, and proofs checked by TLAPS.

| File | What it is |
| --- | --- |
| `Processing.tla` | the core: intake, schedule table, processing loops, routing, replies, rejections, holds, failures; and its properties |
| `Outbox.tla` | how completed payment requests are sent: snapshot, locks, batches, marking, failures; and its properties |
| `PaymentJobs.tla` | abstract specification: what the `schedule` and `completedPaymentRequests` tables promise together |
| `Delta.tla`, `DueDates.tla` | what an adjustment changes: delta lines, fund codes, ledgers, splits; and when it is due. Pure operators |
| `Adjustment.tla` | the payment history of one agreement, calculated with them; and its properties |
| `RequestTables.tla` | the tables of one request, statement by statement, under five kinds of handler at once |
| `Settlements.tla`, `PaymentHolds.tla`, `SchemeStartup.tla`, `Metrics.tla` | return messages of DAX; holds of users; the table of schemes at start-up; the metrics |
| `BackOffice.tla` | the last five modules as one specification |
| `MCProcessing.tla`, `MCOutbox.tla`, `MCAdjustment.tla`, `MCBackOffice.tla`, `MC*.cfg` | small instances for TLC |
| `Processing_proofs.tla` | type correctness; a loop or a receiver works on a schedule of its own request; leases are exclusive in an agreement and are taken in order; `Processing` implements `PaymentJobs`, and what follows from it |
| `PaymentJobs_proofs.tla` | the inductive invariant of the abstract specification |
| `SumTheorems.tla` | sums over finite sets: the order of the terms is of no account; the least of some numbers |
| `Payment_proofs.tla` | one open schedule; what is paid: once, what was claimed, nothing back unchecked; held agreements are answered |
| `Adjustment_proofs.tla` | what an agreement was paid and owes, however its claims are split |
| `Outbox_proofs.tla` | nothing is marked unsent; nothing is sent again but for failures |
| `RequestTables_proofs.tla` | the invariants of the tables of one request: types, locks, holds, removal, requests, lines, schedules, payments, and what bounds their types |
| `BackOffice_proofs.tla` | what follows from them; the newest settlement wins; a scheme has its categories and what is marked was announced; a bulk removal of holds is complete; the metrics queue has one loop, its figures count every request and its answers add up; every component keeps its types |
| `PROJECT.json` | components, runs, source map, hazards, findings, theorems |

Source paths below are relative to `src/`.

## 1. Inventory

The service is one Node.js process per pod. `app/index.js` starts an HTTP
server, the Service Bus receivers and two endless loops, `processing.start()`
and `outbound.start()`; both call themselves again with `setTimeout` in a
`finally` clause. All state that outlives a request is in PostgreSQL. The Helm
chart runs one replica (`helm/ffc-pay-processing/values.yaml:22-23`), but a roll
out overlaps two, and the code leases its work as if there were many.

| Component | State it keeps | Operations | What makes it hard |
| --- | --- | --- | --- |
| Intake (`app/inbound`, `process-payment-message.js`) | `paymentRequests`, `invoiceLines`, `schedule` | save a new request and schedule it in one transaction; ignore a known invoice number | two deliveries at once; delivery again after a lost completion |
| Schedule table (`constants/get-scheduled-payment-requests-query.js`, `processing/scheduled`, `reschedule`) | `schedule.started`, `schedule.completed` | claim a batch (five-minute lease, one per agreement, in order, capped, not held); `ensureScheduled`; `abandonSchedule` | leases that lapse under a working loop; NULLs; order |
| Processing loop (`app/processing`) | the batch, in memory | read the batch, transform, route or complete each request | the data was read before; an error ends the batch; two pods |
| Delta and ledgers (`processing/delta`, `dual-accounting`) | none | subtract what was paid; split into AP and AR; split zero-value requests; fund codes | sums must agree to the penny; settlements overtake reductions |
| Due dates, enrichment, closures (`due-dates`, `enrichment`, `is-agreement-closed.js`, `suppress-ar-payment-requests.js`) | `frnAgreementClosed` | spread a reduction over what is left of a schedule; name the settlement that a debt corrects; suppress debts of closed agreements | settled and unsettled instalments; SFI23 advances |
| Account codes (`account-codes`) | none | look up the code of a line | |
| Debt enrichment (`routing`, `process-quality-check-message.js`) | `debtType`, automatic hold, two topics | send for debt data, hold, save the reply, free the hold | message before transaction; reply in two statements |
| Manual ledger check (`routing`, `process-manual-ledger-check-message.js`) | automatic hold, two topics | send for a check, hold, pay what was confirmed | as above, and the reply itself pays |
| Automatic holds (`app/auto-hold`) | `autoHolds` | open, close, look up | one hold stops the whole agreement |
| Payment holds (`app/holds`, `server/routes/holds.js`) | `holds`, `holdCategories` | add, remove, bulk add and remove | the bulk inserts are not awaited |
| Outbox (`app/outbound`, `messaging/service-bus`) | `outbox`, `completedPaymentRequests.submitted` | lock a batch, send it, mark it | sent and not marked; voided and sent |
| Acknowledgements (`app/acknowledgement`) | `acknowledged`, `invalid` | acknowledge; on a rejection void, hold and reschedule | a rejection of what is being processed again |
| Reset (`app/reset`) | as above | void and reschedule by invoice number | over HTTP it runs without a transaction |
| Settlements (`app/settlement`) | `settledValue`, `lastSettlement` | apply a settlement | older after newer |
| Cross border (`routing/*cross-border*`) | automatic hold, invoice lines | send lines out, take the answer | hold closed outside the transaction |
| Schemes (`app/schemes`, `update-schemes-database.js`) | `schemes`, `holdCategories`, `autoHoldCategories` | add at start-up, with hold categories and an announcement | two pods at once; a pod that stops half-way |
| Retention (`app/retention`) | all tables | delete an agreement's data | order of deletions |
| Metrics (`app/metrics`) | queue in memory, `metrics` | calculate and serve | requests for what is queued or running |
| Transport, events, configuration | | | I/O, formatting |

How they meet: intake writes the schedule row that the loop claims; the loop
writes the rows the outbox reads, or sends a message and writes the hold that
the claim query reads; a reply closes the hold, and for a ledger check also
completes the schedule the loop would otherwise complete; a rejection voids
rows the delta calculation reads, and frees or makes the schedule. The two
tables `schedule` and `completedPaymentRequests` are where everything
meets, so they have a specification of their own.

What has to be true, component by component:

- *Schedule and completion*: a schedule is paid once; a saved request is never
  without both an open schedule and a valid payment. With one pod and without
  ledger checks, no request has two open schedules, and no customer is paid
  twice unless a payment overtakes a rejection (section 6).
- *Claiming*: two requests of an agreement are never leased at once, and never
  in the wrong order.
- *Delta*: what was paid on an agreement adds up to the latest value.
- *Debt enrichment*: an agreement on hold for debt data has an answer coming.
- *Ledger check*: with the check on, money is taken back only as confirmed.
- *Everything*: a request is paid in the end, unless its account is on hold.
- *Outbox*: what is completed is sent, at least once, once when nothing fails.
- *Adjustments*: however a claim is split, what is paid and taken back adds up
  to it, every row to its lines, and nobody is asked for more than they owe.
- *Tables of a request*: an accepted request is complete; a rejected one is on
  hold; a void payment is scheduled again; its lines are those of one message;
  deletion respects the foreign keys.
- *Settlement*: the newest settlement wins. *Holds*: what a bulk removal
  found is not listed any more. *Schemes*: what is marked was announced. *Metrics*:
  requests are counted once, and every client gets an answer.

`PROJECT.json` lists under "hazards" the lines where each of these can go wrong.

## 2. The core, `Processing.tla`

### State

| Variable | In the code |
| --- | --- |
| `saved`, `debt` | rows of `paymentRequests`; those with `debtType` set |
| `schedule` | rows of `schedule`: request, lease, completed. `started` is abstracted to what the claim query can tell: `free` (null), `live` (less than five minutes old), `lapsed` |
| `completed` | `completedPaymentRequests` with its outbox row: value, `invalid`, `submitted` |
| `hold`, `autoHold` | open rows of `holds` (by account) and of `autoHolds` (by `HoldGroupOf`: BPS by customer and year, others by agreement) |
| `phase`, `batch`, `seen`, `job` | where the loop of a pod is, and the values it holds in memory: the claimed schedules, the debt types it read, the request in hand with its delta and, while it is being held, with the schedule that was looked up (`found`) |
| `debtTopic`, `debtReplies`, `ledgerTopic`, `ledgerReplies` | messages to and from the request editor. Sets: the same message sent twice while the first is under way has no effect of its own, and a reply stays until it is completed |
| `enriching`, `confirming`, `rejecting` | a receiver between two statements of its handler; the transaction of a rejection |
| `overtaken` | not in the code: the requests of which a payment overtook a rejection. Properties read it, no action does |
| `failures`, `rejections` | counters that bound failures and rejections |

### Steps

A step is what the database or the broker makes atomic: a transaction, an
autocommitted statement, one message sent or completed. Handlers with several
of them are several actions, so that other pods, receivers, replies and crashes
fall in between.

| Action | Code |
| --- | --- |
| `SavePaymentRequest` | `inbound/save-payment-request.js`: one transaction |
| `ClaimSchedules`, `ReadBatch` | `processing/scheduled`: the serializable claim and the read after it |
| `TransformPaymentRequest` | `transform-payment-request.js`: the delta against what is paid now |
| `SendForDebtData`, `LookUpSchedule`, `HoldForDebtData` | `route-debt-to-request-editor.js`: message, then a transaction that looks up a schedule before it writes |
| `SendForLedgerCheck`, `LookUpSchedule`, `HoldForLedgerCheck` | `route-manual-ledger-to-request-editor.js`: the same |
| `FinalizePayment` | `complete-payment-requests.js`: one transaction that pays only if it completes the schedule |
| `UpdateDebtData`, `RemoveDebtHold` | `update-requests-awaiting-debt-data.js`: two statements, then the message is completed |
| `GetScheduleId`, `CompleteConfirmed`, `RemoveLedgerHold` | `update-requests-awaiting-manual-ledger-check.js`: three statements, then the message is completed |
| `Publish` | the first sending of a row; how rows are sent is `Outbox.tla` |
| `ResetPaymentRequest`, `LookUpAgain`, `ProcessInvalid` | `acknowledgement/process-invalid.js`, a transaction at READ COMMITTED: it voids the payments and looks up a schedule; frees what it found or, if that was completed meanwhile, looks up another while it holds the account; commits |
| `AddHold`, `RemoveHold` | `server/routes/holds.js` |
| `LeaseLapses` | `started <= now - 5 minutes` in the claim query |
| `BatchFails`, `EnrichmentFails`, `ConfirmationFails`, `RejectionFails`, `PodRestarts` | the `catch` of the loop, the `catch` of each receiver, a rollback, a restart |
| `EditorAddsDebtData`, `EditorConfirmsLedger` | external: the request editor, known by its topics |

### Abstractions

- A transaction is one step where nothing it read before can be out of date when
  it writes. `ensureScheduled` reads and then writes at READ COMMITTED, and no
  index forbids a second open schedule, so the look-up (`GetExistingSchedule`)
  and what follows from it (`EnsureScheduled`) are two steps, in a rejection as in
  a hold, and anything may commit in between. A rejection looks twice
  (`reset-payment-request-id.js`, `hold-and-reschedule.js`). The second look finds
  what the first left, unless what the first had found has been completed; only
  then is it a step of its own (`LookUpAgain`). A lease taken between the two and
  ended by the second is a lease that lapses. `ResetPaymentRequest` waits for a
  rejection of the same request under way: both update its `paymentRequests` row.
  Every other statement of these handlers is a step of its own in
  `RequestTables.tla`.
- Three keys are told apart. Schedules are leased by agreement (`AgreementOf`:
  customer, scheme, year and agreement number). Earlier payments are looked up by
  claim (`ClaimOf`, `get-completed-payment-requests-filter.js`): BPS by customer and
  year; CS by customer and contract, A0 read as A, whatever the year and the
  agreement number; others by agreement. Automatic holds apply to a hold group
  (`HoldGroupOf`): BPS by customer and year, others by agreement. Two agreements
  of one claim are therefore leased side by side, and each is compared with the
  payments of both.
- `Number` is the number a request arrives with. That a BPS request numbered 1 is
  given the next number (`confirm-payment-request-number.js`) is in
  `Adjustment.tla`.
- A request's value is one integer, the new total of its agreement, and a
  completed row stands for all AP and AR rows saved by one completion. Whether
  part of an adjustment goes to the AR ledger depends on settlements, and is
  left open (`recovers`), limited to adjustments that are not zero.
- Ledger replies return the allocation that was proposed.
- Debt replies carry debt data for a known invoice; others are dead lettered and
  leave the hold in place.
- An agreement has a contract number on all its requests or on none.
- Left out here and modelled elsewhere: closures, the renumbering of BPS
  requests, and requests whose lines cancel out or are all zero
  (`Adjustment.tla`); cross-border requests and the HTTP reset
  (`RequestTables.tla`). The automatic-hold switches
  are off, as they are shipped (`app/config/processing.js:22-25`); what they do when
  they are turned on is left out, and so are schemes without post payment
  adjustments.

## 3. The outbox, `Outbox.tla`

`publishPendingPaymentRequests` is one transaction around messages that cannot
be taken back. `saved` and `submitted` are the outbox rows that exist and those
that are marked; `pending`, `locked` and `unsent` are what the transaction of a
pod saw, locked and has still to send; `sent` counts the messages at DAX.

| Action | Code |
| --- | --- |
| `CreateOutboxEntry` | committed with the completion, `complete-payment-requests.js` |
| `SelectPending`, `LockPending` | the query of `get-pending-payment-requests.js`: its snapshot, and the locks it takes afterwards. At READ COMMITTED PostgreSQL looks at a row again once it is locked, which is why a row marked in between is dropped; the module splits the query to show that this is needed |
| `SendMessages` | one batch of `send-batch-messages.js`; `retry` sends it again when its confirmation is lost |
| `UpdatePending` | `update-pending-payment-requests.js` and the commit |
| `RunFails` | the rollback, by an error or by a connection that dies with its pod |

`LIMIT` counts joined invoice lines, so a run may take any number of rows up to
the cap, but at least one if there is one. Every message fits in a batch.

## 4. Adjustments, `Delta.tla`, `DueDates.tla`, `Adjustment.tla`

`Delta` and `DueDates` hold the calculation as operators, one for each function
of `processing/delta`, `processing/dual-accounting` and `processing/due-dates`.
Values are pence. The lines of a request are a function from what the code
groups them by, their type and fund code, to a value. Where the code's result
depends on the order of lines, or on whether a share that is a whole number of
pence falls just below it in floating point, an operator returns the set of
outcomes.

`Adjustment` is the history of one agreement, or of the agreements that earlier
payments are looked up by as if they were one (`ClaimOf`, section 2), in which each
calculation finds what the ones before it and the settlements since have left:
`claims` came in, `rows` are its `completedPaymentRequests`, `waiting` is an
adjustment that is with the request editor, `closed` and `now` are closure and
calendar.

The number that a request comes with (`IncomingNumbers`) is the next one where a
claim is one agreement, whose requests are leased in order. Where it may be
several, for BPS and CS, it is any number up to the next: each agreement counts
for itself. `confirm-payment-request-number.js` gives a BPS request numbered 1 the
next number, and keeps every other. A request that keeps a number that a paid one
has, or a lower one, is compared with the payments below its number only, and the
code promises little from then on: `reused` remembers it.

| Action | Code |
| --- | --- |
| `FirstPayment` | a request nothing was paid before: `confirm-payment-request-number.js`, `map-accounting-codes.js` for the fund codes, `complete-payment-requests.js` |
| `AdjustPayment` | the same with `transform-payment-request.js`: `CompleteAdjustment` at once, or `RouteManualLedgerToRequestEditor` |
| `UpdateRequestsAwaitingManualLedgerCheck` | the editor's reply, with due dates and enrichment worked out again |
| `UpdateSettlementStatus`, `InstalmentDate`, `AddClosure` | DAX settles; time passes; the agreement is closed |

A date is the number of an instalment. Account codes, delivery bodies,
agreement numbers of lines and state aid are left out: they sort lines into
more groups, none of which the properties tell apart. A closed agreement stays
closed. Debt data of a recovery is taken to be there: asking for it is the
core's subject. Allocations are confirmed as proposed.

What the calculation does that a reader may not expect, and no property
contradicts:

- An SFI23 reduction sent to the editor after an advance has its dates moved
  twice (`routing/reset-due-dates-for-sfi23.js`); once all dates have gone by, its
  due date is reset and its schedule is not. `EndsWithSchedule` excepts SFI23.
- A nil adjustment of an agreement with a debt goes to the AR ledger with value
  0 (`assign-ledger/update-payment-request-ledger.js:5`), and, coming from Siti
  Agri, is sent for debt data.
- In `delta/calculate-line-deltas.js:20` the account code of a new line and that
  of an old one are chosen by precedence of operators.

## 5. Around the loop, `BackOffice.tla`

Five modules share one specification and one run. They share no state that a
property here speaks of, so a behaviour follows one of them (`part`); this keeps
their state spaces added and not multiplied.

**`RequestTables`** takes one payment request and one agreement. A handler is a
list of statements (`Program`), and a statement is a step: it sees what was
committed before it (`View`), waits for rows that another transaction has
written (`Blockers`), and fails on the unique index of the invoice number
(`InvoiceNumberTaken`, changelog 1.89), on a foreign key (`BreaksReference`,
changelog 1.77), in a deadlock, or in an outage. An error rolls back what the
transaction has written (`RollBack`); statements outside a transaction
(`InTransaction`) stay.

| Program | Code |
| --- | --- |
| `SavePaymentRequest` | `inbound/save-payment-request.js`; left on its queue when it fails |
| `ResetPaymentRequestByInvoiceNumber` | `reset/`, over HTTP, without a transaction |
| `ProcessInvalid` | `acknowledgement/`: the row is acknowledged first, then one transaction resets, holds and reschedules |
| `UpdateRequestsAwaitingCrossBorder` | `routing/`: the lines are replaced in a transaction, the hold is closed outside it, an error is swallowed |
| `RemoveAgreementData` | `retention/`: the deletions in their order; dead-lettered when they fail |

`ProcessPaymentRequest`, `SendToCrossBorder` and `HoldForCrossBorder` are the
payment loop, which is `Processing`'s subject: completion is one step.

**`Settlements`**: return messages in any order, each perhaps delivered again,
to two receivers that look a payment up in one statement and update it in
another. **`PaymentHolds`**: the routes of `server/routes/holds.js`; the inserts
of a bulk addition happen after its answer (`SaveBulkHold`), a bulk removal looks
up and closes customer by customer, and the list shows what is open (`GetHolds`).
The list's order and pages are left out: `get-holds.js` asks for no order and runs
both queries again for each page, so that a hold may come on two pages or on none,
and there is no promise to check. **`SchemeStartup`**: `update-schemes-database.js` in two pods
that start at once and may stop at any statement. **`Metrics`**: the nightly run,
period by period and row by row (`StartRun`, `CalculateMetricsForPeriod`,
`SaveMetric`, `RunFails`); the queue (`Enqueue`, `CalculationEnds`, `PauseEnds`); and the
route with its two queries (`HandleMetricsRequest`, `FetchSnapshotDate`,
`FetchMetrics`).

What the models show that no text in the repository contradicts, so that it is
not listed as a finding:

- A reset over HTTP that fails half-way leaves a void payment and no schedule
  (`halfReset` in `VoidedIsRescheduled`).
- A cross-border reply that fails is completed all the same, and the request goes
  to the engine again; one that comes before the hold is saved leaves it open.
- Settlements of ES and FC update every completed payment of the agreement.
- A pod that stops between adding a scheme and its categories leaves it without
  them for good (`update-schemes-database.js:34`), and two pods may add them twice.
- Nobody awaits the inserts of a bulk addition (`add-bulk-hold.js:5`) and
  `app/index.js` handles no rejection, so that one that fails ends the process and
  with it the inserts that are left; the `open` parameter of `GET /payment-holds`
  is a string, so `false` filters too.
- Figures for ytd, month, week and day are grouped by year and month and saved
  under one key, so the last group stays; holds are grouped by month always, so
  figures for a year or all time have none. During a run, an answer lists
  only the schemes saved so far.
- `app/index.js:10` passes a list of signals to `process.on`, which takes one: a
  pod is stopped without its handler. The models let it stop at any step.

## 6. Properties and runs

All properties are at the end of their modules, each with the code it is about.

| Run | Instance | Checks | States |
| --- | --- | --- | --- |
| `pod` | one pod, two requests of an agreement and one of another, same account, claims one at a time; one failure, two rejections; no ledger check | `TypeOK`, `OneOpenSchedule`, `NoDoublePayment`, `TotalIsLatestValue`, `DebtHoldIsAnswered` | 3.4 M |
| `overlap` | two pods, the same three requests in any order, claimed one at a time, prompt editor, one rejection | `PaidOncePerSchedule`, `NoRequestLost`, `OneLeasePerAgreement`, `LeasedInOrder`, `ImplementsJobs` | 2.1 M |
| `ledger` | one pod, two BPS agreements of a customer (one claim and one hold group) with a request each, ledger checks on, prompt editor, one failure, one rejection, operator holds | `PaidOncePerSchedule`, `LedgerCheckNotBypassed` | 6.1 M |
| `live` | the same agreements, no ledger check, claims one at a time, fairness, two failures, one rejection, operator holds | `EventuallyPaid` | 88 k |
| `publish` | two pods, four rows, three a run and two a batch, three failures | `TypeOK`, `MarkedWereSent`, `ResentOnlyAfterFailure` | 89 k |
| `publish_live` | two pods, three rows, two a run and one a batch, fairness, two failures | `EventuallySubmitted` | 40 k |
| `adjust` | four schemes, three requests, numbered in order or again, with a gross line and a penalty, four instalments or none, settlements, closure, ledger checks | `TypeOK`, `ClaimIsPaid`, `RowsSumTheirLines`, `DebtNotOverpaid`, `SentUnlessZero`, `DebtFollowsSettlement`, `EndsWithSchedule`, `OneDomesticFund`, `CheckedIfLowered` | 3.0 M |
| `backoffice` | three handlers of nine on one request; six return messages; three holds; two pods and two schemes; three clients, two nightly runs | `TypeOK`, `AcceptedIsSaved`, `LinesOfOneReply`, `RejectedIsHeld`, `VoidedIsRescheduled`, `RetentionFailsOnlyIfRaced`, `SettledByNewest`, `RemovedIsUnlisted`, `MarkedIsAnnounced`, `CategoriesForEveryScheme`, `OneCalculationAtATime`, `SavedIsCounted`, `TotalsMatchSchemes`, `EveryCallerAnswered` | 0.5 M |
| `paid_twice` | one pod, ledger checks on, one failure | `TotalIsLatestValue` is violated | |
| `no_contract` | one pod, agreement without a contract number, one failure | `OneRequestInProcess` is violated | |
| `early_reply` | one pod, prompt editor, no failure | `DebtHoldIsAnswered` is violated | |
| `overdrawn` | an SFI agreement paid at once, three requests, no ledger checks | `RecoveryWithinBalance` is violated | |

The last four are findings:

1. `paid_twice`. A batch fails after the ledger check has been sent and before
   the hold is saved. The request is claimed again and the check sent again. The
   first reply completes the schedule; the loop, which still holds the request,
   calls `ensureScheduled` and makes a new one; the second reply finds it and
   pays the same adjustment once more.
2. `no_contract`. The claim query recognises a request in process by comparing
   contract numbers with `=`. `contractNumber` is optional, and NULL equals
   nothing, so the guard never applies to such an agreement.
3. `early_reply`. The message to the editor goes out before the hold is
   committed. A reply handled in between finds no hold; the hold committed
   afterwards is never closed.
4. `overdrawn`. A payment of 10 is reduced to 5 before anything is settled, so
   the reduction goes to AP; then DAX settles the 10. More is settled on AP than
   is due, and the balance is -5. The code takes it without its sign
   (`Math.abs`), so a second reduction finds 5 to cover it and goes to AP too,
   where the repository's `README.md` would have it raise a debt.

### What the conditions of the passing runs say

`OneOpenSchedule`, `NoDoublePayment`, `TotalIsLatestValue` and
`DebtHoldIsAnswered` are checked for one pod without manual ledger checks, and with
an editor that answers after the hold has been saved. Findings 1 and 3 are what
happens without these conditions. The schedule that finding 1 makes is also the
second open one, and two pods may each look, find none and make one.

`NoDoublePayment` excepts the requests in `overtaken`. A rejection looks up an open
schedule of a request that is being processed again; its completion commits;
`abandonSchedule` then waits for that and updates no row; `holdAndReschedule` looks
again, finds no open schedule and makes one. The payment that was just completed
stays valid, and once the hold is lifted the request is paid again. One pod is
enough, and `pod` finds it if the exception is dropped. Nothing in the repository
says that this cannot happen, so that it is not listed as a finding.

`TotalIsLatestValue` speaks of agreements with a contract number (finding 2), of
requests that arrive in order, of histories without a rejection (voiding an
earlier payment changes what later ones should have been), and of agreements that
are a claim of their own. BPS and CS requests of several agreements are leased
independently of each other, and so their deltas may be calculated at once, each
without the other.

`PaidOncePerSchedule`, `NoRequestLost`, `OneLeasePerAgreement`, `LeasedInOrder` and
`ImplementsJobs` hold without any such condition, and are proved. The lease keeps
two requests of an agreement from being leased at once; it does not keep two
deltas from being calculated at once, since a pod goes on when its lease has
lapsed.

In `adjust`, `ClaimIsPaid`, `DebtNotOverpaid` and `CheckedIfLowered` are promised
until a request keeps a number that was used (`reused`): the payments it is not
compared with are then paid once more, or not taken back. The other properties of
the run are checked of every history.

`EndsWithSchedule` excepts SFI23 (section 4). `CheckedIfLowered` speaks of open
agreements, and `ClaimIsPaid` adds what a closure suppressed. `VoidedIsRescheduled` excepts resets over HTTP that were cut
short, `CategoriesForEveryScheme` pods that stopped before they had added the
categories, and `RetentionFailsOnlyIfRaced` outages: there the code has nothing
that would make up for them.

### Bounds

`MaxSchedules` bounds the rows of the schedule table: one for each request, and one
or two that a rejection or a rescheduling adds (`overlap`: with all three requests
saved, none). `MaxFailures` counts failed batches, restarts, dead letters
and lost completions together; the shortest wrong history known needs one, and
two allow a failure in the recovery from another. One rejection is enough to pay
a request twice, before and after it; two let one meet what the other has
rescheduled. Two requests of an agreement show every
order and every overlap that the claim query distinguishes (first, second,
same); the third request shares only the account. With a cap of one
(`ProcessingCap`) a claim leaves work behind in `pod`, `overlap` and `live`; in
`ledger` the cap takes both requests in one batch. Values are chosen so
that the second request takes back part of the first, which is what all routing
decisions turn on. Two pods are enough for one to lose its lease to the other,
and for one to lock and mark what the other saw as pending; with two batches a
run, a run may fail after the first, and four rows leave some to the other pod.

`adjust`: three requests give a payment, an adjustment, and an adjustment of
what was split, or for BPS and CS a second payment beside the first; values of 5 and 10 pence with a penalty of 5 make shares that
are not whole pence, lines that cancel out, and nil adjustments; four
instalments are those of SFI, and the calendar (`LastDate`) runs to the last. The
check is on, which makes an adjustment wait; top ups still complete at once.

`backoffice`: `MaxTasks` is the number of handlers in one behaviour. Three of
nine, in all choices, give every pair of kinds, two of one kind against a third,
and cycles of three transactions that wait for each other; one outage
(`MaxOutages`) is enough to cut any of them short. Two invoices with messages of
the same, of an earlier and of a later date, one not settled and one for no
known invoice, tell all filters apart. Three holds (`MaxHolds`) let a customer be held
twice for one reason while another is; one bulk addition and one bulk removal
run at a time. One stop (`MaxStops`) in two pods meets every statement. A year of
two months (`MonthsPerYear`) has a last month and another; two requests (`MaxRequests`)
share a scheme, a month or neither; `MaxCounted` lets two nights follow each
other for one request, or one night count two. Three clients and four valid
queries let one period run, one wait and one be asked for twice. Only one
nightly run is under way at a time, and relative periods (month, week, day) count
the current month.

`CHECK_DEADLOCK FALSE` is set because the system rests when every request is
paid or held and nothing arrives, when all handlers are done, and when
`MaxRequests` claims have been paid.

### Fairness

`FairSpec` assumes weak fairness of each pod's loop (`setTimeout` in `finally`,
`processing/index.js:9-11`), of its receivers (Service Bus delivers a message
until it is completed), of the clock that lets a lease lapse, of the outbox
loop, and of the editor, whose answer is an assumption about people. Nothing is
assumed of operators: they need not lift a hold, which is why `EventuallyPaid`
excepts accounts on hold. Failures are bounded, not fair: a system that fails
every time pays nobody. In `Outbox.tla` only the loop of each pod is fair
(`outbound/index.js:9-11`). `QueueIsServed` in `BackOffice.tla` assumes that the
database answers, with figures or an error, and that the timer of
`metrics-queue.js` goes off.

## 7. Proofs

The theorems about the core are for any finite or infinite sets of pods, requests
and agreements, any bounds, and either value of the switches, under the assumption
`ProcessingAssumption` on the constants (types only, and a positive cap).

- `TypeCorrect` (`Processing_proofs`): `Spec => []TypeOK`. The invariant is
  `TypeInv == TypeOK /\ JobInBatch /\ ConfirmsOwnSchedule`: the request in hand
  is in the batch, and the schedule a receiver is about to complete belongs to
  the request of the reply. Without them the row a loop writes need not be
  typed. One lemma per action.
- `InvHolds` (`PaymentJobs_proofs`): in the abstract specification a row is
  paid by a closed job of its own request, a job is paid once, and a request that
  was ever opened is open or has a valid payment. These are inductive together.
- `Refinement` (`Processing_proofs`): `Spec => ImplementsJobs`. Each action of
  the core is mapped to opening, paying, sending or voiding a job, or to a
  stutter. Two invariants are added: the saved requests are the ones with a
  schedule row (`SavedInv`), since intake opens a job without looking for an open
  one; and a rejection whose schedule was completed under it leaves a valid payment
  that it does not void (`RejectingInv`), since it may then make no schedule.
  `SchedulePaidOnce` and `NothingLost` are carried over from `InvHolds` through the refinement.
- `NothingMarkedUnsent`, `SentOnceButForFailures` (`Outbox_proofs`): counting
  works because a row that was sent and is not marked yet (`InFlight`) belongs
  to exactly one transaction. The invariant is that locks are disjoint and hold
  nothing that is marked (`LocksApart`), and that a row has been sent no more
  often than failures explain, plus once if it is marked or in flight
  (`SendsCounted`). From `OutboxAssumption`: positive caps.
- `OneLease` and `InOrderOfNumber` (`Processing_proofs`): every action but the
  claim only ends leases or appends free ones, and the claim takes the first
  claimable schedule of an agreement, none if one is leased.
- `NewestSettlementShown`, `AnnouncedBeforeMarked` and `OneLoop`
  (`BackOffice_proofs`):
  a step of `BackOffice` is one of the component or leaves its variables
  alone, so each has an invariant of its component only. A payment shows a
  settlement that no applied one is later than, and a receiver holds the value
  it will write (`SettlementsInv`, from `SettlementsAssumption`: dates are not 0,
  which stands for null). What a pod has left to do has a mark only behind an
  announcement, unless the scheme has been announced (`SchemesInv`). The flag of
  the queue is set exactly while a query or a pause is out (`LoopInv`).
- `CategoriesComplete`: of the pods that found a scheme missing each has inserted
  a category or has it left, so the insertions and those to come add up to the
  pods (`CategoriesInv`). It rests on no statement being left twice (`OnceEach`),
  which concatenating the lists and taking the first statement off keep.
- `AnswersAddUp`: all of an answer is made from the same rows, so its totals are
  a sum that is also taken scheme by scheme (`SumByGroup` of `SumTheorems`, by
  exchanging two sums), and the opposite of a sum is the sum of the opposites
  (`SumShown`). The invariant is that the table holds finitely many rows with
  figures in them (`FiguresInv`).
- `CalculatedOnce`: rows for all time, a year or a month of a year count what
  they should, the results in hand are right for what the plan has first, and a
  request whose row is missing from this run has its calculation left in the plan
  or its result in hand (`CountedInv`). A time lies in the range of a year, or of
  a month of one, just if dividing by the months of a year gives that year and
  month (`RangeOfYear`, `RangeOfMonth`, the last month too); the list of years
  that the query returns has each year (`DescendingIsAll`), and so the plan has
  each of their calculations (`FlattenedHasAll`, `PlanIsComplete`). `FlattenSeq`
  is defined by recursion; it is unfolded from its end, by the least suffix for
  which the claim fails.
- `RemovalIsComplete`: the holds that were open when a bulk removal began are off
  the list as soon as it has passed their customer, for what it
  closed stays closed: no hold is opened again (`HoldsInv`).

- `SumWithout`, `SumWith`, `SumSame`, `SumOfValues` (`SumTheorems`) say what the
  community module's `MapThenSumSet` yields when a term is added, taken away or
  left alone. A sum is defined by taking terms in the order that `CHOOSE` picks;
  that the order does not matter is an induction over finite sets, and the
  library's induction theorems, which take an operator as a parameter, are out of
  the prover's reach. It is done by the least counterexample instead: the strict
  subset ordering of a finite set is well founded, so that a claim that fails for
  one subset fails for one within which it holds.
- `DebtHoldsAnswered` (`Payment_proofs`), for any number of pods: with an
  editor that does not answer before the hold is saved (`PromptEditor = FALSE`,
  finding 3), a held agreement has an answer under way. The invariant is that
  what a loop is about to hold is still with the editor (`DebtAsked`), and that
  every held agreement has a request with the editor, on its way back or with a
  receiver (`DebtQueued`).
- `LedgerChecked` (`Payment_proofs`), for one pod (`OnePod`) and claims of no
  negative amount: with ledger checks on, money is taken back only by completing
  what the editor confirmed. The invariant is that a reply stays on its queue
  while a receiver works on it (`RepliesKept`: with one pod nobody else
  completes the message), and that a job with a negative delta has a valid
  payment before it (`RecoversPaid`), which is what `requiresManualLedgerCheck`
  is given to look at.
- `ScheduledOnce` (`Payment_proofs`), for one pod without ledger checks: no request
  has two open schedules, whatever commits between a look-up and what follows from
  it. Without checks only the loop completes schedules (`LedgerUnused`,
  `PaidByLoop`), and what it has claimed is still open (`BatchIsOpen`): nothing else
  completes it meanwhile. So a loop finds its own schedule when it looks one up
  (`LoopFindsOpen`), and where a rejection found none there is still none when it
  makes one (`NoneFound`).
- `PaidOnce` (`Payment_proofs`), on top of it and under the same conditions: no
  request has two valid payments, nor a payment and an open schedule, unless its
  schedule was completed between a rejection's look-up and its update
  (`overtaken`).
- `TotalIsRight` (`Payment_proofs`), for one pod without ledger checks, requests
  of an agreement that arrive in the order of their numbers, and no number
  twice: what is paid on an agreement with a contract number that is a claim of its
  own (`ClaimsAlone`) is the value of the latest request paid, for any number of
  requests of any value. The invariant
  (`PaidInv`) says, as long as DAX has rejected nothing, that rows are completed
  in the order of their numbers (`RowsInOrder`), that what is in the batch comes
  after them (`BatchInOrder`), that the delta in hand is the request's value less
  all that has been paid (`DeltaIsCurrent`) and that this is the latest value
  (`PaidIsLatestValue`). `SavedInOrder` is the order of arrival.

- `HistoryTyped`, `LatestClaimPaid`, `LinesAddUp`, `ZeroNotSent` and
  `DebtPaidOffOnce` (`Adjustment_proofs`) are for any claims with any number of
  lines, any number of requests, instalments and dates, until a request keeps a
  number that was used. As long as none does, all rows come before a
  new request and what was completed comes to the latest claim (`LatestPaid`); only
  BPS and CS requests, which have no instalments, ever come with such a number
  (`NumbersInv`). The other theorems about adjustments
  are for these histories, too; only `AdjustmentsEndWithSchedule` is for all. Each operator of `Delta`
  and `DueDates` has a lemma that says what it does to the requests it is given
  (`Fit`, `PartsOf`): the delta of the lines comes to the claim less what was
  completed (`CalculateDeltaFits`, by exchanging two sums); a part of a request
  is worth its lines, however the shares are rounded (`SplitToLedgerFits`), and
  no more goes to AR than is owed there (`AllocateToLedgersFits`); dates and
  references change nothing of this (`Alike`). The invariant `AdjustmentInv` says
  what the rows are worth and, of an adjustment that waits for the editor, what
  it will come to (`Waits`): it stays right because all rows have smaller numbers
  than the one that waits, and so none is completed meanwhile.
- `DebtNamesSettlement`, for schemes in which no claim is negative
  (`ClaimsPay`): until DAX settles something on AP, AP has yet to pay out all
  that was claimed, takes every reduction in full, and nothing is owed
  (`RowsDebt`). An adjustment that waits was split before the settlements that
  come meanwhile, and these only make more of it right (`DebtInv`).
- `OneFund`: all lines of a BPS agreement, and of the adjustment that waits, have
  the fund code of the latest request with lines (`FundInv`); that there is a
  latest one if any has lines is `PreviousFundsFound`.
- `AdjustmentsEndWithSchedule`, if no claim is negative and except for SFI23
  (section 4): every row, and what waits, ends with the instalments of the
  agreement (`SchedulesInv`). AP is never paid less than nothing in all, so the
  value expected after each instalment only grows (`ExpectedValueGrows`) and the
  instalments outstanding are the last ones (`LastInstalmentsLeft`), whatever was
  settled and however many went by while the editor had the request.
- `LoweredIsChecked`, if no claim is negative: the requests an adjustment is split
  into all give, all take, or cancel out on AP (`OneWay`), and these last are what
  `ignoreZeroValueSplits` leaves out. As they share a number no earlier row has
  (`ReducedGrows`), while the agreement is open the rows took money away just if
  a claim was lowered, counting what waits (`ReductionsInv`).

- `AcceptedOnce`, `OneReplyCounts`, `VoidedScheduledAgain`, `RejectedHeld` and
  `RemovalOrderSuffices`
  (`BackOffice_proofs`) are about the tables of one request, for any number of
  handlers of each kind and any number of failures; the assumption,
  `TablesAssumption`, is that a handler is of one kind. `RequestTables_proofs`
  holds the invariants, one on top of the other. `TypeInv` gives the types of the
  rows and bounds the numbers of requests. `Locks`: a row that is being replaced
  is committed and one transaction replaces it, since a statement waits for the
  others (`Blockers`). `HeldInv`: a transaction that has put its rejection's
  reference on a request has written a hold, or has seen one that no other
  handler takes away, or has yet to come to it. `RetentionInv`: a removal
  that nobody raced sees nothing that refers to what it deletes next
  (`NotRefused`), table by table. `RequestsInv`: a
  transaction has inserted the next request, if there was none and nobody else
  is inserting one, or has rewritten one that it locked; so there is one at the
  most. `LinesInv`: a reply that has written lines, and a removal that is about to commit,
  have locked the request (`LocksRequests`), so that no handler commits lines of it
  meanwhile (`OwnedStays`, `LinesApart`); what the reply sees of it is
  its own (`ReplyLines`). `SavedInv`: whoever replaces a request or a schedule
  writes it anew (`Rewrites`), and the removal has the closure of the agreement
  among what it deletes (`Removes`). `SettledInv` is what a reset must keep: each
  committed request has an open schedule or a payment that is not void, or a
  reset over HTTP has voided its payment and has yet to look for a schedule, or
  has looked for one, found none and has yet to make it (`Excused`); and a
  rejection that is past its first look for a schedule already sees the request
  provided for in what it will commit, whatever others commit meanwhile. That needs `RowsInv`: completed rows
  are only ever marked, a rejection has locked the one request it knows before
  it voids the payment, and an open schedule has no completed row of its name,
  so that what the pod completes is a payment that was not there before. The one
  exception is a schedule that a rejection made: when its message is delivered
  again it may make one more of that name, and then there is a hold that keeps
  the pod away.

- `TypesHold` (`BackOffice_proofs`): `Spec => []TypeOK` of what surrounds the
  loop, if the customers, the retention messages and the replies are finitely
  many (the bounds count them). Types that bound a counter say where it comes
  from, and none is inductive as it stands. `PlacesInv`: outside its transaction
  a handler has written nothing that is not committed. `NumbersInv`: numbers are
  given from one on, and what a handler has found bears one that was given.
  `RemovalsCounted`: a second request of the invoice is inserted only after a
  removal of the first has committed, so that there are no more numbers than
  removals and one. `MarksInv` bounds the messages sent and the outages.
  `HoldsBounded`: with those of a bulk addition that are still to be saved, holds
  are no more than may be added, and the category of each is there
  (`RemoveHoldType` looks at closed holds, too). `SchemesBounded`: a pod finds a
  scheme missing once, or stops and starts over, and it inserts a category at the
  most once each time it found the scheme missing. `MetricsTyped`: the run under
  way has begun, and each row names a run that has; with `CountedInv`, that a run
  calculates known periods only.

The hypotheses on pods and ledger checks are those of the deployment that the
repository ships (`helm/ffc-pay-processing/values.yaml`: one replica, and
`useManualLedgerCheck: false`), except that `LedgerChecked` is for services that
turn the check on. They are needed: of two pods that work on one reply, one may complete the
message and the other still pay; and with ledger checks `paid_twice` is the
counterexample to the last two. That no first claim is negative, and in `DebtNamesSettlement`,
`AdjustmentsEndWithSchedule` and `LoweredIsChecked` no claim at all, is
an assumption about the schemes: a request is what a customer is entitled to,
penalties deducted, and the code, which does not look at its sign, would pay a
negative one without a check.

Every safety property that a passing run checks is a theorem, those of `Adjustment`
until a request keeps a number that was used: what TLC checks of the histories
after that (`TypeOK`, `RowsSumTheirLines`, `SentUnlessZero`, `DebtFollowsSettlement`,
`OneDomesticFund`) is only model-checked. So are `EventuallyPaid`, `EventuallySubmitted` and `EveryCallerAnswered` (liveness under
fairness, which this prover does not reason about).

## 8. Not modelled, and the plan

Left for models:

- Liveness with manual ledger checks. A receiver that is restarted after it
  completed a schedule and before it closed the hold leaves the hold open
  (`update-requests-awaiting-manual-ledger-check.js:37`), so nothing like
  `EventuallyPaid` holds there without an operator who closes it.
- Sizes of messages: `Outbox.tla` assumes that each fits in a batch.
- Numbers of requests that leave gaps, or that come again for a scheme other than
  BPS and CS; why `DebtNotOverpaid` is not promised of numbers that come again
  (a fourth request is needed to break it).
- Renaming and listing hold categories; pages and order of the list of holds; values on hold in the metrics.
- The automatic-hold switches turned on, `validatePayment` for a request that
  was held and is routed for debt data too (`process-payment-request.js:54-57`),
  inactive schemes and planned dates in the claim query.

Not planned: account codes, which are a look-up in `ffc-pay-schemes`, a package
outside this repository; reading and writing messages, schemas, events and
reports, configuration and health checks. They move or format data; nothing in
them interleaves with the state above.

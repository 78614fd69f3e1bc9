----------------------------- MODULE Processing -----------------------------
(***************************************************************************)
(* The life of a payment request in ffc-pay-processing, from the message   *)
(* that brings it in to the payment that is sent out: the schedule table   *)
(* as a queue of leased work, the processing loop of every running pod,    *)
(* the answers of the request editor, rejections by DAX, the holds that    *)
(* stop an agreement, and the failures of a pod.  A step of the module is  *)
(* one database transaction, one autocommitted statement or one message;   *)
(* a transaction that looks something up before it writes is two steps, as *)
(* others may commit in between.                                           *)
(***************************************************************************)
EXTENDS Integers, Sequences, FiniteSets, FiniteSetsExt

CONSTANTS
    Pods,                 \* running instances of the service
    Requests,             \* payment requests, one for each invoice number
    Agreements,           \* (frn, scheme, marketing year, agreement number)
    Claims,               \* what earlier payments are looked up by
    HoldGroups,           \* what an automatic hold applies to
    Accounts,             \* (frn, scheme), what a payment hold applies to
    AgreementOf,          \* the agreement a request belongs to
    ClaimOf,              \* BPS: (frn, year); CS: (frn, contract); others:
                          \* the agreement itself
    HoldGroupOf,          \* BPS: (frn, year); others: the agreement itself
    AccountOf,            \* the account an agreement belongs to
    Number,               \* paymentRequestNumber of a request, from 1
    Value,                \* value of a request: the agreement's new total
    WithContract,         \* agreements whose requests have a contractNumber
    UseManualLedgerCheck, \* processingConfig.useManualLedgerCheck
    ProcessingCap,        \* processingConfig.processingCap
    OrderedIntake,        \* requests of an agreement arrive in number order
    PromptEditor,         \* the editor may answer before the hold is saved
    OperatorHolds,        \* accounts an operator may put on hold
    MaxSchedules,         \* bound on the rows of the schedule table
    MaxFailures,          \* bound on failed batches and crashes
    MaxRejections         \* bound on the rejections delivered

ASSUME ProcessingAssumption ==
    /\ AgreementOf \in [Requests -> Agreements]
    /\ ClaimOf \in [Agreements -> Claims]
    /\ HoldGroupOf \in [Agreements -> HoldGroups]
    /\ AccountOf \in [Agreements -> Accounts]
    /\ Number \in [Requests -> Nat \ {0}]
    /\ Value \in [Requests -> Int]
    /\ WithContract \subseteq Agreements
    /\ OperatorHolds \subseteq Accounts
    /\ UseManualLedgerCheck \in BOOLEAN
    /\ OrderedIntake \in BOOLEAN
    /\ PromptEditor \in BOOLEAN
    /\ ProcessingCap \in Nat \ {0}
    /\ MaxSchedules \in Nat
    /\ MaxFailures \in Nat
    /\ MaxRejections \in Nat

VARIABLES
    saved,         \* rows of paymentRequests
    debt,          \* requests whose debtType is set
    schedule,      \* rows of schedule, by scheduleId
    completed,     \* rows of completedPaymentRequests with their outbox row
    hold,          \* accounts with an open payment hold
    autoHold,      \* open automatic holds of a group of requests
    phase,         \* where the processing loop of a pod is
    batch,         \* schedules the loop of a pod has claimed and not finished
    seen,          \* requests the loop of a pod read with a debtType
    job,           \* the request the loop of a pod is working on
    debtTopic,     \* requests sent to the editor for debt data
    debtReplies,   \* requests the editor returned with debt data
    enriching,     \* debt replies a pod is half way through
    ledgerTopic,   \* allocations sent to the editor for a ledger check
    ledgerReplies, \* allocations the editor confirmed
    confirming,    \* ledger replies a pod is half way through
    rejecting,     \* rejections whose transaction is open
    overtaken,     \* requests of which a rejection was overtaken by a payment;
                   \* nothing reads it but the properties
    failures, rejections

work == <<phase, batch, seen, job>>
debtMail == <<debtTopic, debtReplies, enriching>>
ledgerMail == <<ledgerTopic, ledgerReplies, confirming>>
acknowledging == <<rejecting, overtaken>>
bounds == <<failures, rejections>>
vars == <<saved, debt, schedule, completed, hold, autoHold, work, debtMail,
          ledgerMail, acknowledging, bounds>>

-----------------------------------------------------------------------------
(* The tables.                                                             *)

Lease == {"free", "live", "lapsed"}
ScheduleRow == [request: Requests, lease: Lease, done: BOOLEAN]
CompletedRow == [request: Requests, schedule: Nat, value: Int,
                 valid: BOOLEAN, sent: BOOLEAN]
AutoHold == {"debt", "ledger"}

Claim(r) == ClaimOf[AgreementOf[r]]
HoldGroup(r) == HoldGroupOf[AgreementOf[r]]
Account(r) == AccountOf[AgreementOf[r]]

\* Mutant: the state of a new schedule is one no query knows.
NewPendingSchedule(r) == [request |-> r, lease |-> "pending", done |-> FALSE]

\* A schedule as it is created: not started, not completed.
NewSchedule(r) == [request |-> r, lease |-> "free", done |-> FALSE]

OpenSchedules(r) ==
    {s \in DOMAIN schedule : schedule[s].request = r /\ ~schedule[s].done}

ValidRows(r) ==
    {c \in DOMAIN completed : completed[c].request = r /\ completed[c].valid}

\* Mutant: earlier payments are looked up by customer only.
PreviousOfAccount(r) ==
    {c \in DOMAIN completed :
        /\ completed[c].valid
        /\ Account(completed[c].request) = Account(r)
        /\ Number[completed[c].request] < Number[r]}

\* What has been paid on a claim by requests numbered lower than r.
Previous(r) ==
    {c \in DOMAIN completed :
        /\ completed[c].valid
        /\ Claim(completed[c].request) = Claim(r)
        /\ Number[completed[c].request] < Number[r]}

Total(rows) == MapThenSumSet(LAMBDA c : completed[c].value, rows)

\* The look-up of an open schedule of a request: one of them, or 0 for none.
GetExistingSchedule(r) ==
    IF OpenSchedules(r) = {} THEN {0} ELSE OpenSchedules(r)

\* Mutant: a schedule is made, whatever was found.
AlwaysSchedule(r, found) ==
    /\ Len(schedule) < MaxSchedules
    /\ schedule' = Append(schedule, NewSchedule(r))

\* Mutant: a schedule that was found is freed, but none is made.
FreeSchedule(r, found) ==
    IF found # 0 /\ ~schedule[found].done
    THEN schedule' = [schedule EXCEPT ![found].lease = "free"]
    ELSE UNCHANGED schedule

\* What follows the look-up: the schedule found loses its lease, unless it was
\* completed meanwhile; where none was found one is made.
EnsureScheduled(r, found) ==
    \/ /\ found # 0
       /\ IF schedule[found].done
          THEN UNCHANGED schedule
          ELSE schedule' = [schedule EXCEPT ![found].lease = "free"]
    \/ /\ found = 0
       /\ Len(schedule) < MaxSchedules
       /\ schedule' = Append(schedule, NewSchedule(r))

\* Mutant: a completed schedule is completed again.
CompleteAgain(s, v) ==
    /\ schedule' = [schedule EXCEPT ![s].done = TRUE]
    /\ completed' = Append(completed,
           [request |-> schedule[s].request, schedule |-> s, value |-> v,
            valid |-> TRUE, sent |-> FALSE])

\* One transaction that completes a schedule and saves what is to be paid,
\* unless the schedule was completed already.
CompletePaymentRequests(s, v) ==
    IF schedule[s].done
    THEN UNCHANGED <<schedule, completed>>
    ELSE /\ schedule' = [schedule EXCEPT ![s].done = TRUE]
         /\ completed' = Append(completed,
                [request |-> schedule[s].request, schedule |-> s, value |-> v,
                 valid |-> TRUE, sent |-> FALSE])

-----------------------------------------------------------------------------
(* Intake, payment holds, the outbox and rejections.                       *)

\* A message is consumed: a new invoice number is saved and scheduled.
SavePaymentRequest(r) ==
    /\ r \notin saved
    /\ OrderedIntake =>
         \A q \in Requests : (/\ AgreementOf[q] = AgreementOf[r]
                              /\ Number[q] < Number[r]) => q \in saved
    /\ Len(schedule) < MaxSchedules
    /\ saved' = saved \cup {r}
    /\ schedule' = Append(schedule, NewSchedule(r))
    /\ UNCHANGED <<debt, completed, hold, autoHold, work, debtMail, ledgerMail,
                   acknowledging, bounds>>

AddHold(a) ==
    /\ a \in OperatorHolds \ hold
    /\ hold' = hold \cup {a}
    /\ UNCHANGED <<saved, debt, schedule, completed, autoHold, work, debtMail,
                   ledgerMail, acknowledging, bounds>>

RemoveHold(a) ==
    /\ a \in hold
    /\ hold' = hold \ {a}
    /\ UNCHANGED <<saved, debt, schedule, completed, autoHold, work, debtMail,
                   ledgerMail, acknowledging, bounds>>

\* The outbox loop sends a saved row to DAX, valid or not.
Publish(c) ==
    /\ ~completed[c].sent
    /\ completed' = [completed EXCEPT ![c].sent = TRUE]
    /\ UNCHANGED <<saved, debt, schedule, hold, autoHold, work, debtMail,
                   ledgerMail, acknowledging, bounds>>

Rejection == [request: Requests, rows: SUBSET Nat, found: Nat, again: BOOLEAN]

\* Mutant: only the row that was rejected is invalidated.
CompletedAs(c) == {c}

\* What is invalidated with a row: everything completed for its request so far.
InvalidatePaymentRequests(c) ==
    {d \in DOMAIN completed : completed[d].request = completed[c].request}

\* DAX rejects a row: in a transaction the rows of its request are invalidated
\* and an open schedule is looked up.  The lock on the request keeps other
\* rejections of it waiting.
ResetPaymentRequest(c) ==
    LET r == completed[c].request
    IN  /\ completed[c].sent
        /\ rejections < MaxRejections
        /\ \A x \in rejecting : x.request # r
        /\ rejections' = rejections + 1
        /\ \E s \in GetExistingSchedule(r) :
              rejecting' = rejecting \cup
                {[request |-> r, rows |-> InvalidatePaymentRequests(c),
                  found |-> s, again |-> FALSE]}
        /\ UNCHANGED <<saved, debt, schedule, completed, hold, autoHold, work,
                       debtMail, ledgerMail, overtaken, failures>>

\* The schedule that was found has been completed before it could be freed.
Overtaken(x) == x.found # 0 /\ schedule[x.found].done

\* An open schedule is looked up once more when the account is held.  It is the
\* one that was just freed or made, unless that look-up was overtaken.
LookUpAgain(x) ==
    /\ Overtaken(x)
    /\ ~x.again
    /\ \E s \in GetExistingSchedule(x.request) :
          rejecting' = (rejecting \ {x}) \cup
                         {[x EXCEPT !.found = s, !.again = TRUE]}
    /\ UNCHANGED <<saved, debt, schedule, completed, hold, autoHold, work,
                   debtMail, ledgerMail, overtaken, bounds>>

\* The transaction commits: the rows are invalid, the account is held and the
\* request is scheduled again.
ProcessInvalid(x) ==
    /\ Overtaken(x) => x.again
    /\ completed' = [c \in DOMAIN completed |->
                       IF c \in x.rows
                       THEN [completed[c] EXCEPT !.valid = FALSE]
                       ELSE completed[c]]
    /\ hold' = hold \cup {Account(x.request)}
    /\ EnsureScheduled(x.request, x.found)
    /\ rejecting' = rejecting \ {x}
    /\ overtaken' = IF x.again THEN overtaken \cup {x.request} ELSE overtaken
    /\ UNCHANGED <<saved, debt, autoHold, work, debtMail, ledgerMail, bounds>>

-----------------------------------------------------------------------------
(* Claiming work.                                                          *)

Held(r) ==
    \/ Account(r) \in hold
    \/ autoHold[HoldGroup(r)] # {}

\* Mutant: only the lease of the schedule itself counts.
NeverInProcess(r) == FALSE

\* Another request of the agreement is leased.  The query compares contract
\* numbers with =, so an agreement without one never matches.
InProcess(r) ==
    /\ AgreementOf[r] \in WithContract
    /\ \E s \in DOMAIN schedule :
          /\ AgreementOf[schedule[s].request] = AgreementOf[r]
          /\ schedule[s].lease = "live"
          /\ ~schedule[s].done

\* Mutant: a lease never runs out.
NeverStarted ==
    {s \in DOMAIN schedule :
        /\ ~schedule[s].done
        /\ schedule[s].lease = "free"
        /\ ~Held(schedule[s].request)
        /\ ~InProcess(schedule[s].request)}

Claimable ==
    {s \in DOMAIN schedule :
        /\ ~schedule[s].done
        /\ schedule[s].lease # "live"
        /\ ~Held(schedule[s].request)
        /\ ~InProcess(schedule[s].request)}

\* Mutant: the oldest schedule comes first, whatever its number.
OlderThan(s, t) == s < t

\* The order of the query: payment request number, then age of the schedule.
Precedes(s, t) ==
    LET m == Number[schedule[s].request]
        n == Number[schedule[t].request]
    IN  m < n \/ (m = n /\ s < t)

\* DISTINCT ON: one schedule of each agreement, the first.
FirstOfAgreement ==
    {s \in Claimable :
        \A t \in Claimable \ {s} :
            (AgreementOf[schedule[s].request] = AgreementOf[schedule[t].request])
                => Precedes(s, t)}

\* A loop leases a batch in one serializable transaction.
ClaimSchedules(p) ==
    /\ phase[p] = "idle"
    /\ \E B \in SUBSET FirstOfAgreement :
          /\ B # {}
          /\ Cardinality(B) <= ProcessingCap
          /\ B # FirstOfAgreement => Cardinality(B) = ProcessingCap
          /\ schedule' = [s \in DOMAIN schedule |->
                            IF s \in B
                            THEN [schedule[s] EXCEPT !.lease = "live"]
                            ELSE schedule[s]]
          /\ batch' = [batch EXCEPT ![p] = B]
    /\ phase' = [phase EXCEPT ![p] = "claimed"]
    /\ UNCHANGED <<saved, debt, completed, hold, autoHold, seen, job, debtMail,
                   ledgerMail, acknowledging, bounds>>

\* Five minutes go by.  The lease of a completed schedule no longer matters.
LeaseLapses(s) ==
    /\ schedule[s].lease = "live"
    /\ ~schedule[s].done
    /\ schedule' = [schedule EXCEPT ![s].lease = "lapsed"]
    /\ UNCHANGED <<saved, debt, completed, hold, autoHold, work, debtMail,
                   ledgerMail, acknowledging, bounds>>

-----------------------------------------------------------------------------
(* Processing a batch, one request at a time.                              *)

NoJob == [schedule |-> 0, value |-> 0, recovers |-> FALSE, adjusts |-> FALSE,
          found |-> {}]

\* found is empty until an open schedule has been looked up.
Job == [schedule: Nat, value: Int, recovers: BOOLEAN, adjusts: BOOLEAN,
        found: SUBSET Nat]

\* The requests of the batch are read after the claim has been committed.
ReadBatch(p) ==
    /\ phase[p] = "claimed"
    /\ seen' = [seen EXCEPT ![p] =
                  {r \in debt : \E s \in batch[p] : schedule[s].request = r}]
    /\ phase' = [phase EXCEPT ![p] = "ready"]
    /\ UNCHANGED <<saved, debt, schedule, completed, hold, autoHold, batch,
                   job, debtMail, ledgerMail, acknowledging, bounds>>

\* A request is compared with everything paid before it.  Whether part of an
\* adjustment goes to the AR ledger depends on settlements: either may be.
TransformPaymentRequest(p) ==
    /\ phase[p] = "ready"
    /\ \E s \in batch[p] :
          LET r == schedule[s].request
              delta == Value[r] - Total(Previous(r))
              adjusts == Previous(r) # {}
          IN  \E recovers \in BOOLEAN :
                /\ recovers => (adjusts /\ delta # 0)
                /\ job' = [job EXCEPT ![p] =
                     [schedule |-> s, value |-> delta,
                      recovers |-> recovers, adjusts |-> adjusts, found |-> {}]]
    /\ phase' = [phase EXCEPT ![p] = "decide"]
    /\ UNCHANGED <<saved, debt, schedule, completed, hold, autoHold, batch,
                   seen, debtMail, ledgerMail, acknowledging, bounds>>

JobRequest(p) == schedule[job[p].schedule].request

\* The AR ledger needs a debt type, as it was when the batch was read.
RequiresDebtData(p) == job[p].recovers /\ JobRequest(p) \notin seen[p]

\* Mutant: only a top up is checked.
ChecksTopUps(p) ==
    /\ UseManualLedgerCheck
    /\ job[p].adjusts
    /\ job[p].value > 0
    /\ \E c \in Previous(JobRequest(p)) : completed[c].value < 0

RequiresManualLedgerCheck(p) ==
    /\ UseManualLedgerCheck
    /\ job[p].adjusts
    /\ \/ job[p].value < 0
       \/ /\ job[p].value > 0
          /\ \E c \in Previous(JobRequest(p)) : completed[c].value < 0

\* The loop goes on with the rest of its batch.
FinishJob(p) ==
    LET last == batch[p] = {job[p].schedule}
    IN  /\ batch' = [batch EXCEPT ![p] = @ \ {job[p].schedule}]
        /\ phase' = [phase EXCEPT ![p] = IF last THEN "idle" ELSE "ready"]
        /\ seen' = [seen EXCEPT ![p] = IF last THEN {} ELSE @]
        /\ job' = [job EXCEPT ![p] = NoJob]

\* Routing sends the message first ...
SendForDebtData(p) ==
    /\ phase[p] = "decide"
    /\ RequiresDebtData(p)
    /\ debtTopic' = debtTopic \cup {JobRequest(p)}
    /\ phase' = [phase EXCEPT ![p] = "debtSent"]
    /\ UNCHANGED <<saved, debt, schedule, completed, hold, autoHold, batch,
                   seen, job, debtReplies, enriching, ledgerMail,
                   acknowledging, bounds>>

SendForLedgerCheck(p) ==
    /\ phase[p] = "decide"
    /\ ~RequiresDebtData(p)
    /\ RequiresManualLedgerCheck(p)
    /\ ledgerTopic' = ledgerTopic \cup
          {[request |-> JobRequest(p), value |-> job[p].value]}
    /\ phase' = [phase EXCEPT ![p] = "ledgerSent"]
    /\ UNCHANGED <<saved, debt, schedule, completed, hold, autoHold, batch,
                   seen, job, debtMail, ledgerReplies, confirming,
                   acknowledging, bounds>>

\* ... and then holds and schedules it again, in a transaction that first looks
\* up an open schedule ...
LookUpSchedule(p) ==
    /\ phase[p] \in {"debtSent", "ledgerSent"}
    /\ job[p].found = {}
    /\ \E s \in GetExistingSchedule(JobRequest(p)) :
          job' = [job EXCEPT ![p].found = {s}]
    /\ UNCHANGED <<saved, debt, schedule, completed, hold, autoHold, phase,
                   batch, seen, debtMail, ledgerMail, acknowledging, bounds>>

\* ... and commits the hold with what follows from the look-up.
HoldAndReschedule(p, category) ==
    /\ autoHold' = [autoHold EXCEPT ![HoldGroup(JobRequest(p))] = @ \cup {category}]
    /\ \E s \in job[p].found : EnsureScheduled(JobRequest(p), s)
    /\ FinishJob(p)
    /\ UNCHANGED <<saved, debt, completed, hold, debtMail, ledgerMail,
                   acknowledging, bounds>>

HoldForDebtData(p) == phase[p] = "debtSent" /\ HoldAndReschedule(p, "debt")

HoldForLedgerCheck(p) == phase[p] = "ledgerSent" /\ HoldAndReschedule(p, "ledger")

FinalizePayment(p) ==
    /\ phase[p] = "decide"
    /\ ~RequiresDebtData(p)
    /\ ~RequiresManualLedgerCheck(p)
    /\ CompletePaymentRequests(job[p].schedule, job[p].value)
    /\ FinishJob(p)
    /\ UNCHANGED <<saved, debt, hold, autoHold, debtMail, ledgerMail,
                   acknowledging, bounds>>

-----------------------------------------------------------------------------
(* The request editor, an external service, and its replies.               *)

\* A handled reply leaves its queue, unless telling the broker so fails: then
\* it is delivered again.
CompleteMessage(queue, m, next) ==
    \/ next = queue \ {m} /\ UNCHANGED failures
    \/ /\ failures < MaxFailures
       /\ failures' = failures + 1
       /\ next = queue

\* No loop is between sending a request and saving its hold.
HoldSaved(r) ==
    PromptEditor \/
    \A p \in Pods : phase[p] \in {"debtSent", "ledgerSent"} => JobRequest(p) # r

EditorAddsDebtData(r) ==
    /\ r \in debtTopic
    /\ HoldSaved(r)
    /\ debtTopic' = debtTopic \ {r}
    /\ debtReplies' = debtReplies \cup {r}
    /\ UNCHANGED <<saved, debt, schedule, completed, hold, autoHold, work,
                   enriching, ledgerMail, acknowledging, bounds>>

EditorConfirmsLedger(m) ==
    /\ m \in ledgerTopic
    /\ HoldSaved(m.request)
    /\ ledgerTopic' = ledgerTopic \ {m}
    /\ ledgerReplies' = ledgerReplies \cup {m}
    /\ UNCHANGED <<saved, debt, schedule, completed, hold, autoHold, work,
                   debtMail, confirming, acknowledging, bounds>>

\* Mutant: the message is completed before the hold is closed.
CompleteMessageFirst(p, r) ==
    /\ enriching[p] = {}
    /\ r \in debtReplies
    /\ debt' = debt \cup {r}
    /\ enriching' = [enriching EXCEPT ![p] = {r}]
    /\ debtReplies' = debtReplies \ {r}
    /\ UNCHANGED <<saved, schedule, completed, hold, autoHold, work, debtTopic,
                   ledgerMail, acknowledging, bounds>>

\* The debt data is saved in one statement, the hold closed in the next.
UpdateDebtData(p, r) ==
    /\ enriching[p] = {}
    /\ r \in debtReplies
    /\ debt' = debt \cup {r}
    /\ enriching' = [enriching EXCEPT ![p] = {r}]
    /\ UNCHANGED <<saved, schedule, completed, hold, autoHold, work, debtTopic,
                   debtReplies, ledgerMail, acknowledging, bounds>>

RemoveDebtHold(p) ==
    \E r \in enriching[p] :
        /\ autoHold' = [autoHold EXCEPT ![HoldGroup(r)] = @ \ {"debt"}]
        /\ enriching' = [enriching EXCEPT ![p] = {}]
        /\ CompleteMessage(debtReplies, r, debtReplies')
        /\ UNCHANGED <<saved, debt, schedule, completed, hold, work, debtTopic,
                       ledgerMail, acknowledging, rejections>>

\* The open schedule is looked up; without one the reply is dropped.
GetScheduleId(p, m) ==
    /\ confirming[p] = {}
    /\ m \in ledgerReplies
    /\ \/ \E s \in OpenSchedules(m.request) :
             /\ confirming' = [confirming EXCEPT ![p] =
                  {[reply |-> m, schedule |-> s, saved |-> FALSE]}]
             /\ UNCHANGED ledgerReplies
       \/ /\ OpenSchedules(m.request) = {}
          /\ ledgerReplies' = ledgerReplies \ {m}
          /\ UNCHANGED confirming
    /\ UNCHANGED <<saved, debt, schedule, completed, hold, autoHold, work,
                   debtMail, ledgerTopic, acknowledging, bounds>>

CompleteConfirmed(p) ==
    \E k \in confirming[p] :
        /\ ~k.saved
        /\ CompletePaymentRequests(k.schedule, k.reply.value)
        /\ confirming' = [confirming EXCEPT ![p] = {[k EXCEPT !.saved = TRUE]}]
        /\ UNCHANGED <<saved, debt, hold, autoHold, work, debtMail,
                       ledgerTopic, ledgerReplies, acknowledging, bounds>>

RemoveLedgerHold(p) ==
    \E k \in confirming[p] :
        /\ k.saved
        /\ autoHold' = [autoHold EXCEPT ![HoldGroup(k.reply.request)] = @ \ {"ledger"}]
        /\ confirming' = [confirming EXCEPT ![p] = {}]
        /\ CompleteMessage(ledgerReplies, k.reply, ledgerReplies')
        /\ UNCHANGED <<saved, debt, schedule, completed, hold, work, debtMail,
                       ledgerTopic, acknowledging, rejections>>

-----------------------------------------------------------------------------
(* Failures.                                                               *)

\* An error in one request ends the whole batch; its leases stay behind.
BatchFails(p) ==
    /\ phase[p] # "idle"
    /\ failures < MaxFailures
    /\ failures' = failures + 1
    /\ phase' = [phase EXCEPT ![p] = "idle"]
    /\ batch' = [batch EXCEPT ![p] = {}]
    /\ seen' = [seen EXCEPT ![p] = {}]
    /\ job' = [job EXCEPT ![p] = NoJob]
    /\ UNCHANGED <<saved, debt, schedule, completed, hold, autoHold, debtMail,
                   ledgerMail, acknowledging, rejections>>

\* A debt reply whose handling fails is only logged: its message is delivered
\* again.
EnrichmentFails(p) ==
    /\ enriching[p] # {}
    /\ failures < MaxFailures
    /\ failures' = failures + 1
    /\ enriching' = [enriching EXCEPT ![p] = {}]
    /\ UNCHANGED <<saved, debt, schedule, completed, hold, autoHold, work,
                   debtTopic, debtReplies, ledgerMail, acknowledging,
                   rejections>>

\* A ledger reply that cannot be handled is dead lettered.
ConfirmationFails(p) ==
    \E k \in confirming[p] :
        /\ failures < MaxFailures
        /\ failures' = failures + 1
        /\ confirming' = [confirming EXCEPT ![p] = {}]
        /\ ledgerReplies' = ledgerReplies \ {k.reply}
        /\ UNCHANGED <<saved, debt, schedule, completed, hold, autoHold, work,
                       debtMail, ledgerTopic, acknowledging, rejections>>

\* A rejection fails and is rolled back: its message is delivered again.
RejectionFails(x) ==
    /\ failures < MaxFailures
    /\ failures' = failures + 1
    /\ rejecting' = rejecting \ {x}
    /\ UNCHANGED <<saved, debt, schedule, completed, hold, autoHold, work,
                   debtMail, ledgerMail, overtaken, rejections>>

\* A pod stops and starts again: what it was doing is lost, messages it had
\* not completed are delivered again.
PodRestarts(p) ==
    /\ phase[p] # "idle" \/ enriching[p] # {} \/ confirming[p] # {} \/ rejecting # {}
    /\ failures < MaxFailures
    /\ failures' = failures + 1
    /\ phase' = [phase EXCEPT ![p] = "idle"]
    /\ batch' = [batch EXCEPT ![p] = {}]
    /\ seen' = [seen EXCEPT ![p] = {}]
    /\ job' = [job EXCEPT ![p] = NoJob]
    /\ enriching' = [enriching EXCEPT ![p] = {}]
    /\ confirming' = [confirming EXCEPT ![p] = {}]
    /\ \E lost \in SUBSET rejecting : rejecting' = rejecting \ lost
    /\ UNCHANGED <<saved, debt, schedule, completed, hold, autoHold, debtTopic,
                   debtReplies, ledgerTopic, ledgerReplies, overtaken,
                   rejections>>

-----------------------------------------------------------------------------

Init ==
    /\ saved = {}
    /\ debt = {}
    /\ schedule = <<>>
    /\ completed = <<>>
    /\ hold = {}
    /\ autoHold = [g \in HoldGroups |-> {}]
    /\ phase = [p \in Pods |-> "idle"]
    /\ batch = [p \in Pods |-> {}]
    /\ seen = [p \in Pods |-> {}]
    /\ job = [p \in Pods |-> NoJob]
    /\ debtTopic = {}
    /\ debtReplies = {}
    /\ enriching = [p \in Pods |-> {}]
    /\ ledgerTopic = {}
    /\ ledgerReplies = {}
    /\ confirming = [p \in Pods |-> {}]
    /\ rejecting = {}
    /\ overtaken = {}
    /\ failures = 0
    /\ rejections = 0

\* What the processing loop of a pod does.
Loop(p) ==
    \/ ClaimSchedules(p)
    \/ ReadBatch(p)
    \/ TransformPaymentRequest(p)
    \/ SendForDebtData(p)
    \/ HoldForDebtData(p)
    \/ SendForLedgerCheck(p)
    \/ LookUpSchedule(p)
    \/ HoldForLedgerCheck(p)
    \/ FinalizePayment(p)

\* What the receivers of a pod do with the replies of the editor.
Receive(p) ==
    \/ \E r \in debtReplies : UpdateDebtData(p, r)
    \/ RemoveDebtHold(p)
    \/ \E m \in ledgerReplies : GetScheduleId(p, m)
    \/ CompleteConfirmed(p)
    \/ RemoveLedgerHold(p)

Editor ==
    \/ \E r \in debtTopic : EditorAddsDebtData(r)
    \/ \E m \in ledgerTopic : EditorConfirmsLedger(m)

Fail(p) ==
    \/ BatchFails(p)
    \/ EnrichmentFails(p)
    \/ ConfirmationFails(p)
    \/ PodRestarts(p)

Next ==
    \/ \E r \in Requests : SavePaymentRequest(r)
    \/ \E a \in Accounts : AddHold(a) \/ RemoveHold(a)
    \/ \E c \in DOMAIN completed : Publish(c) \/ ResetPaymentRequest(c)
    \/ \E x \in rejecting : LookUpAgain(x) \/ ProcessInvalid(x) \/ RejectionFails(x)
    \/ \E s \in DOMAIN schedule : LeaseLapses(s)
    \/ Editor
    \/ \E p \in Pods : Loop(p) \/ Receive(p) \/ Fail(p)

Spec == Init /\ [][Next]_vars

\* The loops, the receivers and the editor keep working, time passes.
Fairness ==
    /\ \A p \in Pods : WF_vars(Loop(p)) /\ WF_vars(Receive(p))
    /\ WF_vars(Editor)
    /\ WF_vars(\E s \in DOMAIN schedule : LeaseLapses(s))
    /\ WF_vars(\E c \in DOMAIN completed : Publish(c))

FairSpec == Spec /\ Fairness

-----------------------------------------------------------------------------
(* Properties.                                                             *)

Phase == {"idle", "claimed", "ready", "decide", "debtSent", "ledgerSent"}
LedgerMessage == [request: Requests, value: Int]
Confirmation == [reply: LedgerMessage, schedule: Nat, saved: BOOLEAN]

\* Every variable keeps its type.
TypeOK ==
    /\ saved \in SUBSET Requests
    /\ debt \in SUBSET Requests
    /\ schedule \in Seq(ScheduleRow)
    /\ completed \in Seq(CompletedRow)
    /\ hold \in SUBSET Accounts
    /\ autoHold \in [HoldGroups -> SUBSET AutoHold]
    /\ phase \in [Pods -> Phase]
    /\ batch \in [Pods -> SUBSET (DOMAIN schedule)]
    /\ seen \in [Pods -> SUBSET Requests]
    /\ job \in [Pods -> Job]
    /\ debtTopic \in SUBSET Requests
    /\ debtReplies \in SUBSET Requests
    /\ enriching \in [Pods -> SUBSET Requests]
    /\ ledgerTopic \in SUBSET LedgerMessage
    /\ ledgerReplies \in SUBSET LedgerMessage
    /\ confirming \in [Pods -> SUBSET Confirmation]
    /\ rejecting \in SUBSET Rejection
    /\ overtaken \in SUBSET Requests
    /\ failures \in Nat
    /\ rejections \in Nat

\* completePaymentRequests: whatever leases lapsed and whoever else worked on
\* it, a schedule is paid at most once.
PaidOncePerSchedule ==
    \A c, d \in DOMAIN completed :
        completed[c].schedule = completed[d].schedule => c = d

\* ensureScheduled and processInvalid: a saved payment request is always either
\* waiting in the schedule table or validly completed.
NoRequestLost ==
    \A r \in saved : OpenSchedules(r) # {} \/ ValidRows(r) # {}

\* ensureScheduled: no payment request waits in the schedule table twice, with
\* one pod and without ledger checks: the loop then finds the schedule it works
\* on, and the rejections of a request wait for each other.
OneOpenSchedule ==
    \A r \in Requests : \A s, t \in OpenSchedules(r) : s = t

\* No payment request is validly completed twice, nor waits to be paid again
\* while it is: the customer would be paid twice.  The exception is a request
\* whose schedule was completed while a rejection was about to free it.
NoDoublePayment ==
    \A r \in Requests \ overtaken :
        /\ \A c, d \in ValidRows(r) : c = d
        /\ ValidRows(r) # {} => OpenSchedules(r) = {}

\* The scheduling query: two requests of one agreement are never leased at once,
\* also when a lease lapsed while its holder still works on it.
OneLeasePerAgreement ==
    \A s, t \in DOMAIN schedule :
        (/\ schedule[s].lease = "live" /\ ~schedule[s].done
         /\ schedule[t].lease = "live" /\ ~schedule[t].done
         /\ AgreementOf[schedule[s].request] = AgreementOf[schedule[t].request]
         /\ AgreementOf[schedule[s].request] \in WithContract)
            => s = t

\* test/integration/local/processing/get-payment-requests.test.js: no request is in
\* process while another for the same agreement is, with a contract or without.
OneRequestInProcess ==
    \A s, t \in DOMAIN schedule :
        (/\ schedule[s].lease = "live" /\ ~schedule[s].done
         /\ schedule[t].lease = "live" /\ ~schedule[t].done
         /\ AgreementOf[schedule[s].request] = AgreementOf[schedule[t].request])
            => s = t

\* calculateDelta: what is validly paid on an agreement adds up to the value of
\* the latest request that was paid, as long as DAX rejected nothing and earlier
\* payments are looked up among those of the agreement only: two agreements of
\* one claim are leased side by side, and in any order.
PaidRows(a) ==
    {c \in DOMAIN completed :
        completed[c].valid /\ AgreementOf[completed[c].request] = a}

ClaimsAlone(a) == \A b \in Agreements : ClaimOf[b] = ClaimOf[a] => b = a

TotalIsLatestValue ==
    rejections = 0 =>
    \A a \in WithContract : ClaimsAlone(a) => \A c \in PaidRows(a) :
        (\A d \in PaidRows(a) : Number[completed[d].request] <= Number[completed[c].request])
            => Total(PaidRows(a)) = Value[completed[c].request]

\* The scheduling query: a request is leased only when every lower numbered one
\* of its agreement that has arrived has been completed.
LeasedInOrder ==
    [][\A s \in DOMAIN schedule :
         (/\ schedule[s].lease # "live"
          /\ schedule'[s].lease = "live"
          /\ AgreementOf[schedule[s].request] \in WithContract)
         => \A t \in DOMAIN schedule :
              (/\ AgreementOf[schedule[t].request] = AgreementOf[schedule[s].request]
               /\ Number[schedule[t].request] < Number[schedule[s].request])
              => schedule[t].done]_vars

\* routeDebtToRequestEditor and updateRequestsAwaitingDebtData: while requests are
\* held for debt data, an answer that will close the hold is still to come.
DebtHoldIsAnswered ==
    \A g \in HoldGroups : "debt" \in autoHold[g] =>
        \E r \in debtTopic \cup debtReplies \cup UNION {enriching[p] : p \in Pods} :
            HoldGroup(r) = g

\* updateRequestsAwaitingManualLedgerCheck: with manual ledger checks on, money is
\* taken back only by completing what the editor confirmed.
LedgerCheckNotBypassed ==
    [][\A c \in DOMAIN completed' :
         (/\ UseManualLedgerCheck
          /\ c \notin DOMAIN completed
          /\ completed'[c].value < 0)
         => \E p \in Pods : \E k \in confirming[p] :
              /\ k.schedule = completed'[c].schedule
              /\ k.reply.value = completed'[c].value
              /\ k.reply \in ledgerReplies]_vars

\* Leases, loops, replies, holds and failures only ever open, pay, send and void
\* jobs the way PaymentJobs does: a lapsed lease, a late reply or a restart never
\* pays a schedule again or voids a payment without scheduling it.
Jobs == INSTANCE PaymentJobs WITH
    jobs <- [s \in DOMAIN schedule |->
               [request |-> schedule[s].request, done |-> schedule[s].done]],
    rows <- [c \in DOMAIN completed |->
               [request |-> completed[c].request, job |-> completed[c].schedule,
                valid |-> completed[c].valid, sent |-> completed[c].sent]]

ImplementsJobs == Jobs!Spec

\* A saved request is paid, or its account is on hold: no failure of a loop or of
\* a receiver leaves it waiting for ever.
EventuallyPaid ==
    \A r \in Requests :
        (r \in saved) ~> (ValidRows(r) # {} \/ Account(r) \in hold)
=============================================================================

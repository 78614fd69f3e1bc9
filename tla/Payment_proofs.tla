--------------------------- MODULE Payment_proofs ---------------------------
(***************************************************************************)
(* What is paid, by the services that run one pod or whose editor keeps to *)
(* the order of routing: the conditions are hypotheses of the theorems,    *)
(* and without them TLC finds the property violated.                       *)
(***************************************************************************)
EXTENDS Processing_proofs

-----------------------------------------------------------------------------
(* What a step does to the tables.                                         *)

\* No schedule is made or completed.
SameJobs ==
    /\ DOMAIN schedule' = DOMAIN schedule
    /\ \A s \in DOMAIN schedule :
          /\ schedule'[s].request = schedule[s].request
          /\ schedule'[s].done = schedule[s].done

\* A schedule is made for r.
NewJob(r) ==
    \E n :
        /\ n \notin DOMAIN schedule
        /\ DOMAIN schedule' = DOMAIN schedule \cup {n}
        /\ \A s \in DOMAIN schedule : schedule'[s] = schedule[s]
        /\ schedule'[n].request = r
        /\ schedule'[n].done = FALSE

\* Schedule s is completed with a row of value v.
PaidJob(s, v) ==
    /\ DOMAIN schedule' = DOMAIN schedule
    /\ \A t \in DOMAIN schedule \ {s} : schedule'[t] = schedule[t]
    /\ schedule'[s].request = schedule[s].request
    /\ schedule'[s].done = TRUE
    /\ \E n :
          /\ n \notin DOMAIN completed
          /\ DOMAIN completed' = DOMAIN completed \cup {n}
          /\ \A c \in DOMAIN completed : completed'[c] = completed[c]
          /\ completed'[n] = [request |-> schedule[s].request, schedule |-> s,
                              value |-> v, valid |-> TRUE, sent |-> FALSE]

\* What sending or claiming does not change of the rows.
SameRows ==
    /\ DOMAIN completed' = DOMAIN completed
    /\ \A c \in DOMAIN completed :
          /\ completed'[c].request = completed[c].request
          /\ completed'[c].schedule = completed[c].schedule
          /\ completed'[c].value = completed[c].value
          /\ completed'[c].valid = completed[c].valid

\* Where an open schedule was found no other is made.
LEMMA EnsureScheduledEffect ==
    ASSUME TypeOK, NEW r \in Requests, NEW s, s = 0 \/ IsScheduleOf(s, r),
           EnsureScheduled(r, s)
    PROVE  IF s = 0 THEN NewJob(r) ELSE SameJobs
<1>1. \A i \in DOMAIN schedule : schedule[i] \in ScheduleRow
  BY DEF TypeOK
<1>2. ASSUME s \in DOMAIN schedule, schedule' = [schedule EXCEPT ![s].lease = "free"]
      PROVE  SameJobs
  BY <1>1, <1>2 DEF SameJobs, ScheduleRow
<1>3. ASSUME schedule' = Append(schedule, NewSchedule(r))
      PROVE  NewJob(r)
  <2>1. NewSchedule(r) \in ScheduleRow
    BY DEF NewSchedule, ScheduleRow, Lease
  <2>2. /\ Len(schedule) + 1 \notin DOMAIN schedule
        /\ DOMAIN schedule' = DOMAIN schedule \cup {Len(schedule) + 1}
        /\ \A i \in DOMAIN schedule : schedule'[i] = schedule[i]
        /\ schedule'[Len(schedule) + 1] = NewSchedule(r)
    BY <1>3, <2>1, AppendRow DEF TypeOK
  <2>3. NewSchedule(r).request = r /\ NewSchedule(r).done = FALSE
    BY DEF NewSchedule
  <2>4. QED
    BY <2>2, <2>3 DEF NewJob
<1>4. ASSUME UNCHANGED schedule
      PROVE  SameJobs
  BY <1>4 DEF SameJobs
<1>5. CASE s = 0
  BY <1>3, <1>5 DEF EnsureScheduled
<1>6. CASE s # 0
  BY <1>2, <1>4, <1>6 DEF EnsureScheduled, IsScheduleOf
<1>7. QED
  BY <1>5, <1>6

\* Intake makes a schedule.
LEMMA SavePaymentRequestEffect ==
    ASSUME TypeOK, NEW r \in Requests, SavePaymentRequest(r)
    PROVE  NewJob(r)
<1>1. NewSchedule(r) \in ScheduleRow
  BY DEF NewSchedule, ScheduleRow, Lease
<1>2. /\ Len(schedule) + 1 \notin DOMAIN schedule
      /\ DOMAIN schedule' = DOMAIN schedule \cup {Len(schedule) + 1}
      /\ \A i \in DOMAIN schedule : schedule'[i] = schedule[i]
      /\ schedule'[Len(schedule) + 1] = NewSchedule(r)
  BY <1>1, AppendRow DEF TypeOK, SavePaymentRequest
<1>3. NewSchedule(r).request = r /\ NewSchedule(r).done = FALSE
  BY DEF NewSchedule
<1>4. QED
  BY <1>2, <1>3 DEF NewJob

\* An open schedule is completed.
LEMMA CompletePaymentRequestsEffect ==
    ASSUME TypeOK, NEW s \in DOMAIN schedule, NEW v \in Int,
           CompletePaymentRequests(s, v)
    PROVE  IF schedule[s].done THEN UNCHANGED <<schedule, completed>>
           ELSE PaidJob(s, v)
<1>1. \A i \in DOMAIN schedule : schedule[i] \in ScheduleRow
  BY DEF TypeOK
<1>2. CASE ~schedule[s].done
  <2> DEFINE e == [request |-> schedule[s].request, schedule |-> s, value |-> v,
                   valid |-> TRUE, sent |-> FALSE]
  <2>1. /\ schedule' = [schedule EXCEPT ![s].done = TRUE]
        /\ completed' = Append(completed, e)
    BY <1>2 DEF CompletePaymentRequests
  <2>2. /\ DOMAIN schedule' = DOMAIN schedule
        /\ \A t \in DOMAIN schedule \ {s} : schedule'[t] = schedule[t]
        /\ schedule'[s].request = schedule[s].request
        /\ schedule'[s].done = TRUE
    BY <1>1, <2>1 DEF ScheduleRow
  <2>3. e \in CompletedRow
    BY <1>1 DEF CompletedRow, ScheduleRow, TypeOK
  <2>4. /\ Len(completed) + 1 \notin DOMAIN completed
        /\ DOMAIN completed' = DOMAIN completed \cup {Len(completed) + 1}
        /\ \A c \in DOMAIN completed : completed'[c] = completed[c]
        /\ completed'[Len(completed) + 1] = e
    BY <2>1, <2>3, AppendRow DEF TypeOK
  <2>5. PaidJob(s, v)
    BY <2>2, <2>4 DEF PaidJob
  <2>6. QED
    BY <1>2, <2>5
<1>3. CASE schedule[s].done
  BY <1>3 DEF CompletePaymentRequests
<1>4. QED
  BY <1>2, <1>3

\* Leases come and go.
LEMMA LeaseEffect ==
    ASSUME TypeOK,
           \/ \E s \in DOMAIN schedule : LeaseLapses(s)
           \/ \E p \in Pods : ClaimSchedules(p)
    PROVE  SameJobs /\ UNCHANGED completed
<1>1. \A i \in DOMAIN schedule : schedule[i] \in ScheduleRow
  BY DEF TypeOK
<1>2. QED
  BY <1>1 DEF LeaseLapses, ClaimSchedules, SameJobs, ScheduleRow

\* A row is sent.
LEMMA PublishEffect ==
    ASSUME TypeOK, NEW c \in DOMAIN completed, Publish(c)
    PROVE  SameRows
<1>1. \A d \in DOMAIN completed : completed[d] \in CompletedRow
  BY DEF TypeOK
<1>2. QED
  BY <1>1 DEF Publish, SameRows, CompletedRow

\* The steps that touch neither the schedules nor what was completed.
QuietStep ==
    \/ \E a \in Accounts : AddHold(a) \/ RemoveHold(a)
    \/ \E c \in DOMAIN completed : ResetPaymentRequest(c)
    \/ \E x \in rejecting : LookUpAgain(x) \/ RejectionFails(x)
    \/ Editor
    \/ \E p \in Pods :
          \/ ReadBatch(p)
          \/ TransformPaymentRequest(p)
          \/ SendForDebtData(p) \/ SendForLedgerCheck(p) \/ LookUpSchedule(p)
          \/ \E r \in debtReplies : UpdateDebtData(p, r)
          \/ RemoveDebtHold(p)
          \/ \E m \in ledgerReplies : GetScheduleId(p, m)
          \/ RemoveLedgerHold(p)
          \/ Fail(p)
    \/ UNCHANGED vars

\* The steps there are.
LEMMA Steps ==
    ASSUME [Next]_vars
    PROVE  \/ \E r \in Requests : SavePaymentRequest(r)
           \/ \E c \in DOMAIN completed : Publish(c)
           \/ \E x \in rejecting : ProcessInvalid(x)
           \/ \E s \in DOMAIN schedule : LeaseLapses(s)
           \/ \E p \in Pods : ClaimSchedules(p)
           \/ \E p \in Pods : HoldForDebtData(p) \/ HoldForLedgerCheck(p)
           \/ \E p \in Pods : FinalizePayment(p)
           \/ \E p \in Pods : CompleteConfirmed(p)
           \/ QuietStep
  BY DEF Next, Loop, Receive, QuietStep

\* A quiet step leaves the tables alone.
LEMMA QuietStepEffect ==
    ASSUME QuietStep
    PROVE  UNCHANGED <<saved, schedule, completed>>
  BY OtherSteps DEF QuietStep

\* A completion by the loop pays its delta, unless the schedule was completed.
LEMMA FinalizePaymentEffect ==
    ASSUME TypeInv, NEW p \in Pods, FinalizePayment(p)
    PROVE  /\ job[p].schedule \in DOMAIN schedule
           /\ job[p].value \in Int
           /\ IF schedule[job[p].schedule].done THEN UNCHANGED <<schedule, completed>>
              ELSE PaidJob(job[p].schedule, job[p].value)
<1>1. job[p].schedule \in DOMAIN schedule /\ job[p].value \in Int
  BY JobRequestType DEF FinalizePayment, AtWork
<1>2. CompletePaymentRequests(job[p].schedule, job[p].value)
  BY DEF FinalizePayment
<1>3. QED
  BY <1>1, <1>2, CompletePaymentRequestsEffect DEF TypeInv

\* A completion by a confirmation pays the value of its reply.
LEMMA CompleteConfirmedEffect ==
    ASSUME TypeInv, NEW p \in Pods, CompleteConfirmed(p)
    PROVE  \E k \in confirming[p] :
              /\ ~k.saved
              /\ k.schedule \in DOMAIN schedule
              /\ k.reply.value \in Int
              /\ IF schedule[k.schedule].done THEN UNCHANGED <<schedule, completed>>
                 ELSE PaidJob(k.schedule, k.reply.value)
<1>1. PICK k \in confirming[p] :
          ~k.saved /\ CompletePaymentRequests(k.schedule, k.reply.value)
  BY DEF CompleteConfirmed
<1>2. k \in Confirmation /\ k.reply \in LedgerMessage
  BY DEF TypeInv, TypeOK, Confirmation
<1>3. k.schedule \in DOMAIN schedule /\ k.reply.value \in Int
  BY <1>2 DEF TypeInv, OwnSchedules, IsScheduleOf, LedgerMessage
<1>4. QED
  BY <1>1, <1>3, CompletePaymentRequestsEffect DEF TypeInv

\* A rejection that commits.
LEMMA ProcessInvalidEffect ==
    ASSUME TypeInv, NEW x \in rejecting, ProcessInvalid(x)
    PROVE  IF x.found = 0 THEN NewJob(x.request) ELSE SameJobs
<1>1. x.request \in Requests /\ (x.found = 0 \/ IsScheduleOf(x.found, x.request))
  BY DEF TypeInv, TypeOK, Rejection, OwnSchedules
<1>2. EnsureScheduled(x.request, x.found)
  BY DEF ProcessInvalid
<1>3. QED
  BY <1>1, <1>2, EnsureScheduledEffect DEF TypeInv

\* A hold saved by a loop.
LEMMA HoldAndRescheduleEffect ==
    ASSUME TypeInv, NEW p \in Pods, HoldForDebtData(p) \/ HoldForLedgerCheck(p)
    PROVE  /\ JobRequest(p) \in Requests
           /\ job[p].schedule \in DOMAIN schedule
           /\ UNCHANGED completed
           /\ \E s \in job[p].found :
                 IF s = 0 THEN NewJob(JobRequest(p)) ELSE SameJobs
<1>1. /\ JobRequest(p) \in Requests
      /\ job[p].schedule \in DOMAIN schedule
      /\ \A s \in job[p].found : s = 0 \/ IsScheduleOf(s, JobRequest(p))
  BY JobRequestType DEF HoldForDebtData, HoldForLedgerCheck, AtWork
<1>2. PICK category \in AutoHold : HoldAndReschedule(p, category)
  BY DEF HoldForDebtData, HoldForLedgerCheck, AutoHold
<1>3. PICK s \in job[p].found : EnsureScheduled(JobRequest(p), s)
  BY <1>2 DEF HoldAndReschedule
<1>4. UNCHANGED completed
  BY <1>2 DEF HoldAndReschedule
<1>5. IF s = 0 THEN NewJob(JobRequest(p)) ELSE SameJobs
  BY <1>1, <1>3, EnsureScheduledEffect DEF TypeInv
<1>6. QED
  BY <1>1, <1>4, <1>5

\* A schedule keeps its request, and once completed it stays so.
KeepsJobs ==
    /\ DOMAIN schedule \subseteq DOMAIN schedule'
    /\ \A s \in DOMAIN schedule :
          /\ schedule'[s].request = schedule[s].request
          /\ schedule[s].done => schedule'[s].done

\* No step removes, reopens or hands over a schedule.
LEMMA KeepsJobsStep ==
    ASSUME TypeInv, [Next]_vars
    PROVE  KeepsJobs
<1>1. ASSUME SameJobs \/ UNCHANGED schedule
      PROVE  KeepsJobs
  BY <1>1 DEF SameJobs, KeepsJobs
<1>2. ASSUME NEW r, NewJob(r)
      PROVE  KeepsJobs
  BY <1>2 DEF NewJob, KeepsJobs
<1>3. ASSUME NEW s \in DOMAIN schedule, NEW v, PaidJob(s, v)
      PROVE  KeepsJobs
  BY <1>3 DEF PaidJob, KeepsJobs
<1>4. CASE \E r \in Requests : SavePaymentRequest(r)
  BY <1>2, <1>4, SavePaymentRequestEffect DEF TypeInv
<1>5. CASE \/ \E c \in DOMAIN completed : Publish(c)
           \/ \E x \in rejecting : ProcessInvalid(x)
  BY <1>1, <1>2, <1>5, ProcessInvalidEffect DEF Publish
<1>6. CASE \/ \E s \in DOMAIN schedule : LeaseLapses(s)
           \/ \E p \in Pods : ClaimSchedules(p)
  BY <1>1, <1>6, LeaseEffect DEF TypeInv
<1>7. CASE \E p \in Pods : HoldForDebtData(p) \/ HoldForLedgerCheck(p)
  BY <1>1, <1>2, <1>7, HoldAndRescheduleEffect
<1>8. CASE \E p \in Pods : FinalizePayment(p)
  BY <1>1, <1>3, <1>8, FinalizePaymentEffect
<1>9. CASE \E p \in Pods : CompleteConfirmed(p)
  BY <1>1, <1>3, <1>9, CompleteConfirmedEffect
<1>10. CASE QuietStep
  BY <1>1, <1>10, QuietStepEffect
<1>11. QED
  BY <1>4, <1>5, <1>6, <1>7, <1>8, <1>9, <1>10, Steps

-----------------------------------------------------------------------------
(* Debt holds.  The editor is asked before the hold is saved; as long as   *)
(* it does not answer in between, the answer outlives the hold.            *)

\* A request that was sent for debt data is not answered before it is held.
DebtAsked == \A p \in Pods : phase[p] = "debtSent" => JobRequest(p) \in debtTopic

\* The answer to a hold is still on a queue: a reply stays there until its hold
\* is closed.
DebtQueued ==
    \A g \in HoldGroups : "debt" \in autoHold[g] =>
        \E r \in debtTopic \cup debtReplies : HoldGroup(r) = g

DebtInv == DebtAsked /\ DebtQueued

\* Each kind of step keeps the question or its answer.
LEMMA DebtStep ==
    ASSUME TypeInv, DebtInv, PromptEditor = FALSE, [Next]_vars
    PROVE  DebtInv'
<1>1. KeepsJobs
  BY KeepsJobsStep
<1>2. /\ phase \in [Pods -> Phase]
      /\ job \in [Pods -> Job]
      /\ autoHold \in [HoldGroups -> SUBSET AutoHold]
      /\ JobInBatch
      /\ batch \in [Pods -> SUBSET (DOMAIN schedule)]
  BY DEF TypeInv, TypeOK
<1>3. ASSUME NEW q \in Pods, phase[q] = "debtSent",
             job'[q].schedule = job[q].schedule
      PROVE  JobRequest(q)' = JobRequest(q)
  BY <1>1, <1>2, <1>3 DEF JobRequest, KeepsJobs, JobInBatch, AtWork
<1>4. ASSUME debtTopic \subseteq debtTopic',
             \A q \in Pods : phase'[q] = "debtSent"
                               => /\ phase[q] = "debtSent"
                                  /\ job'[q].schedule = job[q].schedule
      PROVE  DebtAsked'
  BY <1>3, <1>4 DEF DebtInv, DebtAsked
<1>5. CASE \E p \in Pods : SendForDebtData(p)
  <2>1. PICK p \in Pods : SendForDebtData(p)
    BY <1>5
  <2>2. DebtAsked'
    BY <1>2, <1>3, <2>1 DEF SendForDebtData, DebtInv, DebtAsked, JobRequest
  <2>3. DebtQueued'
    BY <2>1 DEF SendForDebtData, DebtInv, DebtQueued
  <2>4. QED
    BY <2>2, <2>3 DEF DebtInv
<1>6. CASE \E p \in Pods : HoldForDebtData(p) \/ HoldForLedgerCheck(p)
  <2>1. PICK p \in Pods : HoldForDebtData(p) \/ HoldForLedgerCheck(p)
    BY <1>6
  <2>2. PICK category \in AutoHold :
           /\ HoldAndReschedule(p, category)
           /\ category = "debt" => phase[p] = "debtSent"
    BY <2>1 DEF HoldForDebtData, HoldForLedgerCheck, AutoHold
  <2>3. /\ autoHold' = [autoHold EXCEPT ![HoldGroup(JobRequest(p))] = @ \cup {category}]
        /\ UNCHANGED <<debtTopic, debtReplies>>
        /\ phase'[p] # "debtSent"
        /\ \A q \in Pods \ {p} : phase'[q] = phase[q] /\ job'[q] = job[q]
    BY <1>2, <2>2 DEF HoldAndReschedule, FinishJob, debtMail
  <2>4. DebtAsked'
    BY <1>4, <2>3
  <2>5. DebtQueued'
    BY <1>2, <2>2, <2>3 DEF DebtInv, DebtAsked, DebtQueued
  <2>6. QED
    BY <2>4, <2>5 DEF DebtInv
<1>7. CASE Editor
  <2>1. UNCHANGED <<autoHold, schedule, phase, job>>
    BY <1>7 DEF Editor, EditorAddsDebtData, EditorConfirmsLedger, work
  <2>2. CASE \E r \in debtTopic : EditorAddsDebtData(r)
    <3>1. PICK r \in debtTopic : EditorAddsDebtData(r)
      BY <2>2
    <3>2. \A q \in Pods : phase[q] = "debtSent" => JobRequest(q) # r
      BY <3>1 DEF EditorAddsDebtData, HoldSaved
    <3>3. DebtAsked'
      BY <2>1, <3>1, <3>2 DEF EditorAddsDebtData, DebtInv, DebtAsked, JobRequest
    <3>4. debtTopic' \cup debtReplies' = debtTopic \cup debtReplies
      BY <3>1 DEF EditorAddsDebtData
    <3>5. DebtQueued'
      BY <2>1, <3>4 DEF DebtInv, DebtQueued
    <3>6. QED
      BY <3>3, <3>5 DEF DebtInv
  <2>3. CASE \E m \in ledgerTopic : EditorConfirmsLedger(m)
    BY <2>1, <2>3 DEF EditorConfirmsLedger, debtMail, DebtInv, DebtAsked, DebtQueued,
                      JobRequest
  <2>4. QED
    BY <1>7, <2>2, <2>3 DEF Editor
<1>8. CASE \E p \in Pods : RemoveDebtHold(p)
  <2>1. PICK p \in Pods : RemoveDebtHold(p)
    BY <1>8
  <2>2. PICK r \in enriching[p] :
            /\ autoHold' = [autoHold EXCEPT ![HoldGroup(r)] = @ \ {"debt"}]
            /\ debtReplies' = debtReplies \/ debtReplies' = debtReplies \ {r}
            /\ UNCHANGED <<phase, job, debtTopic>>
    BY <2>1 DEF RemoveDebtHold, CompleteMessage, work
  <2>3. DebtAsked'
    BY <1>4, <2>2
  <2>4. DebtQueued'
    BY <1>2, <2>2 DEF DebtInv, DebtQueued
  <2>5. QED
    BY <2>3, <2>4 DEF DebtInv
<1>9. CASE \E p \in Pods : RemoveLedgerHold(p)
  <2>1. PICK p \in Pods : RemoveLedgerHold(p)
    BY <1>9
  <2>2. PICK k \in confirming[p] :
            /\ autoHold' = [autoHold EXCEPT ![HoldGroup(k.reply.request)] = @ \ {"ledger"}]
            /\ UNCHANGED <<phase, job, debtTopic, debtReplies>>
    BY <2>1 DEF RemoveLedgerHold, work, debtMail
  <2>3. DebtAsked'
    BY <1>4, <2>2
  <2>4. DebtQueued'
    BY <1>2, <2>2 DEF DebtInv, DebtQueued
  <2>5. QED
    BY <2>3, <2>4 DEF DebtInv
<1>10. ASSUME UNCHANGED <<autoHold, debtTopic, debtReplies>>,
              \A q \in Pods : phase'[q] = "debtSent"
                                => /\ phase[q] = "debtSent"
                                   /\ job'[q].schedule = job[q].schedule
       PROVE  DebtInv'
  BY <1>4, <1>10 DEF DebtInv, DebtQueued
<1>11. CASE \/ \E r \in Requests : SavePaymentRequest(r)
            \/ \E a \in Accounts : AddHold(a) \/ RemoveHold(a)
            \/ \E c \in DOMAIN completed : Publish(c) \/ ResetPaymentRequest(c)
            \/ \E x \in rejecting : LookUpAgain(x) \/ ProcessInvalid(x) \/ RejectionFails(x)
            \/ \E s \in DOMAIN schedule : LeaseLapses(s)
            \/ \E p \in Pods :
                  \/ \E r \in debtReplies : UpdateDebtData(p, r)
                  \/ \E m \in ledgerReplies : GetScheduleId(p, m)
                  \/ CompleteConfirmed(p)
                  \/ EnrichmentFails(p) \/ ConfirmationFails(p)
            \/ UNCHANGED vars
  <2>1. UNCHANGED <<autoHold, debtTopic, debtReplies, phase, job>>
    BY <1>11 DEF SavePaymentRequest, AddHold, RemoveHold, Publish,
                 ResetPaymentRequest, LookUpAgain, ProcessInvalid, RejectionFails,
                 LeaseLapses, UpdateDebtData, GetScheduleId, CompleteConfirmed,
                 EnrichmentFails, ConfirmationFails, vars, work, debtMail
  <2>2. QED
    BY <1>10, <2>1
<1>12. CASE \E p \in Pods :
               \/ ClaimSchedules(p) \/ ReadBatch(p) \/ TransformPaymentRequest(p)
               \/ SendForLedgerCheck(p) \/ FinalizePayment(p)
               \/ BatchFails(p) \/ PodRestarts(p)
  <2>1. PICK p \in Pods :
            \/ ClaimSchedules(p) \/ ReadBatch(p) \/ TransformPaymentRequest(p)
            \/ SendForLedgerCheck(p) \/ FinalizePayment(p)
            \/ BatchFails(p) \/ PodRestarts(p)
    BY <1>12
  <2>2. /\ UNCHANGED <<autoHold, debtTopic, debtReplies>>
        /\ phase'[p] # "debtSent"
        /\ \A q \in Pods \ {p} : phase'[q] = phase[q] /\ job'[q] = job[q]
    BY <1>2, <2>1
    DEF ClaimSchedules, ReadBatch, TransformPaymentRequest, SendForLedgerCheck,
        FinalizePayment, FinishJob, BatchFails, PodRestarts, debtMail
  <2>3. QED
    BY <1>10, <2>2
<1>13. CASE \E p \in Pods : LookUpSchedule(p)
  <2>1. PICK p \in Pods : LookUpSchedule(p)
    BY <1>13
  <2>2. /\ UNCHANGED <<autoHold, debtTopic, debtReplies, phase>>
        /\ \A q \in Pods : job'[q].schedule = job[q].schedule
    BY <1>2, <2>1 DEF LookUpSchedule, debtMail, Job
  <2>3. QED
    BY <1>10, <2>2
<1>14. QED
  BY <1>5, <1>6, <1>7, <1>8, <1>9, <1>11, <1>12, <1>13 DEF Next, Loop, Receive, Fail

\* updateRequestsAwaitingDebtData: while requests are held for debt data, an
\* answer that will close the hold is still to come, with any number of pods, lost
\* leases, redelivered replies and restarts; the one thing the editor must not do is
\* answer a request before the hold that waits for the answer is saved.
THEOREM DebtHoldsAnswered ==
    ASSUME PromptEditor = FALSE
    PROVE  Spec => []DebtHoldIsAnswered
<1>1. Init => DebtInv
  BY DEF Init, DebtInv, DebtAsked, DebtQueued
<1>2. TypeInv /\ DebtInv /\ [Next]_vars => DebtInv'
  BY DebtStep
<1>3. DebtInv => DebtHoldIsAnswered
  BY DEF DebtInv, DebtQueued, DebtHoldIsAnswered
<1>4. QED
  BY <1>1, <1>2, <1>3, TypeInvHolds, PTL DEF Spec
-----------------------------------------------------------------------------
(* The manual ledger check.                                                *)

\* Nothing was paid where there is no row.
LEMMA NothingPaid ==
    ASSUME TypeOK
    PROVE  Total({}) = 0
  BY TotalIsSum, SumEmpty

\* One instance of the service runs.
OnePod == \A p, q \in Pods : p = q

\* A reply stays on its queue until it is paid.
RepliesKept ==
    \A p \in Pods : \A k \in confirming[p] : ~k.saved => k.reply \in ledgerReplies

\* Money is only taken back from an agreement that was paid before.
RecoversPaid ==
    \A p \in Pods :
        (phase[p] = "decide" /\ job[p].value < 0) => job[p].adjusts = TRUE

LedgerInv == RepliesKept /\ RecoversPaid

\* Replies leave their queue when the one pod is done with them, and a delta is
\* negative only against something paid.
LEMMA LedgerStep ==
    ASSUME TypeInv, LedgerInv, OnePod, \A r \in Requests : Value[r] >= 0,
           [Next]_vars
    PROVE  LedgerInv'
<1>1. /\ phase \in [Pods -> Phase]
      /\ job \in [Pods -> Job]
      /\ confirming \in [Pods -> SUBSET Confirmation]
  BY DEF TypeInv, TypeOK
<1>2. ASSUME \A q \in Pods : phase'[q] = "decide"
                               => phase[q] = "decide" /\ job'[q] = job[q]
      PROVE  RecoversPaid'
  BY <1>2 DEF LedgerInv, RecoversPaid
<1>3. ASSUME NEW p \in Pods, TransformPaymentRequest(p)
      PROVE  LedgerInv'
  <2>1. PICK s \in batch[p] :
            LET r == schedule[s].request
                delta == Value[r] - Total(Previous(r))
                adjusts == Previous(r) # {}
            IN  \E recovers \in BOOLEAN :
                  job' = [job EXCEPT ![p] =
                     [schedule |-> s, value |-> delta,
                      recovers |-> recovers, adjusts |-> adjusts,
                      found |-> {}]]
    BY <1>3 DEF TransformPaymentRequest
  <2> DEFINE r == schedule[s].request
  <2>2. r \in Requests
    <3>1. schedule[s] \in ScheduleRow
      BY DEF TypeInv, TypeOK
    <3>2. QED
      BY <3>1 DEF ScheduleRow
  <2>3. /\ job'[p].value = Value[r] - Total(Previous(r))
        /\ Previous(r) # {} => job'[p].adjusts = TRUE
    <3>1. PICK recovers \in BOOLEAN, adjusts \in BOOLEAN :
              /\ adjusts = (Previous(r) # {})
              /\ job' = [job EXCEPT ![p] =
                   [schedule |-> s, value |-> Value[r] - Total(Previous(r)),
                    recovers |-> recovers, adjusts |-> adjusts,
                    found |-> {}]]
      BY <2>1
    <3>2. job'[p].value = Value[r] - Total(Previous(r)) /\ job'[p].adjusts = adjusts
      BY <1>1, <3>1
    <3>3. QED
      BY <3>1, <3>2
  <2>4. Previous(r) = {} => ~(job'[p].value < 0)
    BY <2>2, <2>3, NothingPaid, ProcessingAssumption DEF TypeInv
  <2>5. \A q \in Pods \ {p} : phase'[q] = phase[q] /\ job'[q] = job[q]
    BY <1>1, <1>3, <2>1 DEF TransformPaymentRequest
  <2>6. RecoversPaid'
    BY <2>3, <2>4, <2>5 DEF LedgerInv, RecoversPaid
  <2>7. RepliesKept'
    BY <1>3 DEF TransformPaymentRequest, ledgerMail, LedgerInv, RepliesKept
  <2>8. QED
    BY <2>6, <2>7 DEF LedgerInv
<1>4. CASE \E p \in Pods :
              \/ ClaimSchedules(p) \/ ReadBatch(p)
              \/ SendForDebtData(p) \/ HoldForDebtData(p)
              \/ SendForLedgerCheck(p) \/ HoldForLedgerCheck(p)
              \/ LookUpSchedule(p)
              \/ FinalizePayment(p) \/ BatchFails(p) \/ PodRestarts(p)
  <2>1. PICK p \in Pods :
            \/ ClaimSchedules(p) \/ ReadBatch(p)
            \/ SendForDebtData(p) \/ HoldForDebtData(p)
            \/ SendForLedgerCheck(p) \/ HoldForLedgerCheck(p)
            \/ LookUpSchedule(p)
            \/ FinalizePayment(p) \/ BatchFails(p) \/ PodRestarts(p)
    BY <1>4
  <2>2. /\ phase'[p] # "decide"
        /\ \A q \in Pods \ {p} : phase'[q] = phase[q] /\ job'[q] = job[q]
    BY <1>1, <2>1
    DEF ClaimSchedules, ReadBatch, SendForDebtData, HoldForDebtData,
        SendForLedgerCheck, HoldForLedgerCheck, LookUpSchedule, HoldAndReschedule,
        FinalizePayment, FinishJob, BatchFails, PodRestarts
  <2>3. /\ ledgerReplies' = ledgerReplies
        /\ \A q \in Pods : confirming'[q] \subseteq confirming[q]
    BY <1>1, <2>1
    DEF ClaimSchedules, ReadBatch, SendForDebtData, HoldForDebtData,
        SendForLedgerCheck, HoldForLedgerCheck, LookUpSchedule, HoldAndReschedule,
        FinalizePayment, BatchFails, PodRestarts, ledgerMail
  <2>4. RepliesKept'
    BY <2>3 DEF LedgerInv, RepliesKept
  <2>5. QED
    BY <1>2, <2>2, <2>4 DEF LedgerInv
<1>5. ASSUME UNCHANGED <<phase, job>>, RepliesKept'
      PROVE  LedgerInv'
  BY <1>2, <1>5 DEF LedgerInv
<1>6. ASSUME NEW p \in Pods, NEW m \in ledgerReplies, GetScheduleId(p, m)
      PROVE  LedgerInv'
  <2>1. UNCHANGED <<phase, job>> /\ confirming[p] = {}
    BY <1>6 DEF GetScheduleId, work
  <2>2. \A q \in Pods : q = p
    BY DEF OnePod
  <2>3. \/ UNCHANGED ledgerReplies
           /\ \E s : confirming' = [confirming EXCEPT ![p] =
                       {[reply |-> m, schedule |-> s, saved |-> FALSE]}]
        \/ UNCHANGED confirming
    BY <1>6 DEF GetScheduleId
  <2>4. RepliesKept'
    BY <1>1, <2>1, <2>2, <2>3 DEF LedgerInv, RepliesKept
  <2>5. QED
    BY <1>5, <2>1, <2>4
<1>7. ASSUME NEW p \in Pods, CompleteConfirmed(p)
      PROVE  LedgerInv'
  <2>1. PICK k \in confirming[p] :
            /\ confirming' = [confirming EXCEPT ![p] = {[k EXCEPT !.saved = TRUE]}]
            /\ UNCHANGED <<phase, job, ledgerReplies>>
    BY <1>7 DEF CompleteConfirmed, work
  <2>2. [k EXCEPT !.saved = TRUE].saved = TRUE
    BY <1>1 DEF Confirmation
  <2>3. RepliesKept'
    BY <1>1, <2>1, <2>2 DEF LedgerInv, RepliesKept
  <2>4. QED
    BY <1>5, <2>1, <2>3
<1>8. ASSUME NEW p \in Pods, RemoveLedgerHold(p) \/ ConfirmationFails(p)
      PROVE  LedgerInv'
  <2>1. UNCHANGED <<phase, job>> /\ confirming' = [confirming EXCEPT ![p] = {}]
    BY <1>8 DEF RemoveLedgerHold, ConfirmationFails, work
  <2>2. \A q \in Pods : q = p
    BY DEF OnePod
  <2>3. RepliesKept'
    BY <1>1, <2>1, <2>2 DEF RepliesKept
  <2>4. QED
    BY <1>5, <2>1, <2>3
<1>9. CASE Editor
  <2>1. /\ UNCHANGED <<phase, job, confirming>>
        /\ ledgerReplies \subseteq ledgerReplies'
    BY <1>9 DEF Editor, EditorAddsDebtData, EditorConfirmsLedger, work, ledgerMail
  <2>2. RepliesKept'
    BY <2>1 DEF LedgerInv, RepliesKept
  <2>3. QED
    BY <1>5, <2>1, <2>2
<1>10. CASE \/ \E r \in Requests : SavePaymentRequest(r)
            \/ \E a \in Accounts : AddHold(a) \/ RemoveHold(a)
            \/ \E c \in DOMAIN completed : Publish(c) \/ ResetPaymentRequest(c)
            \/ \E x \in rejecting : LookUpAgain(x) \/ ProcessInvalid(x) \/ RejectionFails(x)
            \/ \E s \in DOMAIN schedule : LeaseLapses(s)
            \/ \E p \in Pods :
                  \/ \E r \in debtReplies : UpdateDebtData(p, r)
                  \/ RemoveDebtHold(p)
                  \/ EnrichmentFails(p)
            \/ UNCHANGED vars
  <2>1. UNCHANGED <<phase, job, confirming, ledgerReplies>>
    BY <1>10 DEF SavePaymentRequest, AddHold, RemoveHold, Publish,
                 ResetPaymentRequest, LookUpAgain, ProcessInvalid, RejectionFails,
                 LeaseLapses, UpdateDebtData, RemoveDebtHold, EnrichmentFails, vars,
                 work, ledgerMail
  <2>2. RepliesKept'
    BY <2>1 DEF LedgerInv, RepliesKept
  <2>3. QED
    BY <1>5, <2>1, <2>2
<1>11. QED
  BY <1>3, <1>4, <1>6, <1>7, <1>8, <1>9, <1>10 DEF Next, Loop, Receive, Fail

\* A row of a completed request is added by a loop or by a confirmation only.
LEMMA SamePayments ==
    ASSUME TypeInv, [Next]_vars, DOMAIN completed' # DOMAIN completed
    PROVE  \/ \E p \in Pods : FinalizePayment(p)
           \/ \E p \in Pods : CompleteConfirmed(p)
<1>1. \A x \in rejecting : ProcessInvalid(x) => DOMAIN completed' = DOMAIN completed
  BY DEF ProcessInvalid
<1>2. \A c \in DOMAIN completed : Publish(c) => DOMAIN completed' = DOMAIN completed
  BY PublishEffect DEF SameRows, TypeInv
<1>3. QED
  BY <1>1, <1>2, Steps, LeaseEffect, HoldAndRescheduleEffect, QuietStepEffect
  DEF TypeInv, SavePaymentRequest

\* What LedgerCheckNotBypassed says of a step.
ChecksLedger ==
    \A c \in DOMAIN completed' :
         (/\ UseManualLedgerCheck
          /\ c \notin DOMAIN completed
          /\ completed'[c].value < 0)
         => \E p \in Pods : \E k \in confirming[p] :
              /\ k.schedule = completed'[c].schedule
              /\ k.reply.value = completed'[c].value
              /\ k.reply \in ledgerReplies

\* updateRequestsAwaitingManualLedgerCheck: with one pod, and requests that are for
\* no negative amount, nothing is taken back with ledger checks on but what the
\* editor confirmed, whatever fails, is redelivered or is rejected.
THEOREM LedgerChecked ==
    ASSUME OnePod, \A r \in Requests : Value[r] >= 0
    PROVE  Spec => LedgerCheckNotBypassed
<1>1. Init => LedgerInv
  BY DEF Init, LedgerInv, RepliesKept, RecoversPaid
<1>2. TypeInv /\ LedgerInv /\ [Next]_vars => LedgerInv'
  BY LedgerStep
<1>3. TypeInv /\ LedgerInv /\ [Next]_vars => ChecksLedger
  <2> SUFFICES ASSUME TypeInv, LedgerInv, [Next]_vars, UseManualLedgerCheck = TRUE,
                      NEW c \in DOMAIN completed', c \notin DOMAIN completed,
                      completed'[c].value < 0
               PROVE  \E p \in Pods : \E k \in confirming[p] :
                        /\ k.schedule = completed'[c].schedule
                        /\ k.reply.value = completed'[c].value
                        /\ k.reply \in ledgerReplies
    BY ProcessingAssumption DEF ChecksLedger
  <2>1. ASSUME NEW p \in Pods, FinalizePayment(p)
        PROVE  FALSE
    <3>1. PaidJob(job[p].schedule, job[p].value)
      BY <2>1, FinalizePaymentEffect
    <3>2. completed'[c].value = job[p].value
      BY <3>1 DEF PaidJob
    <3>3. job[p].adjusts = TRUE
      BY <2>1, <3>2 DEF FinalizePayment, LedgerInv, RecoversPaid
    <3>4. RequiresManualLedgerCheck(p)
      BY <3>2, <3>3 DEF RequiresManualLedgerCheck
    <3>5. QED
      BY <2>1, <3>4 DEF FinalizePayment
  <2>2. PICK p \in Pods : CompleteConfirmed(p)
    BY <2>1, SamePayments
  <2>3. PICK k \in confirming[p] : ~k.saved /\ PaidJob(k.schedule, k.reply.value)
    BY <2>2, CompleteConfirmedEffect
  <2>4. /\ completed'[c].value = k.reply.value
        /\ completed'[c].schedule = k.schedule
    BY <2>3 DEF PaidJob
  <2>5. QED
    BY <2>3, <2>4 DEF LedgerInv, RepliesKept
<1>4. Spec => [][ChecksLedger]_vars
  BY <1>1, <1>2, <1>3, TypeInvHolds, PTL DEF Spec
<1>5. QED
  BY <1>4 DEF LedgerCheckNotBypassed, ChecksLedger
-----------------------------------------------------------------------------
(* One pod, no ledger check: no request is scheduled or paid twice.        *)

\* Without ledger checks nothing is sent for one, so nothing is confirmed.
LedgerUnused ==
    /\ ledgerTopic = {}
    /\ ledgerReplies = {}
    /\ \A p \in Pods : confirming[p] = {} /\ phase[p] # "ledgerSent"

\* What the loop has claimed is still to be completed.
BatchIsOpen == \A p \in Pods : \A s \in batch[p] : schedule[s].done = FALSE

\* A loop that is about to hold a request has found its own schedule, or another.
LoopFindsOpen == \A p \in Pods : 0 \notin job[p].found

OneLoopInv == LedgerUnused /\ BatchIsOpen /\ LoopFindsOpen

\* A rejection that found no open schedule: there is none still, and nothing was
\* paid since the rows of the request were invalidated.
NoneFound ==
    \A x \in rejecting : x.found = 0 =>
        /\ OpenSchedules(x.request) = {}
        /\ ~x.again => ValidRows(x.request) \subseteq x.rows

\* Nothing starts a ledger check.
LEMMA LedgerUnusedStep ==
    ASSUME TypeInv, LedgerUnused, UseManualLedgerCheck = FALSE, [Next]_vars
    PROVE  LedgerUnused'
<1>1. /\ phase \in [Pods -> Phase]
      /\ confirming \in [Pods -> SUBSET Confirmation]
  BY DEF TypeInv, TypeOK
<1>2. \A p \in Pods : ~SendForLedgerCheck(p) /\ ~HoldForLedgerCheck(p)
  BY DEF SendForLedgerCheck, HoldForLedgerCheck, RequiresManualLedgerCheck,
         LedgerUnused
<1>3. \A p \in Pods : /\ ~CompleteConfirmed(p)
                      /\ ~RemoveLedgerHold(p)
                      /\ ~ConfirmationFails(p)
  BY DEF CompleteConfirmed, RemoveLedgerHold, ConfirmationFails, LedgerUnused
<1>4. CASE \E p \in Pods :
              \/ ClaimSchedules(p) \/ ReadBatch(p) \/ TransformPaymentRequest(p)
              \/ SendForDebtData(p) \/ HoldForDebtData(p) \/ LookUpSchedule(p)
              \/ FinalizePayment(p) \/ BatchFails(p) \/ PodRestarts(p)
  <2>1. PICK p \in Pods :
            \/ ClaimSchedules(p) \/ ReadBatch(p) \/ TransformPaymentRequest(p)
            \/ SendForDebtData(p) \/ HoldForDebtData(p) \/ LookUpSchedule(p)
            \/ FinalizePayment(p) \/ BatchFails(p) \/ PodRestarts(p)
    BY <1>4
  <2>2. /\ \A q \in Pods : phase'[q] # "ledgerSent"
        /\ UNCHANGED <<ledgerTopic, ledgerReplies>>
        /\ \A q \in Pods : confirming'[q] = {}
    BY <1>1, <2>1
    DEF ClaimSchedules, ReadBatch, TransformPaymentRequest, SendForDebtData,
        HoldForDebtData, LookUpSchedule, HoldAndReschedule, FinalizePayment,
        FinishJob, BatchFails, PodRestarts, ledgerMail, LedgerUnused
  <2>3. QED
    BY <2>2 DEF LedgerUnused
<1>5. CASE \/ \E r \in Requests : SavePaymentRequest(r)
           \/ \E a \in Accounts : AddHold(a) \/ RemoveHold(a)
           \/ \E c \in DOMAIN completed : Publish(c) \/ ResetPaymentRequest(c)
           \/ \E x \in rejecting : LookUpAgain(x) \/ ProcessInvalid(x) \/ RejectionFails(x)
           \/ \E s \in DOMAIN schedule : LeaseLapses(s)
           \/ Editor
           \/ \E p \in Pods :
                 \/ \E r \in debtReplies : UpdateDebtData(p, r)
                 \/ RemoveDebtHold(p)
                 \/ \E m \in ledgerReplies : GetScheduleId(p, m)
                 \/ EnrichmentFails(p)
           \/ UNCHANGED vars
  <2>1. UNCHANGED <<phase, confirming, ledgerTopic, ledgerReplies>>
    BY <1>5 DEF SavePaymentRequest, AddHold, RemoveHold, Publish,
                ResetPaymentRequest, LookUpAgain, ProcessInvalid, RejectionFails,
                LeaseLapses, Editor, EditorAddsDebtData, EditorConfirmsLedger,
                UpdateDebtData, RemoveDebtHold, EnrichmentFails, vars, work,
                ledgerMail, LedgerUnused
  <2>2. QED
    BY <2>1 DEF LedgerUnused
<1>6. QED
  BY <1>2, <1>3, <1>4, <1>5 DEF Next, Loop, Receive, Fail

\* Without ledger checks only a loop completes schedules.
LEMMA PaidByLoop ==
    ASSUME TypeInv, OneLoopInv, [Next]_vars
    PROVE  \/ SameJobs /\ SameRows
           \/ \E r \in Requests : SavePaymentRequest(r) /\ NewJob(r) /\ SameRows
           \/ \E x \in rejecting :
                /\ ProcessInvalid(x)
                /\ IF x.found = 0 THEN NewJob(x.request) ELSE SameJobs
           \/ \E p \in Pods :
                /\ FinalizePayment(p)
                /\ PaidJob(job[p].schedule, job[p].value)
<1>1. \A p \in Pods : ~CompleteConfirmed(p) /\ ~HoldForLedgerCheck(p)
  BY DEF CompleteConfirmed, HoldForLedgerCheck, OneLoopInv, LedgerUnused
<1>2. UNCHANGED completed => SameRows
  BY DEF SameRows
<1>3. UNCHANGED schedule => SameJobs
  BY DEF SameJobs
<1>4. \A c \in DOMAIN completed : Publish(c) => SameJobs /\ SameRows
  BY <1>3, PublishEffect DEF Publish, TypeInv
<1>5. \A r \in Requests : SavePaymentRequest(r) => NewJob(r) /\ SameRows
  BY <1>2, SavePaymentRequestEffect DEF SavePaymentRequest, TypeInv
<1>6. (\/ \E s \in DOMAIN schedule : LeaseLapses(s)
       \/ \E p \in Pods : ClaimSchedules(p)) => SameJobs /\ SameRows
  BY <1>2, LeaseEffect DEF TypeInv
<1>7. ASSUME NEW p \in Pods, HoldForDebtData(p)
      PROVE  SameJobs /\ SameRows
  <2>1. 0 \notin job[p].found
    BY DEF OneLoopInv, LoopFindsOpen
  <2>2. QED
    BY <1>2, <1>7, <2>1, HoldAndRescheduleEffect
<1>8. ASSUME NEW p \in Pods, FinalizePayment(p)
      PROVE  PaidJob(job[p].schedule, job[p].value)
  <2>1. job[p].schedule \in batch[p] /\ job[p].schedule \in DOMAIN schedule
    BY <1>8 DEF FinalizePayment, TypeInv, TypeOK, JobInBatch, AtWork
  <2>2. schedule[job[p].schedule].done = FALSE
    BY <2>1 DEF OneLoopInv, BatchIsOpen
  <2>3. QED
    BY <1>8, <2>2, FinalizePaymentEffect
<1>9. QED
  BY <1>1, <1>2, <1>3, <1>4, <1>5, <1>6, <1>7, <1>8, Steps, QuietStepEffect,
     ProcessInvalidEffect

\* The loop looks up a schedule while it has claimed one that is open.
LEMMA LoopFindsOpenStep ==
    ASSUME TypeInv, OneLoopInv, [Next]_vars
    PROVE  LoopFindsOpen'
<1>1. /\ job \in [Pods -> Job]
      /\ \A p \in Pods : 0 \notin job[p].found
  BY DEF TypeInv, TypeOK, OneLoopInv, LoopFindsOpen
<1>2. CASE \E p \in Pods : LookUpSchedule(p)
  <2>1. PICK p \in Pods : LookUpSchedule(p)
    BY <1>2
  <2>2. /\ AtWork(p)
        /\ JobRequest(p) \in Requests
        /\ job[p].schedule \in DOMAIN schedule
        /\ job[p].schedule \in batch[p]
    BY <2>1, JobRequestType DEF LookUpSchedule, AtWork, TypeInv, JobInBatch
  <2>3. job[p].schedule \in OpenSchedules(JobRequest(p))
    BY <2>2 DEF OneLoopInv, BatchIsOpen, OpenSchedules, JobRequest
  <2>4. PICK s \in GetExistingSchedule(JobRequest(p)) :
            job' = [job EXCEPT ![p].found = {s}]
    BY <2>1 DEF LookUpSchedule
  <2>5. s # 0
    BY <2>2, <2>3, GetExistingScheduleType DEF TypeInv
  <2>6. \A q \in Pods : job'[q].found = IF q = p THEN {s} ELSE job[q].found
    BY <1>1, <2>4 DEF Job
  <2>7. QED
    BY <1>1, <2>5, <2>6 DEF LoopFindsOpen
<1>3. CASE ~\E p \in Pods : LookUpSchedule(p)
  <2>1. NoJob.found = {}
    BY DEF NoJob
  <2>2. ASSUME NEW p \in Pods, NEW e, e.found = {}, job' = [job EXCEPT ![p] = e]
        PROVE  LoopFindsOpen'
    BY <1>1, <2>2 DEF LoopFindsOpen
  <2>3. ASSUME NEW p \in Pods, TransformPaymentRequest(p)
        PROVE  LoopFindsOpen'
    <3>1. PICK s \in batch[p] :
              LET r == schedule[s].request
                  delta == Value[r] - Total(Previous(r))
                  adjusts == Previous(r) # {}
              IN  \E recovers \in BOOLEAN :
                    job' = [job EXCEPT ![p] =
                       [schedule |-> s, value |-> delta,
                        recovers |-> recovers, adjusts |-> adjusts,
                        found |-> {}]]
      BY <2>3 DEF TransformPaymentRequest
    <3>2. QED
      BY <2>2, <3>1
  <2>4. ASSUME NEW p \in Pods,
               \/ HoldForDebtData(p) \/ HoldForLedgerCheck(p)
               \/ FinalizePayment(p) \/ BatchFails(p) \/ PodRestarts(p)
        PROVE  LoopFindsOpen'
    <3>1. job' = [job EXCEPT ![p] = NoJob]
      BY <2>4 DEF HoldForDebtData, HoldForLedgerCheck, HoldAndReschedule,
                  FinalizePayment, FinishJob, BatchFails, PodRestarts
    <3>2. QED
      BY <2>1, <2>2, <3>1
  <2>5. \/ UNCHANGED job
        \/ \E p \in Pods :
              \/ TransformPaymentRequest(p)
              \/ HoldForDebtData(p) \/ HoldForLedgerCheck(p)
              \/ FinalizePayment(p) \/ BatchFails(p) \/ PodRestarts(p)
    BY <1>3
    DEF Next, Loop, Receive, Fail, SavePaymentRequest, AddHold, RemoveHold, Publish,
        ResetPaymentRequest, LookUpAgain, ProcessInvalid, RejectionFails,
        LeaseLapses, Editor, EditorAddsDebtData, EditorConfirmsLedger,
        ClaimSchedules, ReadBatch, SendForDebtData, SendForLedgerCheck,
        UpdateDebtData, RemoveDebtHold, GetScheduleId, CompleteConfirmed,
        RemoveLedgerHold, EnrichmentFails, ConfirmationFails, vars, work
  <2>6. QED
    BY <1>1, <2>3, <2>4, <2>5 DEF LoopFindsOpen
<1>4. QED
  BY <1>2, <1>3

\* A loop claims open schedules and drops the one it completes.
LEMMA BatchIsOpenStep ==
    ASSUME TypeInv, OneLoopInv, OnePod, [Next]_vars
    PROVE  BatchIsOpen'
<1>1. /\ batch \in [Pods -> SUBSET (DOMAIN schedule)]
      /\ \A s \in DOMAIN schedule : schedule[s] \in ScheduleRow
  BY DEF TypeInv, TypeOK
<1>2. CASE \E p \in Pods : FinalizePayment(p)
  <2>1. PICK p \in Pods : FinalizePayment(p)
    BY <1>2
  <2>2. /\ batch' = [batch EXCEPT ![p] = @ \ {job[p].schedule}]
        /\ \A q \in Pods : q = p
    BY <2>1 DEF FinalizePayment, FinishJob, OnePod
  <2>3. \A s \in DOMAIN schedule \ {job[p].schedule} : schedule'[s] = schedule[s]
    BY <2>1, FinalizePaymentEffect DEF PaidJob
  <2>4. QED
    BY <1>1, <2>2, <2>3 DEF OneLoopInv, BatchIsOpen
<1>3. CASE ~\E p \in Pods : FinalizePayment(p)
  <2>1. \A s \in DOMAIN schedule : schedule'[s].done = schedule[s].done
    <3>1. \A r : NewJob(r) => \A s \in DOMAIN schedule : schedule'[s] = schedule[s]
      BY DEF NewJob
    <3>2. QED
      BY <1>3, <3>1, PaidByLoop DEF SameJobs
  <2>2. \/ \A q \in Pods : batch'[q] \subseteq batch[q]
        \/ \E p \in Pods : ClaimSchedules(p)
    <3>1. \/ \E p \in Pods :
                \/ HoldForDebtData(p) \/ HoldForLedgerCheck(p) \/ ReadBatch(p)
                \/ TransformPaymentRequest(p)
                \/ SendForDebtData(p) \/ SendForLedgerCheck(p)
                \/ BatchFails(p) \/ PodRestarts(p)
          \/ UNCHANGED batch
          \/ \E p \in Pods : ClaimSchedules(p)
      BY <1>3
      DEF Next, Loop, Receive, Fail, SavePaymentRequest, AddHold, RemoveHold,
          Publish, ResetPaymentRequest, LookUpAgain, ProcessInvalid,
          RejectionFails, LeaseLapses, Editor, EditorAddsDebtData,
          EditorConfirmsLedger, LookUpSchedule, UpdateDebtData, RemoveDebtHold,
          GetScheduleId, CompleteConfirmed, RemoveLedgerHold, EnrichmentFails,
          ConfirmationFails, vars, work
    <3>2. ASSUME NEW p \in Pods,
                 \/ HoldForDebtData(p) \/ HoldForLedgerCheck(p) \/ ReadBatch(p)
                 \/ TransformPaymentRequest(p)
                 \/ SendForDebtData(p) \/ SendForLedgerCheck(p)
                 \/ BatchFails(p) \/ PodRestarts(p)
          PROVE  \A q \in Pods : batch'[q] \subseteq batch[q]
      BY <1>1, <3>2
      DEF HoldForDebtData, HoldForLedgerCheck, HoldAndReschedule, FinishJob,
          ReadBatch, TransformPaymentRequest, SendForDebtData, SendForLedgerCheck,
          BatchFails, PodRestarts
    <3>3. QED
      BY <3>1, <3>2
  <2>3. ASSUME NEW p \in Pods, ClaimSchedules(p)
        PROVE  \A q \in Pods : \A s \in batch'[q] :
                  s \in batch[q] \/ (s \in DOMAIN schedule /\ ~schedule[s].done)
    BY <1>1, <2>3 DEF ClaimSchedules, FirstOfAgreement, Claimable
  <2>4. QED
    BY <1>1, <2>1, <2>2, <2>3 DEF OneLoopInv, BatchIsOpen, ScheduleRow
<1>4. QED
  BY <1>2, <1>3

\* The loop stays alone with what it has claimed.
LEMMA OneLoopStep ==
    ASSUME TypeInv, OneLoopInv, OnePod, UseManualLedgerCheck = FALSE, [Next]_vars
    PROVE  OneLoopInv'
<1>1. LedgerUnused'
  BY LedgerUnusedStep DEF OneLoopInv
<1>2. BatchIsOpen'
  BY BatchIsOpenStep
<1>3. LoopFindsOpen'
  BY LoopFindsOpenStep
<1>4. QED
  BY <1>1, <1>2, <1>3 DEF OneLoopInv

\* Steps that neither schedule nor pay leave every request as it was.
LEMMA SameJobsAndRows ==
    ASSUME SameJobs, SameRows, NEW r
    PROVE  OpenSchedules(r)' = OpenSchedules(r) /\ ValidRows(r)' = ValidRows(r)
  BY DEF SameJobs, SameRows, OpenSchedules, ValidRows

\* A new schedule changes no payment and is for one request.
LEMMA NewJobAndRows ==
    ASSUME NEW r, NewJob(r), NEW q, q # r
    PROVE  OpenSchedules(q)' = OpenSchedules(q)
  BY DEF NewJob, OpenSchedules

\* A request that is paid has no other open schedule than the one completed, and
\* nothing happens to the others.
LEMMA PaidJobAndRows ==
    ASSUME NEW s \in DOMAIN schedule, NEW v, PaidJob(s, v),
           NEW r, r = schedule[s].request
    PROVE  /\ OpenSchedules(r)' = OpenSchedules(r) \ {s}
           /\ \E n : ValidRows(r)' = ValidRows(r) \cup {n}
           /\ \A q : q # r => /\ OpenSchedules(q)' = OpenSchedules(q)
                              /\ ValidRows(q)' = ValidRows(q)
<1>1. r = schedule[s].request
  OBVIOUS
<1>2. /\ DOMAIN schedule' = DOMAIN schedule
      /\ \A t \in DOMAIN schedule \ {s} : schedule'[t] = schedule[t]
      /\ schedule'[s].request = r
      /\ schedule'[s].done = TRUE
  BY <1>1 DEF PaidJob
<1>3. PICK n : /\ n \notin DOMAIN completed
               /\ DOMAIN completed' = DOMAIN completed \cup {n}
               /\ \A c \in DOMAIN completed : completed'[c] = completed[c]
               /\ completed'[n].request = r
               /\ completed'[n].valid = TRUE
  BY <1>1 DEF PaidJob
<1>4. OpenSchedules(r)' = OpenSchedules(r) \ {s}
  <2>1. ASSUME NEW t
        PROVE  t \in OpenSchedules(r)' <=> (t \in OpenSchedules(r) /\ t # s)
    <3>1. CASE t = s
      BY <1>2, <3>1 DEF OpenSchedules
    <3>2. CASE t # s
      BY <1>2, <3>2 DEF OpenSchedules
    <3>3. QED
      BY <3>1, <3>2
  <2>2. QED
    BY <2>1
<1>5. ValidRows(r)' = ValidRows(r) \cup {n}
  BY <1>3 DEF ValidRows
<1>6. ASSUME NEW q, q # r
      PROVE  OpenSchedules(q)' = OpenSchedules(q) /\ ValidRows(q)' = ValidRows(q)
  <2>1. OpenSchedules(q)' = OpenSchedules(q)
    BY <1>1, <1>2, <1>6 DEF OpenSchedules
  <2>2. ValidRows(q)' = ValidRows(q)
    BY <1>3, <1>6 DEF ValidRows
  <2>3. QED
    BY <2>1, <2>2
<1>7. QED
  BY <1>1, <1>4, <1>5, <1>6

\* What a rejection that commits leaves of its request and of the others.
LEMMA RejectedRows ==
    ASSUME RefinementInv, NEW x \in rejecting, ProcessInvalid(x)
    PROVE  /\ ValidRows(x.request)' = ValidRows(x.request) \ x.rows
           /\ \A q : q # x.request => /\ OpenSchedules(q)' = OpenSchedules(q)
                                      /\ ValidRows(q)' = ValidRows(q)
<1>1. /\ \A d \in DOMAIN completed : completed[d] \in CompletedRow
      /\ \A d \in x.rows : completed[d].request = x.request
  BY DEF RefinementInv, TypeInv, TypeOK, RejectingInv
<1>2. /\ DOMAIN completed' = DOMAIN completed
      /\ \A d \in DOMAIN completed :
            /\ completed'[d].request = completed[d].request
            /\ completed'[d].valid = IF d \in x.rows THEN FALSE ELSE completed[d].valid
  BY <1>1 DEF ProcessInvalid, CompletedRow
<1>3. ValidRows(x.request)' = ValidRows(x.request) \ x.rows
  BY <1>2 DEF ValidRows
<1>4. \A q : q # x.request => ValidRows(q)' = ValidRows(q)
  BY <1>1, <1>2 DEF ValidRows
<1>5. IF x.found = 0 THEN NewJob(x.request) ELSE SameJobs
  BY ProcessInvalidEffect DEF RefinementInv
<1>6. SameJobs => \A q : OpenSchedules(q)' = OpenSchedules(q)
  BY DEF SameJobs, OpenSchedules
<1>7. \A q : q # x.request => OpenSchedules(q)' = OpenSchedules(q)
  BY <1>5, <1>6, NewJobAndRows
<1>8. QED
  BY <1>3, <1>4, <1>7

\* A rejection begins or looks again, or there are no others than there were; what
\* was overtaken stays so.
LEMMA RejectionsUnderWay ==
    ASSUME [Next]_vars
    PROVE  /\ \/ \E c \in DOMAIN completed : ResetPaymentRequest(c)
              \/ \E x \in rejecting : LookUpAgain(x)
              \/ rejecting' \subseteq rejecting
           /\ overtaken \subseteq overtaken'
<1>1. CASE \E x \in rejecting : ProcessInvalid(x)
  BY <1>1 DEF ProcessInvalid
<1>2. CASE ~\E x \in rejecting : ProcessInvalid(x)
  <2>1. UNCHANGED overtaken
    BY <1>2
    DEF Next, Loop, Receive, Fail, SavePaymentRequest, AddHold, RemoveHold, Publish,
        ResetPaymentRequest, LookUpAgain, RejectionFails, LeaseLapses, Editor,
        EditorAddsDebtData, EditorConfirmsLedger, ClaimSchedules, ReadBatch,
        TransformPaymentRequest, SendForDebtData, HoldForDebtData,
        SendForLedgerCheck, LookUpSchedule, HoldForLedgerCheck, HoldAndReschedule,
        FinalizePayment, UpdateDebtData, RemoveDebtHold, GetScheduleId,
        CompleteConfirmed, RemoveLedgerHold, BatchFails, EnrichmentFails,
        ConfirmationFails, PodRestarts, vars, acknowledging
  <2>2. \/ \E c \in DOMAIN completed : ResetPaymentRequest(c)
        \/ \E x \in rejecting : LookUpAgain(x)
        \/ rejecting' \subseteq rejecting
    BY <1>2
    DEF Next, Loop, Receive, Fail, SavePaymentRequest, AddHold, RemoveHold, Publish,
        RejectionFails, LeaseLapses, Editor,
        EditorAddsDebtData, EditorConfirmsLedger, ClaimSchedules, ReadBatch,
        TransformPaymentRequest, SendForDebtData, HoldForDebtData,
        SendForLedgerCheck, LookUpSchedule, HoldForLedgerCheck, HoldAndReschedule,
        FinalizePayment, UpdateDebtData, RemoveDebtHold, GetScheduleId,
        CompleteConfirmed, RemoveLedgerHold, BatchFails, EnrichmentFails,
        ConfirmationFails, PodRestarts, vars, acknowledging
  <2>3. QED
    BY <2>1, <2>2
<1>3. QED
  BY <1>1, <1>2

\* The request of a rejection has been saved, and is a request.
LEMMA RejectedIsSaved ==
    ASSUME RefinementInv, NEW x \in rejecting
    PROVE  x.request \in saved /\ x.request \in Requests
<1>1. PICK c \in x.rows : c \in DOMAIN completed /\ completed[c].request = x.request
  BY DEF RefinementInv, RejectingInv
<1>2. QED
  BY <1>1 DEF RefinementInv, SavedInv, TypeInv, TypeOK

\* Where a rejection found no schedule none is made and nothing paid before it
\* commits: intake only schedules what is new, and the loop completes what it has
\* claimed.
LEMMA NoneFoundStep ==
    ASSUME RefinementInv, OneLoopInv, NoneFound, [Next]_vars
    PROVE  NoneFound'
<1>1. TypeInv /\ SavedInv /\ RejectingInv
  BY DEF RefinementInv
<1>2. CASE \E c \in DOMAIN completed : ResetPaymentRequest(c)
  <2>1. PICK c \in DOMAIN completed : ResetPaymentRequest(c)
    BY <1>2
  <2> DEFINE r == completed[c].request
  <2>2. PICK s \in GetExistingSchedule(r) :
            rejecting' = rejecting \cup
               {[request |-> r, rows |-> InvalidatePaymentRequests(c),
                 found |-> s, again |-> FALSE]}
    BY <2>1 DEF ResetPaymentRequest
  <2>3. r \in Requests
    <3>1. completed[c] \in CompletedRow
      BY <1>1 DEF TypeInv, TypeOK
    <3>2. QED
      BY <3>1 DEF CompletedRow
  <2>4. s = 0 => OpenSchedules(r) = {}
    BY <1>1, <2>3, GetExistingScheduleType DEF TypeInv
  <2>5. ValidRows(r) \subseteq InvalidatePaymentRequests(c)
    BY DEF ValidRows, InvalidatePaymentRequests
  <2>6. UNCHANGED <<schedule, completed>>
    BY <2>1 DEF ResetPaymentRequest
  <2>7. ASSUME NEW x \in rejecting', x.found = 0
        PROVE  OpenSchedules(x.request) = {} /\ (~x.again => ValidRows(x.request) \subseteq x.rows)
    <3>1. CASE x \in rejecting
      BY <2>7, <3>1 DEF NoneFound
    <3>2. CASE x \notin rejecting
      <4>1. x = [request |-> r, rows |-> InvalidatePaymentRequests(c),
                 found |-> s, again |-> FALSE]
        BY <2>2, <3>2
      <4>2. QED
        BY <2>4, <2>5, <2>7, <4>1
    <3>3. QED
      BY <3>1, <3>2
  <2>8. QED
    BY <2>6, <2>7 DEF NoneFound, OpenSchedules, ValidRows
<1>3. CASE \E x \in rejecting : LookUpAgain(x)
  <2>1. PICK y \in rejecting : LookUpAgain(y)
    BY <1>3
  <2>2. PICK s \in GetExistingSchedule(y.request) :
            rejecting' = (rejecting \ {y}) \cup {[y EXCEPT !.found = s, !.again = TRUE]}
    BY <2>1 DEF LookUpAgain
  <2>3. y.request \in Requests /\ y \in Rejection
    BY <1>1 DEF TypeInv, TypeOK, Rejection
  <2>4. s = 0 => OpenSchedules(y.request) = {}
    BY <1>1, <2>3, GetExistingScheduleType DEF TypeInv
  <2>5. UNCHANGED <<schedule, completed>>
    BY <2>1 DEF LookUpAgain
  <2>6. ASSUME NEW x \in rejecting', x.found = 0
        PROVE  OpenSchedules(x.request) = {} /\ (~x.again => ValidRows(x.request) \subseteq x.rows)
    <3>1. CASE x \in rejecting
      BY <2>6, <3>1 DEF NoneFound
    <3>2. CASE x \notin rejecting
      <4>1. x.request = y.request /\ x.found = s /\ x.again = TRUE
        BY <2>2, <2>3, <3>2 DEF Rejection
      <4>2. QED
        BY <2>4, <2>6, <4>1
    <3>3. QED
      BY <3>1, <3>2
  <2>7. QED
    BY <2>5, <2>6 DEF NoneFound, OpenSchedules, ValidRows
<1>4. CASE rejecting' \subseteq rejecting
  <2>1. ASSUME \A x \in rejecting' : x.found = 0 =>
                  /\ OpenSchedules(x.request)' \subseteq OpenSchedules(x.request)
                  /\ ValidRows(x.request)' \subseteq ValidRows(x.request)
        PROVE  NoneFound'
    BY <1>4, <2>1 DEF NoneFound
  <2>2. ASSUME SameJobs, SameRows
        PROVE  NoneFound'
    BY <2>1, <2>2, SameJobsAndRows
  <2>3. ASSUME NEW r \in Requests, SavePaymentRequest(r), NewJob(r), SameRows
        PROVE  NoneFound'
    <3>1. \A x \in rejecting' : x.request # r
      BY <1>4, <2>3, RejectedIsSaved DEF SavePaymentRequest
    <3>2. \A q : ValidRows(q)' = ValidRows(q)
      BY <2>3 DEF SameRows, ValidRows
    <3>3. QED
      BY <2>1, <2>3, <3>1, <3>2, NewJobAndRows
  <2>4. ASSUME NEW y \in rejecting, ProcessInvalid(y)
        PROVE  NoneFound'
    <3>1. \A x \in rejecting' : x.request # y.request
      BY <1>1, <2>4 DEF ProcessInvalid, RejectingInv
    <3>2. QED
      BY <2>1, <2>4, <3>1, RejectedRows
  <2>5. ASSUME NEW p \in Pods, FinalizePayment(p),
               PaidJob(job[p].schedule, job[p].value)
        PROVE  NoneFound'
    <3>1. PICK s, v : s = job[p].schedule /\ v = job[p].value
      OBVIOUS
    <3>2. s \in DOMAIN schedule /\ s \in batch[p]
      BY <1>1, <2>5, <3>1 DEF FinalizePayment, TypeInv, TypeOK, JobInBatch, AtWork
    <3>3. s \in OpenSchedules(schedule[s].request)
      BY <3>2 DEF OneLoopInv, BatchIsOpen, OpenSchedules
    <3>4. \A x \in rejecting : x.found = 0 => x.request # schedule[s].request
      BY <3>3 DEF NoneFound
    <3>5. \A q : q # schedule[s].request => /\ OpenSchedules(q)' = OpenSchedules(q)
                                            /\ ValidRows(q)' = ValidRows(q)
      <4>1. PICK r : r = schedule[s].request
        OBVIOUS
      <4>2. \A q : q # r => /\ OpenSchedules(q)' = OpenSchedules(q)
                            /\ ValidRows(q)' = ValidRows(q)
        BY <2>5, <3>1, <3>2, <4>1, PaidJobAndRows
      <4>3. QED
        BY <4>1, <4>2
    <3>6. QED
      BY <1>4, <2>1, <3>4, <3>5
  <2>6. QED
    BY <1>1, <2>2, <2>3, <2>4, <2>5, PaidByLoop
<1>5. QED
  BY <1>2, <1>3, <1>4, RejectionsUnderWay

\* A schedule is made for a request that is new, or that has none that is open.
LEMMA OneOpenScheduleStep ==
    ASSUME RefinementInv, OneLoopInv, NoneFound, OneOpenSchedule, [Next]_vars
    PROVE  OneOpenSchedule'
<1>1. TypeInv /\ SavedInv
  BY DEF RefinementInv
<1>2. ASSUME \A r \in Requests : OpenSchedules(r)' \subseteq OpenSchedules(r)
      PROVE  OneOpenSchedule'
  BY <1>2 DEF OneOpenSchedule
<1>3. ASSUME SameJobs
      PROVE  OneOpenSchedule'
  <2>1. \A r : OpenSchedules(r)' = OpenSchedules(r)
    BY <1>3 DEF SameJobs, OpenSchedules
  <2>2. QED
    BY <1>2, <2>1
<1>4. ASSUME NEW r \in Requests, NewJob(r), OpenSchedules(r) = {}
      PROVE  OneOpenSchedule'
  <2>1. PICK n : OpenSchedules(r)' \subseteq {n}
    <3>1. PICK n : /\ DOMAIN schedule' = DOMAIN schedule \cup {n}
                   /\ \A s \in DOMAIN schedule : schedule'[s] = schedule[s]
      BY <1>4 DEF NewJob
    <3>2. OpenSchedules(r)' \subseteq {n}
      BY <1>4, <3>1 DEF OpenSchedules
    <3>3. QED
      BY <3>2
  <2>2. QED
    BY <1>4, <2>1, NewJobAndRows DEF OneOpenSchedule
<1>5. ASSUME NEW r \in Requests, SavePaymentRequest(r), NewJob(r)
      PROVE  OneOpenSchedule'
  <2>1. OpenSchedules(r) = {}
    BY <1>1, <1>5 DEF SavePaymentRequest, SavedInv, Scheduled, OpenSchedules
  <2>2. QED
    BY <1>4, <1>5, <2>1
<1>6. ASSUME NEW x \in rejecting, ProcessInvalid(x),
             IF x.found = 0 THEN NewJob(x.request) ELSE SameJobs
      PROVE  OneOpenSchedule'
  <2>1. x.found = 0 => OpenSchedules(x.request) = {}
    BY DEF NoneFound
  <2>2. QED
    BY <1>3, <1>4, <1>6, <2>1, RejectedIsSaved
<1>7. ASSUME NEW p \in Pods, FinalizePayment(p),
             PaidJob(job[p].schedule, job[p].value)
      PROVE  OneOpenSchedule'
  <2>1. PICK s, v : s = job[p].schedule /\ v = job[p].value
    OBVIOUS
  <2>2. s \in DOMAIN schedule
    BY <1>1, <1>7, <2>1, FinalizePaymentEffect
  <2>3. PICK r : r = schedule[s].request
    OBVIOUS
  <2>4. /\ OpenSchedules(r)' = OpenSchedules(r) \ {s}
        /\ \A q : q # r => /\ OpenSchedules(q)' = OpenSchedules(q)
                           /\ ValidRows(q)' = ValidRows(q)
    BY <1>7, <2>1, <2>2, <2>3, PaidJobAndRows
  <2>5. \A q : OpenSchedules(q)' \subseteq OpenSchedules(q)
    BY <2>4
  <2>6. QED
    BY <1>2, <2>5
<1>8. QED
  BY <1>1, <1>3, <1>5, <1>6, <1>7, PaidByLoop

ScheduledInv == OneLoopInv /\ NoneFound /\ OneOpenSchedule

\* What one loop relies on holds always.
LEMMA ScheduledInvHolds ==
    ASSUME OnePod, UseManualLedgerCheck = FALSE
    PROVE  Spec => []ScheduledInv
<1>1. Init => ScheduledInv
  BY DEF Init, ScheduledInv, OneLoopInv, LedgerUnused, BatchIsOpen, LoopFindsOpen,
         NoneFound, OneOpenSchedule, OpenSchedules, NoJob
<1>2. RefinementInv /\ ScheduledInv /\ [Next]_vars => ScheduledInv'
  BY OneLoopStep, NoneFoundStep, OneOpenScheduleStep DEF ScheduledInv, RefinementInv
<1>3. QED
  BY <1>1, <1>2, RefinementInvHolds, PTL DEF Spec

\* ensureScheduled looks a schedule up and makes one in two statements, with no
\* index to keep them together: with one pod and ledger checks off no request ever
\* waits in the schedule table twice all the same, as the loop looks up what it has
\* itself claimed and the rejections of a request wait for each other, whatever
\* commits between their statements.
THEOREM ScheduledOnce ==
    ASSUME OnePod, UseManualLedgerCheck = FALSE
    PROVE  Spec => []OneOpenSchedule
<1>1. ScheduledInv => OneOpenSchedule
  BY DEF ScheduledInv
<1>2. QED
  BY <1>1, ScheduledInvHolds, PTL

\* A request is paid when it has an open schedule, hence no payment that stands, and
\* scheduled when it has neither or its payments have just been voided.
LEMMA NoDoublePaymentStep ==
    ASSUME RefinementInv, ScheduledInv, NoDoublePayment, [Next]_vars
    PROVE  NoDoublePayment'
<1>1. TypeInv /\ SavedInv /\ OneLoopInv /\ NoneFound /\ OneOpenSchedule
  BY DEF RefinementInv, ScheduledInv
<1>2. Requests \ overtaken' \subseteq Requests \ overtaken
  BY RejectionsUnderWay
<1>3. ASSUME SameJobs, SameRows
      PROVE  NoDoublePayment'
  BY <1>2, <1>3, SameJobsAndRows DEF NoDoublePayment
<1>4. ASSUME NEW r \in Requests, SavePaymentRequest(r), NewJob(r), SameRows
      PROVE  NoDoublePayment'
  <2>1. ValidRows(r) = {}
    BY <1>1, <1>4 DEF SavePaymentRequest, SavedInv, ValidRows
  <2>2. \A q \in Requests : ValidRows(q)' = ValidRows(q)
    BY <1>4 DEF SameRows, ValidRows
  <2>3. QED
    BY <1>2, <1>4, <2>1, <2>2, NewJobAndRows DEF NoDoublePayment
<1>5. ASSUME NEW x \in rejecting, ProcessInvalid(x)
      PROVE  NoDoublePayment'
  <2>1. PICK r \in Requests : r = x.request
    BY RejectedIsSaved
  <2>2. r \notin overtaken' => ValidRows(r)' = {}
    <3>1. SUFFICES ASSUME r \notin overtaken'
                   PROVE  ValidRows(r)' = {}
      OBVIOUS
    <3>2. ~x.again /\ ~Overtaken(x)
      BY <1>5, <2>1, <3>1 DEF ProcessInvalid
    <3>3. CASE x.found = 0
      <4>1. ValidRows(r) \subseteq x.rows
        BY <1>1, <2>1, <3>2, <3>3 DEF NoneFound
      <4>2. QED
        BY <1>5, <2>1, <4>1, RejectedRows
    <3>4. CASE x.found # 0
      <4>1. x.found \in OpenSchedules(r)
        BY <1>1, <2>1, <3>2, <3>4
        DEF TypeInv, OwnSchedules, IsScheduleOf, Overtaken, OpenSchedules
      <4>2. ValidRows(r) = {}
        BY <1>2, <3>1, <4>1 DEF NoDoublePayment
      <4>3. QED
        BY <1>5, <2>1, <4>2, RejectedRows
    <3>5. QED
      BY <3>3, <3>4
  <2>3. \A q : q # r => OpenSchedules(q)' = OpenSchedules(q) /\ ValidRows(q)' = ValidRows(q)
    BY <1>5, <2>1, RejectedRows
  <2>4. QED
    BY <1>2, <2>2, <2>3 DEF NoDoublePayment
<1>6. ASSUME NEW p \in Pods, FinalizePayment(p),
             PaidJob(job[p].schedule, job[p].value)
      PROVE  NoDoublePayment'
  <2>1. PICK s, r, v : s = job[p].schedule /\ r = schedule[s].request /\ v = job[p].value
    OBVIOUS
  <2>2. s \in DOMAIN schedule /\ s \in batch[p]
    BY <1>1, <1>6, <2>1 DEF FinalizePayment, TypeInv, TypeOK, JobInBatch, AtWork
  <2>3. r \in Requests
    <3>1. schedule[s] \in ScheduleRow
      BY <1>1, <2>2 DEF TypeInv, TypeOK
    <3>2. QED
      BY <2>1, <3>1 DEF ScheduleRow
  <2>4. s \in OpenSchedules(r)
    BY <1>1, <2>1, <2>2 DEF OneLoopInv, BatchIsOpen, OpenSchedules
  <2>5. r \notin overtaken => ValidRows(r) = {}
    BY <2>3, <2>4 DEF NoDoublePayment
  <2>6. OpenSchedules(r) = {s}
    BY <1>1, <2>3, <2>4 DEF OneOpenSchedule
  <2>7. /\ OpenSchedules(r)' = OpenSchedules(r) \ {s}
        /\ \E n : ValidRows(r)' = ValidRows(r) \cup {n}
        /\ \A q : q # r => /\ OpenSchedules(q)' = OpenSchedules(q)
                           /\ ValidRows(q)' = ValidRows(q)
    BY <1>6, <2>1, <2>2, PaidJobAndRows
  <2>8. PICK n : ValidRows(r)' = ValidRows(r) \cup {n}
    BY <2>7
  <2>9. OpenSchedules(r)' = {}
    BY <2>6, <2>7
  <2>10. QED
    BY <1>2, <2>5, <2>7, <2>8, <2>9 DEF NoDoublePayment
<1>7. QED
  BY <1>1, <1>3, <1>4, <1>5, <1>6, PaidByLoop

\* processPaymentRequest and processInvalid: with one pod and ledger checks off no
\* request is validly completed twice, nor waits to be paid again while it is,
\* however often its lease lapses, it is held, its loop fails or DAX rejects it:
\* unless its schedule was completed after a rejection had looked it up and before
\* it was freed.  Then the rejection schedules it once more, and nothing in the code
\* keeps it from being paid again.
THEOREM PaidOnce ==
    ASSUME OnePod, UseManualLedgerCheck = FALSE
    PROVE  Spec => []NoDoublePayment
<1>1. Init => NoDoublePayment
  BY DEF Init, NoDoublePayment, ValidRows
<1>2. RefinementInv /\ ScheduledInv /\ NoDoublePayment /\ [Next]_vars => NoDoublePayment'
  BY NoDoublePaymentStep
<1>3. QED
  BY <1>1, <1>2, RefinementInvHolds, ScheduledInvHolds, PTL DEF Spec
-----------------------------------------------------------------------------
(* What is paid adds up.  The requests of an agreement are completed in the *)
(* order of their numbers, each when all before it are, so that a delta is  *)
(* taken against everything that has been paid.                             *)

\* The requests of an agreement have different numbers.
DistinctNumbers ==
    \A q, r \in Requests :
        (AgreementOf[q] = AgreementOf[r] /\ Number[q] = Number[r]) => q = r

\* Requests of an agreement arrive in the order of their numbers.
SavedInOrder ==
    \A q \in saved : \A r \in Requests :
        (AgreementOf[r] = AgreementOf[q] /\ Number[r] < Number[q]) => r \in saved

\* Every request of the agreement before q has arrived and is completed.
LowerDone(q) ==
    \A r \in Requests :
        (AgreementOf[r] = AgreementOf[q] /\ Number[r] < Number[q])
            => r \in saved /\ OpenSchedules(r) = {}

AllValid == \A c \in DOMAIN completed : completed[c].valid = TRUE

RowsInOrder ==
    \A c \in DOMAIN completed :
        AgreementOf[completed[c].request] \in WithContract
            => LowerDone(completed[c].request)

BatchInOrder ==
    \A p \in Pods : \A s \in batch[p] :
        AgreementOf[schedule[s].request] \in WithContract
            => LowerDone(schedule[s].request)

\* What the rows say was paid.
Paid(rows) == SumOf(ValuesOf(completed), rows)

\* A loop still has the delta that the rows give.
DeltaIsCurrent ==
    \A p \in Pods : AtWork(p) =>
        job[p].value = Value[JobRequest(p)] - Paid(Previous(JobRequest(p)))

\* The latest row of an agreement brought its total to the value of its request.
PaidIsLatestValue ==
    \A a \in WithContract : ClaimsAlone(a) => \A c \in PaidRows(a) :
        (\A d \in PaidRows(a) : Number[completed[d].request] <= Number[completed[c].request])
            => Paid(PaidRows(a)) = Value[completed[c].request]

\* DAX rejected nothing.
NotRejected == rejecting = {} /\ overtaken = {}

PaidInv ==
    rejections = 0 =>
        /\ NotRejected
        /\ AllValid /\ RowsInOrder /\ BatchInOrder /\ DeltaIsCurrent /\ PaidIsLatestValue

\* Only DAX rejects.
LEMMA RejectionsCounted ==
    ASSUME [Next]_vars
    PROVE  \/ UNCHANGED rejections
           \/ rejections' = rejections + 1
  BY DEF Next, Loop, Receive, Fail, SavePaymentRequest, AddHold, RemoveHold, Publish,
         ResetPaymentRequest, LookUpAgain, ProcessInvalid, RejectionFails,
         LeaseLapses, Editor, EditorAddsDebtData, EditorConfirmsLedger,
         ClaimSchedules, ReadBatch, TransformPaymentRequest, SendForDebtData,
         HoldForDebtData, SendForLedgerCheck, LookUpSchedule, HoldForLedgerCheck,
         HoldAndReschedule, FinalizePayment, UpdateDebtData, RemoveDebtHold,
         CompleteMessage, GetScheduleId, CompleteConfirmed, RemoveLedgerHold,
         BatchFails, EnrichmentFails, ConfirmationFails, PodRestarts, vars, bounds

\* Until DAX rejects something there is nothing to overtake.
LEMMA NotRejectedStep ==
    ASSUME NotRejected, rejections \in Nat, rejections' = 0, [Next]_vars
    PROVE  NotRejected'
<1>1. \A c \in DOMAIN completed : ~ResetPaymentRequest(c)
  BY DEF ResetPaymentRequest
<1>2. rejecting' = {}
  BY <1>1, RejectionsUnderWay DEF NotRejected
<1>3. UNCHANGED overtaken
  BY DEF Next, Loop, Receive, Fail, SavePaymentRequest, AddHold, RemoveHold, Publish,
         ResetPaymentRequest, LeaseLapses, Editor, EditorAddsDebtData,
         EditorConfirmsLedger, ClaimSchedules, ReadBatch, TransformPaymentRequest,
         SendForDebtData, HoldForDebtData, SendForLedgerCheck, LookUpSchedule,
         HoldForLedgerCheck, HoldAndReschedule, FinalizePayment, UpdateDebtData,
         RemoveDebtHold, GetScheduleId, CompleteConfirmed, RemoveLedgerHold,
         BatchFails, EnrichmentFails, ConfirmationFails, PodRestarts, vars,
         acknowledging, NotRejected
<1>4. QED
  BY <1>2, <1>3 DEF NotRejected

\* Only intake saves requests.
LEMMA OnlyIntakeSaves ==
    ASSUME [Next]_vars, ~\E r \in Requests : SavePaymentRequest(r)
    PROVE  UNCHANGED saved
  BY DEF Next, Loop, Receive, Fail, AddHold, RemoveHold, Publish,
         ResetPaymentRequest, LookUpAgain, ProcessInvalid, RejectionFails,
         LeaseLapses, Editor, EditorAddsDebtData, EditorConfirmsLedger,
         ClaimSchedules, ReadBatch, TransformPaymentRequest, SendForDebtData,
         HoldForDebtData, SendForLedgerCheck, LookUpSchedule, HoldForLedgerCheck,
         HoldAndReschedule, FinalizePayment, UpdateDebtData, RemoveDebtHold,
         GetScheduleId, CompleteConfirmed, RemoveLedgerHold, BatchFails,
         EnrichmentFails, ConfirmationFails, PodRestarts, vars

\* Intake keeps the order it is given.
LEMMA SavedInOrderStep ==
    ASSUME SavedInOrder, OrderedIntake = TRUE, [Next]_vars
    PROVE  SavedInOrder'
<1>1. CASE \E r \in Requests : SavePaymentRequest(r)
  BY <1>1 DEF SavePaymentRequest, SavedInOrder
<1>2. CASE ~\E r \in Requests : SavePaymentRequest(r)
  BY <1>2, OnlyIntakeSaves DEF SavedInOrder
<1>3. QED
  BY <1>1, <1>2

\* A request that is claimed has nothing before it.
LEMMA ClaimedLowerDone ==
    ASSUME TypeInv, SavedInv, SavedInOrder, NEW s \in FirstOfAgreement,
           AgreementAt(s) \in WithContract
    PROVE  LowerDone(schedule[s].request)
<1>1. \A t \in DOMAIN schedule : schedule[t] \in ScheduleRow /\ t \in Nat
  BY DEF TypeInv, TypeOK
<1>2. s \in DOMAIN schedule /\ schedule[s].request \in saved
  BY DEF FirstOfAgreement, Claimable, SavedInv, Scheduled
<1>3. ASSUME NEW r \in Requests, AgreementOf[r] = AgreementAt(s),
             Number[r] < Number[schedule[s].request], NEW t \in OpenSchedules(r)
      PROVE  FALSE
  <2>1. t \in DOMAIN schedule /\ schedule[t].request = r /\ ~schedule[t].done
    BY DEF OpenSchedules
  <2>2. s # t => Precedes(s, t)
    BY <1>3, <2>1, ClaimedInOrder DEF AgreementAt
  <2>3. Number[r] \in Nat /\ Number[schedule[s].request] \in Nat
    BY <1>1, <1>2, ProcessingAssumption DEF ScheduleRow
  <2>4. QED
    BY <1>3, <2>1, <2>2, <2>3 DEF Precedes
<1>4. QED
  BY <1>2, <1>3 DEF LowerDone, SavedInOrder, AgreementAt

\* The order of completion is kept: a request that has arrived and been completed is
\* scheduled again only when DAX rejects it.
LEMMA LowerDoneStep ==
    ASSUME RefinementInv, OneLoopInv, NotRejected, [Next]_vars,
           NEW q, LowerDone(q)
    PROVE  LowerDone(q)'
<1>1. TypeInv /\ SavedInv
  BY DEF RefinementInv
<1>2. saved \subseteq saved'
  BY OnlyIntakeSaves DEF SavePaymentRequest
<1>3. ASSUME \A r \in saved : OpenSchedules(r)' \subseteq OpenSchedules(r)
      PROVE  LowerDone(q)'
  BY <1>2, <1>3 DEF LowerDone
<1>4. ASSUME SameJobs
      PROVE  LowerDone(q)'
  <2>1. \A r : OpenSchedules(r)' = OpenSchedules(r)
    BY <1>4 DEF SameJobs, OpenSchedules
  <2>2. QED
    BY <1>3, <2>1
<1>5. ASSUME NEW r \in Requests, SavePaymentRequest(r), NewJob(r)
      PROVE  LowerDone(q)'
  BY <1>3, <1>5, NewJobAndRows DEF SavePaymentRequest
<1>6. ASSUME NEW s, NEW v, s \in DOMAIN schedule, PaidJob(s, v)
      PROVE  LowerDone(q)'
  <2>1. PICK u : u = schedule[s].request
    OBVIOUS
  <2>2. /\ OpenSchedules(u)' = OpenSchedules(u) \ {s}
        /\ \A r : r # u => OpenSchedules(r)' = OpenSchedules(r)
    BY <1>6, <2>1, PaidJobAndRows
  <2>3. \A r : OpenSchedules(r)' \subseteq OpenSchedules(r)
    BY <2>2
  <2>4. QED
    BY <1>3, <2>3
<1>7. QED
  BY <1>1, <1>4, <1>5, <1>6, PaidByLoop, FinalizePaymentEffect DEF NotRejected

\* What a batch is before a step: the claim takes first schedules, the rest of the
\* loop drops them.
LEMMA BatchStep ==
    ASSUME TypeInv, [Next]_vars, NEW p \in Pods, NEW s \in batch'[p]
    PROVE  s \in batch[p] \/ s \in FirstOfAgreement
<1>1. batch \in [Pods -> SUBSET (DOMAIN schedule)]
  BY DEF TypeInv, TypeOK
<1>2. \/ \E q \in Pods :
            \/ HoldForDebtData(q) \/ HoldForLedgerCheck(q) \/ FinalizePayment(q)
            \/ BatchFails(q) \/ PodRestarts(q)
      \/ UNCHANGED batch
      \/ \E q \in Pods : ClaimSchedules(q)
  BY DEF Next, Loop, Receive, Fail, SavePaymentRequest, AddHold, RemoveHold,
         Publish, ResetPaymentRequest, LookUpAgain, ProcessInvalid, RejectionFails,
         LeaseLapses, Editor, EditorAddsDebtData, EditorConfirmsLedger, ReadBatch,
         TransformPaymentRequest, SendForDebtData, SendForLedgerCheck,
         LookUpSchedule, UpdateDebtData, RemoveDebtHold, GetScheduleId,
         CompleteConfirmed, RemoveLedgerHold, EnrichmentFails, ConfirmationFails,
         vars, work
<1>3. ASSUME NEW q \in Pods,
             \/ HoldForDebtData(q) \/ HoldForLedgerCheck(q) \/ FinalizePayment(q)
             \/ BatchFails(q) \/ PodRestarts(q)
      PROVE  s \in batch[p]
  BY <1>1, <1>3
  DEF HoldForDebtData, HoldForLedgerCheck, HoldAndReschedule, FinalizePayment,
      FinishJob, BatchFails, PodRestarts
<1>4. ASSUME NEW q \in Pods, ClaimSchedules(q)
      PROVE  s \in batch[p] \/ s \in FirstOfAgreement
  BY <1>1, <1>4 DEF ClaimSchedules
<1>5. QED
  BY <1>2, <1>3, <1>4

\* What is claimed is next in its agreement, and stays so.
LEMMA BatchInOrderStep ==
    ASSUME RefinementInv, OneLoopInv, NotRejected, SavedInOrder, BatchInOrder,
           [Next]_vars
    PROVE  BatchInOrder'
<1>1. TypeInv /\ SavedInv /\ batch \in [Pods -> SUBSET (DOMAIN schedule)]
  BY DEF RefinementInv, TypeInv, TypeOK
<1>2. ASSUME NEW p \in Pods, NEW s \in batch'[p],
             AgreementOf[schedule'[s].request] \in WithContract
      PROVE  LowerDone(schedule[s].request)'
  <2>1. s \in batch[p] \/ s \in FirstOfAgreement
    BY <1>1, <1>2, BatchStep
  <2>2. s \in DOMAIN schedule
    BY <1>1, <2>1 DEF FirstOfAgreement, Claimable
  <2>3. PICK q : q = schedule[s].request
    OBVIOUS
  <2>4. schedule'[s].request = q
    BY <1>1, <2>2, <2>3, KeepsJobsStep DEF KeepsJobs
  <2>5. LowerDone(q)
    BY <1>1, <1>2, <2>1, <2>3, <2>4, ClaimedLowerDone DEF BatchInOrder, AgreementAt
  <2>6. LowerDone(q)'
    BY <2>5, LowerDoneStep
  <2>7. QED
    BY <2>4, <2>6
<1>3. QED
  BY <1>2 DEF BatchInOrder

\* Rows that keep what was paid give the same sums.
LEMMA SameRowsPaid ==
    ASSUME SameRows
    PROVE  /\ ValuesOf(completed') = ValuesOf(completed)
           /\ \A r : Previous(r)' = Previous(r)
           /\ \A a : PaidRows(a)' = PaidRows(a)
  BY DEF SameRows, ValuesOf, Previous, PaidRows

\* What a loop works on, and for what value.
SameJobAs(p) ==
    job'[p].schedule = job[p].schedule /\ job'[p].value = job[p].value

\* A loop at work was at work on the same job, or has just taken it up.
LEMMA WorkStep ==
    ASSUME TypeInv, [Next]_vars, NEW p \in Pods, AtWork(p)'
    PROVE  \/ AtWork(p) /\ SameJobAs(p)
           \/ TransformPaymentRequest(p)
<1>1. phase \in [Pods -> Phase] /\ job \in [Pods -> Job]
  BY DEF TypeInv, TypeOK
<1>2. \/ \E q \in Pods : Loop(q) \/ BatchFails(q) \/ PodRestarts(q)
      \/ UNCHANGED <<phase, job>>
  BY DEF Next, Receive, Fail, SavePaymentRequest, AddHold, RemoveHold,
         Publish, ResetPaymentRequest, LookUpAgain, ProcessInvalid, RejectionFails,
         LeaseLapses, Editor, EditorAddsDebtData, EditorConfirmsLedger, UpdateDebtData, RemoveDebtHold, GetScheduleId,
         CompleteConfirmed, RemoveLedgerHold, EnrichmentFails, ConfirmationFails,
         vars, work
<1>3. ASSUME NEW q \in Pods, Loop(q) \/ BatchFails(q) \/ PodRestarts(q), q # p
      PROVE  phase'[p] = phase[p] /\ job'[p] = job[p]
  BY <1>1, <1>3
  DEF Loop, ClaimSchedules, ReadBatch, TransformPaymentRequest, SendForDebtData,
      HoldForDebtData, SendForLedgerCheck, LookUpSchedule, HoldForLedgerCheck,
      HoldAndReschedule,
      FinalizePayment, FinishJob, BatchFails, PodRestarts
<1>4. ASSUME Loop(p) \/ BatchFails(p) \/ PodRestarts(p)
      PROVE  \/ AtWork(p) /\ SameJobAs(p)
             \/ TransformPaymentRequest(p)
  BY <1>1, <1>4
  DEF SameJobAs, Job, Loop, ClaimSchedules, ReadBatch, SendForDebtData,
      HoldForDebtData, SendForLedgerCheck, LookUpSchedule, HoldForLedgerCheck,
      HoldAndReschedule,
      FinalizePayment, FinishJob, BatchFails, PodRestarts, AtWork
<1>5. QED
  BY <1>2, <1>3, <1>4 DEF AtWork, SameJobAs

\* A loop takes up a request with the delta that the rows give.
LEMMA TransformPaymentRequestDelta ==
    ASSUME TypeInv, NEW p \in Pods, TransformPaymentRequest(p)
    PROVE  \E s \in DOMAIN schedule :
              /\ job'[p].schedule = s
              /\ job'[p].value = Value[schedule[s].request]
                                   - Paid(Previous(schedule[s].request))
              /\ UNCHANGED schedule
<1>1. job \in [Pods -> Job] /\ batch \in [Pods -> SUBSET (DOMAIN schedule)]
  BY DEF TypeInv, TypeOK
<1>2. PICK s \in batch[p], recovers \in BOOLEAN, adjusts \in BOOLEAN :
          job' = [job EXCEPT ![p] =
             [schedule |-> s,
              value |-> Value[schedule[s].request] - Total(Previous(schedule[s].request)),
              recovers |-> recovers, adjusts |-> adjusts, found |-> {}]]
  BY DEF TransformPaymentRequest
<1>3. /\ job'[p].schedule = s
      /\ job'[p].value = Value[schedule[s].request] - Total(Previous(schedule[s].request))
  BY <1>1, <1>2
<1>4. Previous(schedule[s].request) \in SUBSET DOMAIN completed
  BY DEF Previous
<1>5. Total(Previous(schedule[s].request)) = Paid(Previous(schedule[s].request))
  BY <1>4, TotalIsSum DEF TypeInv, Paid
<1>6. UNCHANGED schedule
  BY DEF TransformPaymentRequest
<1>7. QED
  BY <1>1, <1>3, <1>5, <1>6

\* A step that pays nothing.
LEMMA NothingPaidStep ==
    ASSUME RefinementInv, OneLoopInv, NotRejected, AllValid, RowsInOrder,
           DeltaIsCurrent, PaidIsLatestValue, [Next]_vars, SameRows
    PROVE  AllValid' /\ RowsInOrder' /\ DeltaIsCurrent' /\ PaidIsLatestValue'
<1>1. TypeInv
  BY DEF RefinementInv
<1>2. AllValid'
  BY DEF AllValid, SameRows
<1>3. RowsInOrder'
  BY LowerDoneStep DEF RowsInOrder, SameRows
<1>4. PaidIsLatestValue'
  BY SameRowsPaid DEF PaidIsLatestValue, Paid, PaidRows, SameRows
<1>5. ASSUME NEW p \in Pods, AtWork(p)'
      PROVE  job'[p].value = Value[JobRequest(p)'] - Paid(Previous(JobRequest(p)))'
  <2>1. PICK s, r : s = job'[p].schedule /\ r = schedule'[s].request
    OBVIOUS
  <2>2. JobRequest(p)' = r
    BY <2>1 DEF JobRequest
  <2>3. Paid(Previous(r))' = Paid(Previous(r))
    BY SameRowsPaid DEF Paid
  <2>4. CASE AtWork(p) /\ SameJobAs(p)
    <3>1. JobRequest(p) = r
      BY <1>1, <2>1, <2>4, KeepsJobsStep, JobRequestType
      DEF KeepsJobs, JobRequest, SameJobAs
    <3>2. job[p].value = Value[r] - Paid(Previous(r))
      BY <2>4, <3>1 DEF DeltaIsCurrent
    <3>3. QED
      BY <2>2, <2>3, <2>4, <3>2 DEF SameJobAs
  <2>5. CASE TransformPaymentRequest(p)
    <3>1. job'[p].value = Value[r] - Paid(Previous(r))
      BY <1>1, <2>1, <2>5, TransformPaymentRequestDelta
    <3>2. QED
      BY <2>2, <2>3, <3>1
  <2>6. QED
    BY <1>1, <1>5, <2>4, <2>5, WorkStep
<1>6. DeltaIsCurrent'
  BY <1>5 DEF DeltaIsCurrent
<1>7. QED
  BY <1>2, <1>3, <1>4, <1>6

\* When the request is paid everything paid on its agreement was paid before it.
LEMMA PaidBefore ==
    ASSUME RefinementInv, NoDoublePayment, NotRejected, DistinctNumbers, AllValid,
           RowsInOrder, NEW s \in DOMAIN schedule, schedule[s].done = FALSE,
           AgreementAt(s) \in WithContract, ClaimsAlone(AgreementAt(s))
    PROVE  /\ Previous(schedule[s].request) = PaidRows(AgreementAt(s))
           /\ \A d \in PaidRows(AgreementAt(s)) :
                 Number[completed[d].request] < Number[schedule[s].request]
<1>1. /\ \A c \in DOMAIN completed : completed[c] \in CompletedRow
      /\ schedule[s] \in ScheduleRow
  BY DEF RefinementInv, TypeInv, TypeOK
<1>2. PICK r \in Requests : r = schedule[s].request
  BY <1>1 DEF ScheduleRow
<1>3. s \in OpenSchedules(r)
  BY <1>2 DEF OpenSchedules
<1>4. ValidRows(r) = {}
  BY <1>3 DEF NoDoublePayment, NotRejected
<1>5. ASSUME NEW d \in PaidRows(AgreementAt(s))
      PROVE  Number[completed[d].request] < Number[r]
  <2>1. d \in DOMAIN completed /\ AgreementOf[completed[d].request] = AgreementOf[r]
    BY <1>2 DEF PaidRows, AgreementAt
  <2>2. PICK q \in Requests : q = completed[d].request
    BY <1>1, <2>1 DEF CompletedRow
  <2>3. Number[q] \in Nat /\ Number[r] \in Nat
    BY ProcessingAssumption
  <2>4. LowerDone(q)
    BY <1>2, <2>1, <2>2 DEF RowsInOrder, AgreementAt
  <2>5. ~(Number[r] < Number[q])
    BY <1>3, <2>1, <2>2, <2>4 DEF LowerDone
  <2>6. q # r
    BY <1>4, <2>1, <2>2 DEF ValidRows, AllValid
  <2>7. Number[q] # Number[r]
    BY <2>1, <2>2, <2>6 DEF DistinctNumbers
  <2>8. QED
    BY <2>2, <2>3, <2>5, <2>7
<1>6. Previous(r) = PaidRows(AgreementAt(s))
  <2>1. \A d \in DOMAIN completed :
           Claim(completed[d].request) = Claim(r)
             <=> AgreementOf[completed[d].request] = AgreementOf[r]
    <3>1. TAKE d \in DOMAIN completed
    <3>2. PICK q \in Requests : q = completed[d].request
      BY <1>1 DEF CompletedRow
    <3>3. AgreementOf[q] \in Agreements /\ AgreementOf[r] = AgreementAt(s)
      BY <1>2, ProcessingAssumption DEF AgreementAt
    <3>4. QED
      BY <3>2, <3>3 DEF ClaimsAlone, Claim
  <2>2. QED
    BY <1>2, <1>5, <2>1 DEF Previous, PaidRows, AgreementAt
<1>7. QED
  BY <1>2, <1>5, <1>6

\* A step that pays a request: it brings its agreement to its value.
LEMMA FinalizePaymentTotal ==
    ASSUME RefinementInv, NoDoublePayment, NotRejected, DistinctNumbers, OnePod,
           OneLoopInv, AllValid, RowsInOrder, BatchInOrder, DeltaIsCurrent,
           PaidIsLatestValue, [Next]_vars, RefinementInv',
           NEW p \in Pods, FinalizePayment(p),
           PaidJob(job[p].schedule, job[p].value)
    PROVE  AllValid' /\ RowsInOrder' /\ DeltaIsCurrent' /\ PaidIsLatestValue'
<1>1. TypeInv /\ TypeInv' /\ AtWork(p)
  BY DEF RefinementInv, FinalizePayment, AtWork
<1>2. PICK s, r, v : s = job[p].schedule /\ r = schedule[s].request /\ v = job[p].value
  OBVIOUS
<1>3. s \in DOMAIN schedule /\ s \in batch[p] /\ schedule[s].done = FALSE
  BY <1>1, <1>2 DEF TypeInv, TypeOK, JobInBatch, OneLoopInv, BatchIsOpen
<1>4. r \in Requests /\ v \in Int /\ JobRequest(p) = r
  BY <1>1, <1>2, JobRequestType DEF JobRequest
<1>5. v = Value[r] - Paid(Previous(r))
  BY <1>1, <1>2, <1>4 DEF DeltaIsCurrent
<1>6. PICK n :
          /\ n \notin DOMAIN completed
          /\ DOMAIN completed' = DOMAIN completed \cup {n}
          /\ \A c \in DOMAIN completed : completed'[c] = completed[c]
          /\ completed'[n] = [request |-> r, schedule |-> s, value |-> v,
                              valid |-> TRUE, sent |-> FALSE]
  BY <1>2 DEF PaidJob
<1>7. completed'[n].request = r /\ completed'[n].value = v /\ completed'[n].valid = TRUE
  BY <1>6
<1>8. AllValid'
  BY <1>6, <1>7 DEF AllValid
<1>9. RowsInOrder'
  <2>1. ASSUME NEW q, LowerDone(q)
        PROVE  LowerDone(q)'
    BY <2>1, LowerDoneStep
  <2>2. AgreementOf[r] \in WithContract => LowerDone(r)
    BY <1>2, <1>3 DEF BatchInOrder
  <2>3. ASSUME NEW c \in DOMAIN completed',
               AgreementOf[completed'[c].request] \in WithContract
        PROVE  LowerDone(completed[c].request)'
    <3>1. PICK q : q = completed'[c].request
      OBVIOUS
    <3>2. LowerDone(q)
      BY <1>6, <1>7, <2>2, <2>3, <3>1 DEF RowsInOrder
    <3>3. QED
      BY <2>1, <3>1, <3>2
  <2>4. QED
    BY <2>3 DEF RowsInOrder
<1>10. DeltaIsCurrent'
  <2>1. \A q \in Pods : q = p
    BY DEF OnePod
  <2>2. phase' = [phase EXCEPT ![p] = IF batch[p] = {job[p].schedule} THEN "idle" ELSE "ready"]
    BY DEF FinalizePayment, FinishJob
  <2>3. ~AtWork(p)'
    BY <1>1, <2>2 DEF AtWork, TypeInv, TypeOK
  <2>4. QED
    BY <2>1, <2>3 DEF DeltaIsCurrent
<1>11. PaidIsLatestValue'
  <2> DEFINE values == ValuesOf(completed)
             next == ValuesOf(completed')
  <2>1. /\ \A c \in DOMAIN completed : next[c] = values[c]
        /\ next[n] = v
        /\ \A c \in DOMAIN completed' : next[c] \in Int
    <3>1. \A c \in DOMAIN completed' : completed'[c] \in CompletedRow
      BY <1>1 DEF TypeInv, TypeOK
    <3>2. QED
      BY <1>6, <1>7, <3>1 DEF ValuesOf, CompletedRow
  <2>2. \A a : IsFiniteSet(PaidRows(a)) /\ PaidRows(a) \subseteq DOMAIN completed
    <3>1. \A a : PaidRows(a) \subseteq DOMAIN completed
      BY DEF PaidRows
    <3>2. IsFiniteSet(DOMAIN completed)
      BY <1>1, FiniteTable DEF TypeInv, TypeOK
    <3>3. QED
      BY <3>1, <3>2, FS_Subset
  <2>3. \A a : SumOf(next, PaidRows(a)) = Paid(PaidRows(a))
    <3> HIDE DEF values, next
    <3>1. TAKE a
    <3>2. \A c \in PaidRows(a) : next[c] = values[c]
      BY <2>1, <2>2
    <3>3. SumOf(next, PaidRows(a)) = SumOf(values, PaidRows(a))
      BY <2>2, <3>2, SumSame
    <3>4. QED
      BY <3>3 DEF Paid, values
  <2>4. ASSUME NEW a \in WithContract, ClaimsAlone(a), NEW c \in PaidRows(a)',
               \A d \in PaidRows(a)' : Number[completed'[d].request] <= Number[completed'[c].request]
        PROVE  Paid(PaidRows(a))' = Value[completed'[c].request]
    <3>1. CASE a # AgreementOf[r]
      <4>1. PaidRows(a)' = PaidRows(a)
        BY <1>6, <1>7, <3>1 DEF PaidRows
      <4>2. Paid(PaidRows(a)) = Value[completed[c].request]
        BY <1>6, <2>2, <2>4, <4>1 DEF PaidIsLatestValue
      <4>3. QED
        BY <1>6, <2>2, <2>3, <4>1, <4>2 DEF Paid
    <3>2. CASE a = AgreementOf[r]
      <4>1. PaidRows(a)' = PaidRows(a) \cup {n} /\ n \notin PaidRows(a)
        BY <1>6, <1>7, <3>2 DEF PaidRows
      <4>2. /\ Previous(r) = PaidRows(a)
            /\ \A d \in PaidRows(a) : Number[completed[d].request] < Number[r]
        BY <1>2, <1>3, <2>4, <3>2, PaidBefore DEF AgreementAt
      <4>3. c = n
        <5>1. SUFFICES ASSUME c # n
                       PROVE  FALSE
          OBVIOUS
        <5>2. c \in PaidRows(a) /\ c \in DOMAIN completed
          BY <2>2, <4>1, <5>1
        <5>3. completed[c] \in CompletedRow
          BY <1>1, <5>2 DEF TypeInv, TypeOK
        <5>4. Number[completed[c].request] \in Nat /\ Number[r] \in Nat
          BY <1>4, <5>3, ProcessingAssumption DEF CompletedRow
        <5>5. Number[r] <= Number[completed[c].request]
          BY <1>6, <1>7, <2>4, <4>1, <5>2
        <5>6. QED
          BY <4>2, <5>2, <5>4, <5>5
      <4>4. SumOf(next, PaidRows(a) \cup {n}) = v + SumOf(next, PaidRows(a))
        <5> HIDE DEF next
        <5>1. \A c1 \in PaidRows(a) \cup {n} : next[c1] \in Int
          BY <1>6, <2>1, <2>2
        <5>2. QED
          BY <2>1, <2>2, <4>1, <5>1, SumWith
      <4>5. Paid(PaidRows(a)) \in Int
        <5> HIDE DEF next
        <5>1. \A c1 \in PaidRows(a) : next[c1] \in Int
          BY <1>6, <2>1, <2>2
        <5>2. SumOf(next, PaidRows(a)) \in Int
          BY <2>2, <5>1, SumType
        <5>3. QED
          BY <2>3, <5>2
      <4>6. v + Paid(PaidRows(a)) = Value[r]
        BY <1>4, <1>5, <4>2, <4>5, ProcessingAssumption
      <4>7. Paid(PaidRows(a))' = v + Paid(PaidRows(a))
        BY <2>3, <4>1, <4>4 DEF Paid
      <4>8. QED
        BY <1>7, <4>3, <4>6, <4>7
    <3>3. QED
      BY <3>1, <3>2
  <2>5. QED
    BY <2>4 DEF PaidIsLatestValue, ClaimsAlone
<1>12. QED
  BY <1>8, <1>9, <1>10, <1>11

\* Every step keeps what is paid in order.
LEMMA PaidInvStep ==
    ASSUME RefinementInv, RefinementInv', NoDoublePayment, DistinctNumbers, OnePod,
           OneLoopInv, SavedInOrder, PaidInv, [Next]_vars
    PROVE  PaidInv'
<1>1. SUFFICES ASSUME rejections' = 0
               PROVE  /\ NotRejected'
                      /\ AllValid' /\ RowsInOrder' /\ BatchInOrder' /\ DeltaIsCurrent'
                      /\ PaidIsLatestValue'
  BY DEF PaidInv
<1>2. TypeInv /\ rejections \in Nat
  BY DEF RefinementInv, TypeInv, TypeOK
<1>3. rejections = 0
  BY <1>1, <1>2, RejectionsCounted
<1>4. NotRejected /\ NotRejected'
  BY <1>1, <1>2, <1>3, NotRejectedStep DEF PaidInv
<1>5. AllValid /\ RowsInOrder /\ BatchInOrder /\ DeltaIsCurrent /\ PaidIsLatestValue
  BY <1>3 DEF PaidInv
<1>6. BatchInOrder'
  BY <1>4, <1>5, BatchInOrderStep
<1>7. CASE SameRows
  BY <1>4, <1>5, <1>6, <1>7, NothingPaidStep
<1>8. CASE \E p \in Pods : FinalizePayment(p) /\ PaidJob(job[p].schedule, job[p].value)
  BY <1>4, <1>5, <1>6, <1>8, FinalizePaymentTotal
<1>9. QED
  BY <1>2, <1>4, <1>7, <1>8, PaidByLoop DEF NotRejected

\* calculateDelta: with one pod, ledger checks off and the requests of an agreement
\* arriving in the order of their numbers, no two of them the same, what is validly
\* paid on an agreement with a contract number adds up to the value of the latest
\* request that was paid, as long as DAX rejected nothing and earlier payments are
\* looked up among those of the agreement alone.  They are not for BPS and CS when a
\* customer has several agreements: the look-up then goes by year or by contract,
\* while the scheduling query leases each agreement for itself.
THEOREM TotalIsRight ==
    ASSUME OnePod, DistinctNumbers, UseManualLedgerCheck = FALSE, OrderedIntake = TRUE
    PROVE  Spec => []TotalIsLatestValue
<1>1. Init => SavedInOrder /\ PaidInv
  BY DEF Init, SavedInOrder, PaidInv, NotRejected, AllValid, RowsInOrder,
         BatchInOrder, DeltaIsCurrent, AtWork, PaidIsLatestValue, PaidRows
<1>2. SavedInOrder /\ [Next]_vars => SavedInOrder'
  BY SavedInOrderStep
<1>3. RefinementInv /\ RefinementInv' /\ NoDoublePayment /\ ScheduledInv
        /\ SavedInOrder /\ PaidInv /\ [Next]_vars => PaidInv'
  BY PaidInvStep DEF ScheduledInv
<1>4. RefinementInv /\ PaidInv => TotalIsLatestValue
  <2> SUFFICES ASSUME TypeInv, PaidInv, rejections = 0,
                      NEW a \in WithContract, ClaimsAlone(a), NEW c \in PaidRows(a),
                      \A d \in PaidRows(a) :
                         Number[completed[d].request] <= Number[completed[c].request]
               PROVE  Total(PaidRows(a)) = Value[completed[c].request]
    BY DEF TotalIsLatestValue, RefinementInv
  <2>1. PaidRows(a) \in SUBSET DOMAIN completed
    BY DEF PaidRows
  <2>2. Total(PaidRows(a)) = Paid(PaidRows(a))
    BY <2>1, TotalIsSum DEF TypeInv, Paid
  <2>3. Paid(PaidRows(a)) = Value[completed[c].request]
    BY DEF PaidInv, PaidIsLatestValue
  <2>4. QED
    BY <2>2, <2>3
<1>5. QED
  BY <1>1, <1>2, <1>3, <1>4, RefinementInvHolds, ScheduledInvHolds, PaidOnce, PTL DEF Spec
=============================================================================

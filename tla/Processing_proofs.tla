------------------------- MODULE Processing_proofs -------------------------
(***************************************************************************)
(* Proofs about Processing, for every number of pods, requests, agreements *)
(* and schedules: type correctness, the leases, and that it implements     *)
(* PaymentJobs.                                                            *)
(***************************************************************************)
EXTENDS Processing, SumTheorems, SequenceTheorems, TLAPS

-----------------------------------------------------------------------------
(* Sequences as tables: rows are appended, or changed in place.            *)

\* What appending a row to a table does.
LEMMA AppendRow ==
    ASSUME NEW S, NEW t \in Seq(S), NEW e \in S
    PROVE  /\ Append(t, e) \in Seq(S)
           /\ DOMAIN Append(t, e) = DOMAIN t \cup {Len(t) + 1}
           /\ Len(t) + 1 \notin DOMAIN t
           /\ \A i \in DOMAIN t : Append(t, e)[i] = t[i]
           /\ Append(t, e)[Len(t) + 1] = e
    OBVIOUS

\* A table whose rows are changed in place is a table.
LEMMA ChangeRows ==
    ASSUME NEW S, NEW t \in Seq(S), NEW f, f \in [DOMAIN t -> S]
    PROVE  f \in Seq(S) /\ DOMAIN f = DOMAIN t
    OBVIOUS

-----------------------------------------------------------------------------
(* Type correctness needs to know that a loop works on a schedule of its    *)
(* batch, and that what was looked up is a schedule of the request it was   *)
(* looked up for.                                                           *)

AtWork(p) == phase[p] \in {"decide", "debtSent", "ledgerSent"}

IsScheduleOf(s, r) == s \in DOMAIN schedule /\ schedule[s].request = r

JobInBatch ==
    \A p \in Pods : AtWork(p) =>
        /\ job[p].schedule \in batch[p]
        /\ \A s \in job[p].found \ {0} : IsScheduleOf(s, JobRequest(p))

OwnSchedules ==
    /\ \A p \in Pods : \A k \in confirming[p] :
          IsScheduleOf(k.schedule, k.reply.request)
    /\ \A x \in rejecting : x.found # 0 => IsScheduleOf(x.found, x.request)

TypeInv == TypeOK /\ JobInBatch /\ OwnSchedules

\* Rows of the schedule table are never removed, reopened or given to another
\* request.
ScheduleGrows ==
    /\ schedule' \in Seq(ScheduleRow)
    /\ \A s \in DOMAIN schedule :
          /\ s \in DOMAIN schedule'
          /\ schedule'[s].request = schedule[s].request
          /\ schedule[s].done => schedule'[s].done

\* Freeing a schedule or making a new one keeps the rows there are.
LEMMA EnsureScheduledGrows ==
    ASSUME TypeOK, NEW r \in Requests, NEW s, s = 0 \/ IsScheduleOf(s, r),
           EnsureScheduled(r, s)
    PROVE  ScheduleGrows
<1>1. ASSUME s \in DOMAIN schedule, schedule' = [schedule EXCEPT ![s].lease = "free"]
      PROVE  ScheduleGrows
  <2>1. schedule \in [DOMAIN schedule -> ScheduleRow]
    BY DEF TypeOK
  <2>2. schedule[s] \in ScheduleRow
    BY <1>1, <2>1
  <2>3. schedule' \in [DOMAIN schedule -> ScheduleRow]
    BY <1>1, <2>1, <2>2 DEF ScheduleRow, Lease
  <2>4. QED
    BY <1>1, <2>1, <2>3, ChangeRows DEF TypeOK, ScheduleRow, ScheduleGrows
<1>2. ASSUME schedule' = Append(schedule, NewSchedule(r))
      PROVE  ScheduleGrows
  <2>1. NewSchedule(r) \in ScheduleRow
    BY DEF NewSchedule, ScheduleRow, Lease
  <2>2. QED
    BY <1>2, <2>1, AppendRow DEF TypeOK, ScheduleGrows
<1>3. ASSUME UNCHANGED schedule
      PROVE  ScheduleGrows
  BY <1>3 DEF TypeOK, ScheduleGrows
<1>4. QED
  BY <1>1, <1>2, <1>3 DEF EnsureScheduled, IsScheduleOf

\* Completing a schedule keeps the rows there are.
LEMMA CompletePaymentRequestsGrows ==
    ASSUME TypeOK, NEW s \in DOMAIN schedule, NEW v \in Int,
           CompletePaymentRequests(s, v)
    PROVE  ScheduleGrows /\ completed' \in Seq(CompletedRow)
<1>1. CASE schedule[s].done
  BY <1>1 DEF CompletePaymentRequests, ScheduleGrows, TypeOK
<1>2. CASE ~schedule[s].done
  <2> DEFINE row == [request |-> schedule[s].request, schedule |-> s,
                     value |-> v, valid |-> TRUE, sent |-> FALSE]
  <2>1. schedule[s] \in ScheduleRow /\ s \in Nat
    BY DEF TypeOK
  <2>2. schedule \in [DOMAIN schedule -> ScheduleRow]
    BY DEF TypeOK
  <2>3. schedule' = [schedule EXCEPT ![s].done = TRUE]
    BY <1>2 DEF CompletePaymentRequests
  <2>4. schedule' \in [DOMAIN schedule -> ScheduleRow]
    BY <2>1, <2>2, <2>3 DEF ScheduleRow
  <2>5. ScheduleGrows
    BY <1>2, <2>4, ChangeRows
    DEF CompletePaymentRequests, TypeOK, ScheduleRow, ScheduleGrows
  <2>6. row \in CompletedRow
    BY <2>1 DEF ScheduleRow, CompletedRow
  <2>7. completed' = Append(completed, row)
    BY <1>2 DEF CompletePaymentRequests
  <2>8. QED
    BY <2>5, <2>6, <2>7, AppendRow DEF TypeOK
<1>3. QED
  BY <1>1, <1>2

\* What type correctness says of the loops, of the receivers and of the rest.
WorkOK ==
    /\ phase \in [Pods -> Phase]
    /\ batch \in [Pods -> SUBSET (DOMAIN schedule)]
    /\ seen \in [Pods -> SUBSET Requests]
    /\ job \in [Pods -> Job]
    /\ JobInBatch

\* A loop that goes on with its batch drops the job with its schedule.
LEMMA FinishJobKeepsWork ==
    ASSUME WorkOK, NEW p \in Pods, FinishJob(p), ScheduleGrows
    PROVE  WorkOK'
<1>1. /\ phase' \in [Pods -> Phase]
      /\ batch' \in [Pods -> SUBSET (DOMAIN schedule')]
      /\ seen' \in [Pods -> SUBSET Requests]
      /\ job' \in [Pods -> Job]
  BY DEF WorkOK, FinishJob, ScheduleGrows, Phase, Job, NoJob
<1>2. ASSUME NEW q \in Pods, AtWork(q)'
      PROVE  /\ q # p
             /\ AtWork(q)
             /\ job'[q] = job[q]
             /\ batch'[q] = batch[q]
  BY <1>2 DEF WorkOK, FinishJob, AtWork
<1>3. JobInBatch'
  BY <1>2 DEF WorkOK, JobInBatch, JobRequest, IsScheduleOf, ScheduleGrows
<1>4. QED
  BY <1>1, <1>3 DEF WorkOK

\* Steps that leave the loops alone keep what they work on.
LEMMA UnchangedWork ==
    ASSUME WorkOK, ScheduleGrows, UNCHANGED work
    PROVE  WorkOK'
  BY DEF WorkOK, work, ScheduleGrows, JobInBatch, AtWork, JobRequest, IsScheduleOf

\* Steps that leave the receivers alone keep what they looked up.
LEMMA UnchangedOwn ==
    ASSUME OwnSchedules, ScheduleGrows, UNCHANGED <<confirming, rejecting>>
    PROVE  OwnSchedules'
  BY DEF OwnSchedules, ScheduleGrows, IsScheduleOf

\* So do steps that change nothing else.
LEMMA UnchangedTables ==
    ASSUME JobInBatch, OwnSchedules, UNCHANGED <<schedule, work, confirming, rejecting>>
    PROVE  JobInBatch' /\ OwnSchedules'
  BY DEF JobInBatch, OwnSchedules, work, AtWork, JobRequest, IsScheduleOf

\* Steps that leave the schedule table alone.
LEMMA UnchangedSchedule ==
    ASSUME TypeOK, UNCHANGED schedule
    PROVE  ScheduleGrows
  BY DEF TypeOK, ScheduleGrows

-----------------------------------------------------------------------------
(* Each action keeps the types.                                            *)

\* What the invariant says of the loops.
LEMMA TypeParts ==
    ASSUME TypeInv
    PROVE  WorkOK
  BY DEF TypeInv, TypeOK, WorkOK

\* Intake.
LEMMA SavePaymentRequestType ==
    ASSUME TypeInv, NEW r \in Requests, SavePaymentRequest(r)
    PROVE  TypeInv'
<1>1. ScheduleGrows
  <2>1. NewSchedule(r) \in ScheduleRow
    BY DEF NewSchedule, ScheduleRow, Lease
  <2>2. QED
    BY <2>1, AppendRow DEF SavePaymentRequest, TypeInv, TypeOK, ScheduleGrows
<1>2. WorkOK' /\ OwnSchedules'
  BY <1>1, TypeParts, UnchangedWork, UnchangedOwn
  DEF SavePaymentRequest, ledgerMail, acknowledging, TypeInv
<1>3. QED
  BY <1>1, <1>2 DEF TypeInv, TypeOK, WorkOK, ScheduleGrows, SavePaymentRequest,
                    debtMail, ledgerMail, acknowledging, bounds

\* Payment holds.
LEMMA HoldType ==
    ASSUME TypeInv, NEW a \in Accounts, AddHold(a) \/ RemoveHold(a)
    PROVE  TypeInv'
<1>1. ScheduleGrows
  BY UnchangedSchedule DEF TypeInv, AddHold, RemoveHold
<1>2. WorkOK' /\ OwnSchedules'
  BY <1>1, TypeParts, UnchangedWork, UnchangedOwn
  DEF AddHold, RemoveHold, ledgerMail, acknowledging, TypeInv
<1>3. QED
  BY <1>1, <1>2 DEF TypeInv, TypeOK, WorkOK, ScheduleGrows, AddHold, RemoveHold,
                    debtMail, ledgerMail, acknowledging, bounds

\* The outbox.
LEMMA PublishType ==
    ASSUME TypeInv, NEW c \in DOMAIN completed, Publish(c)
    PROVE  TypeInv'
<1>1. ScheduleGrows
  BY UnchangedSchedule DEF TypeInv, Publish
<1>2. WorkOK' /\ OwnSchedules'
  BY <1>1, TypeParts, UnchangedWork, UnchangedOwn
  DEF Publish, ledgerMail, acknowledging, TypeInv
<1>3. completed' \in Seq(CompletedRow)
  <2>1. completed[c] \in CompletedRow /\ completed \in [DOMAIN completed -> CompletedRow]
    BY DEF TypeInv, TypeOK
  <2>2. completed' \in [DOMAIN completed -> CompletedRow]
    BY <2>1 DEF Publish, CompletedRow
  <2>3. QED
    BY <2>2, ChangeRows DEF TypeInv, TypeOK
<1>4. QED
  BY <1>1, <1>2, <1>3 DEF TypeInv, TypeOK, WorkOK, ScheduleGrows, Publish,
                          debtMail, ledgerMail, acknowledging, bounds

\* What an open schedule is looked up for.
LEMMA GetExistingScheduleType ==
    ASSUME TypeOK, NEW r \in Requests, NEW s \in GetExistingSchedule(r)
    PROVE  /\ s \in Nat
           /\ s # 0 => IsScheduleOf(s, r) /\ ~schedule[s].done
           /\ s = 0 => OpenSchedules(r) = {}
<1>1. \A i \in DOMAIN schedule : i \in Nat /\ i # 0
  BY DEF TypeOK
<1>2. QED
  BY <1>1 DEF GetExistingSchedule, OpenSchedules, IsScheduleOf

\* A rejection begins.
LEMMA ResetPaymentRequestType ==
    ASSUME TypeInv, NEW c \in DOMAIN completed, ResetPaymentRequest(c)
    PROVE  TypeInv'
<1> DEFINE r == completed[c].request
<1>1. r \in Requests
  <2>1. completed[c] \in CompletedRow
    BY DEF TypeInv, TypeOK
  <2>2. QED
    BY <2>1 DEF CompletedRow
<1>2. PICK s \in GetExistingSchedule(r) :
          rejecting' = rejecting \cup
             {[request |-> r, rows |-> InvalidatePaymentRequests(c),
               found |-> s, again |-> FALSE]}
  BY DEF ResetPaymentRequest
<1>3. s \in Nat /\ (s # 0 => IsScheduleOf(s, r))
  BY <1>1, GetExistingScheduleType DEF TypeInv
<1>4. InvalidatePaymentRequests(c) \in SUBSET Nat
  BY DEF InvalidatePaymentRequests, TypeInv, TypeOK
<1> DEFINE x == [request |-> r, rows |-> InvalidatePaymentRequests(c),
                 found |-> s, again |-> FALSE]
<1>5. x \in Rejection
  BY <1>1, <1>3, <1>4 DEF Rejection
<1>6. UNCHANGED <<schedule, work, confirming>>
  BY DEF ResetPaymentRequest, ledgerMail
<1>7. JobInBatch'
  BY <1>6 DEF TypeInv, JobInBatch, work, AtWork, JobRequest, IsScheduleOf
<1>8. OwnSchedules'
  <2>1. x.found # 0 => IsScheduleOf(x.found, x.request)
    BY <1>3
  <2>2. \A y \in rejecting : y.found # 0 => IsScheduleOf(y.found, y.request)
    BY DEF TypeInv, OwnSchedules
  <2>3. \A y \in rejecting' : y.found # 0 => IsScheduleOf(y.found, y.request)
    BY <1>2, <2>1, <2>2
  <2>4. QED
    BY <1>6, <2>3 DEF TypeInv, OwnSchedules, IsScheduleOf
<1> HIDE DEF x
<1>9. rejecting' \in SUBSET Rejection
  <2>1. rejecting' = rejecting \cup {x}
    BY <1>2 DEF x
  <2>2. QED
    BY <2>1, <1>5 DEF TypeInv, TypeOK
<1>10. QED
  BY <1>6, <1>7, <1>8, <1>9
  DEF ResetPaymentRequest, TypeInv, TypeOK, work, debtMail, ledgerMail

\* A rejection looks for an open schedule once more.
LEMMA LookUpAgainType ==
    ASSUME TypeInv, NEW x \in rejecting, LookUpAgain(x)
    PROVE  TypeInv'
<1>1. x \in Rejection
  BY DEF TypeInv, TypeOK
<1>2. PICK s \in GetExistingSchedule(x.request) :
          rejecting' = (rejecting \ {x}) \cup {[x EXCEPT !.found = s, !.again = TRUE]}
  BY DEF LookUpAgain
<1>3. s \in Nat /\ (s # 0 => IsScheduleOf(s, x.request))
  BY <1>1, GetExistingScheduleType DEF TypeInv, Rejection
<1> DEFINE y == [x EXCEPT !.found = s, !.again = TRUE]
<1>4. y \in Rejection /\ y.found = s /\ y.request = x.request
  BY <1>1, <1>3 DEF Rejection
<1>5. UNCHANGED <<schedule, work, confirming>>
  BY DEF LookUpAgain, ledgerMail
<1>6. JobInBatch'
  BY <1>5 DEF TypeInv, JobInBatch, work, AtWork, JobRequest, IsScheduleOf
<1>7. OwnSchedules'
  <2>1. y.found # 0 => IsScheduleOf(y.found, y.request)
    BY <1>3, <1>4
  <2>2. \A z \in rejecting : z.found # 0 => IsScheduleOf(z.found, z.request)
    BY DEF TypeInv, OwnSchedules
  <2>3. \A z \in rejecting' : z.found # 0 => IsScheduleOf(z.found, z.request)
    BY <1>2, <2>1, <2>2
  <2>4. QED
    BY <1>5, <2>3 DEF TypeInv, OwnSchedules, IsScheduleOf
<1>8. QED
  BY <1>2, <1>4, <1>5, <1>6, <1>7
  DEF LookUpAgain, TypeInv, TypeOK, work, debtMail, ledgerMail, bounds

\* A rejection is rolled back.
LEMMA RejectionFailsType ==
    ASSUME TypeInv, NEW x \in rejecting, RejectionFails(x)
    PROVE  TypeInv'
<1>1. /\ UNCHANGED <<schedule, work, confirming>>
      /\ rejecting' \subseteq rejecting
  BY DEF RejectionFails, ledgerMail
<1>2. JobInBatch' /\ OwnSchedules'
  BY <1>1 DEF TypeInv, JobInBatch, OwnSchedules, work, AtWork, JobRequest, IsScheduleOf
<1>3. QED
  BY <1>1, <1>2 DEF RejectionFails, TypeInv, TypeOK, work, debtMail, ledgerMail

\* A rejection commits.
LEMMA ProcessInvalidType ==
    ASSUME TypeInv, NEW x \in rejecting, ProcessInvalid(x)
    PROVE  TypeInv'
<1>1. \A d \in DOMAIN completed : completed[d] \in CompletedRow
  BY DEF TypeInv, TypeOK
<1>2. x.request \in Requests /\ (x.found = 0 \/ IsScheduleOf(x.found, x.request))
  BY DEF TypeInv, TypeOK, Rejection, OwnSchedules
<1>3. Account(x.request) \in Accounts
  BY <1>2, ProcessingAssumption DEF Account
<1>4. ScheduleGrows
  BY <1>2, EnsureScheduledGrows DEF TypeInv, ProcessInvalid
<1>5. WorkOK' /\ OwnSchedules'
  <2>1. WorkOK'
    BY <1>4, TypeParts, UnchangedWork DEF ProcessInvalid
  <2>2. rejecting' \subseteq rejecting /\ UNCHANGED confirming
    BY DEF ProcessInvalid, ledgerMail
  <2>3. OwnSchedules'
    BY <1>4, <2>2 DEF TypeInv, OwnSchedules, IsScheduleOf, ScheduleGrows
  <2>4. QED
    BY <2>1, <2>3
<1>6. completed' \in Seq(CompletedRow)
  <2>1. \A d \in DOMAIN completed :
            [completed[d] EXCEPT !.valid = FALSE] \in CompletedRow
    BY <1>1 DEF CompletedRow
  <2>2. completed' \in [DOMAIN completed -> CompletedRow]
    BY <1>1, <2>1 DEF ProcessInvalid
  <2>3. QED
    BY <2>2, ChangeRows DEF TypeInv, TypeOK
<1>7. QED
  BY <1>2, <1>3, <1>4, <1>5, <1>6
  DEF TypeInv, TypeOK, WorkOK, ScheduleGrows, ProcessInvalid, debtMail, ledgerMail,
      bounds

\* Time.
LEMMA LeaseLapsesType ==
    ASSUME TypeInv, NEW s \in DOMAIN schedule, LeaseLapses(s)
    PROVE  TypeInv'
<1>1. ScheduleGrows
  <2>1. schedule[s] \in ScheduleRow /\ schedule \in [DOMAIN schedule -> ScheduleRow]
    BY DEF TypeInv, TypeOK
  <2>2. schedule' \in [DOMAIN schedule -> ScheduleRow]
    BY <2>1 DEF LeaseLapses, ScheduleRow, Lease
  <2>3. QED
    BY <2>2, ChangeRows DEF LeaseLapses, TypeInv, TypeOK, ScheduleRow, ScheduleGrows
<1>2. WorkOK' /\ OwnSchedules'
  BY <1>1, TypeParts, UnchangedWork, UnchangedOwn
  DEF LeaseLapses, ledgerMail, acknowledging, TypeInv
<1>3. QED
  BY <1>1, <1>2 DEF TypeInv, TypeOK, WorkOK, ScheduleGrows, LeaseLapses,
                    debtMail, ledgerMail, acknowledging, bounds

\* The request editor.
LEMMA EditorType ==
    ASSUME TypeInv, Editor
    PROVE  TypeInv'
<1>1. UNCHANGED <<saved, debt, schedule, completed, hold, autoHold, phase, batch,
                  seen, job, enriching, confirming, rejecting, overtaken,
                  failures, rejections>>
  BY DEF Editor, EditorAddsDebtData, EditorConfirmsLedger, work, debtMail,
         ledgerMail, acknowledging, bounds
<1>2. /\ debtTopic' \subseteq Requests
      /\ debtReplies' \subseteq Requests
      /\ ledgerTopic' \subseteq LedgerMessage
      /\ ledgerReplies' \subseteq LedgerMessage
  BY DEF Editor, EditorAddsDebtData, EditorConfirmsLedger, debtMail, ledgerMail,
         TypeInv, TypeOK
<1>3. JobInBatch' /\ OwnSchedules'
  BY <1>1, UnchangedTables DEF TypeInv, work
<1>4. QED
  BY <1>1, <1>2, <1>3 DEF TypeInv, TypeOK

\* A claim.
LEMMA ClaimSchedulesType ==
    ASSUME TypeInv, NEW p \in Pods, ClaimSchedules(p)
    PROVE  TypeInv'
<1>1. PICK B \in SUBSET FirstOfAgreement :
          /\ schedule' = [s \in DOMAIN schedule |->
                            IF s \in B
                            THEN [schedule[s] EXCEPT !.lease = "live"]
                            ELSE schedule[s]]
          /\ batch' = [batch EXCEPT ![p] = B]
  BY DEF ClaimSchedules
<1>2. ScheduleGrows
  <2>1. \A s \in DOMAIN schedule : schedule[s] \in ScheduleRow
    BY DEF TypeInv, TypeOK
  <2>2. \A s \in DOMAIN schedule :
            [schedule[s] EXCEPT !.lease = "live"] \in ScheduleRow
    BY <2>1 DEF ScheduleRow, Lease
  <2>3. schedule' \in [DOMAIN schedule -> ScheduleRow]
    BY <1>1, <2>1, <2>2
  <2>4. QED
    BY <1>1, <2>1, <2>3, ChangeRows DEF TypeInv, TypeOK, ScheduleRow, ScheduleGrows
<1>3. WorkOK'
  BY <1>1, <1>2, TypeParts
  DEF WorkOK, ClaimSchedules, ScheduleGrows, JobInBatch, AtWork, Phase,
      FirstOfAgreement, Claimable, JobRequest, IsScheduleOf
<1>4. OwnSchedules'
  BY <1>2, UnchangedOwn DEF ClaimSchedules, ledgerMail, acknowledging, TypeInv
<1>5. QED
  BY <1>2, <1>3, <1>4
  DEF TypeInv, TypeOK, WorkOK, ScheduleGrows, ClaimSchedules, debtMail,
      ledgerMail, acknowledging, bounds

\* The read that follows the claim.
LEMMA ReadBatchType ==
    ASSUME TypeInv, NEW p \in Pods, ReadBatch(p)
    PROVE  TypeInv'
<1>1. seen' \in [Pods -> SUBSET Requests]
  BY DEF ReadBatch, TypeInv, TypeOK
<1>2. QED
  BY <1>1
  DEF ReadBatch, TypeInv, TypeOK, JobInBatch, AtWork, Phase, OwnSchedules,
      JobRequest, IsScheduleOf, debtMail, ledgerMail, acknowledging, bounds

-----------------------------------------------------------------------------
(* Sums of what is paid.                                                   *)

ValuesOf(t) == [c \in DOMAIN t |-> t[c].value]

\* A table has finitely many rows.
LEMMA FiniteTable ==
    ASSUME NEW S, NEW t \in Seq(S)
    PROVE  IsFiniteSet(DOMAIN t)
<1>1. DOMAIN t = 1..Len(t) /\ Len(t) \in Nat
  OBVIOUS
<1>2. QED
  BY <1>1, FS_Interval

\* The total of a set of rows is the sum of their values.
LEMMA TotalIsSum ==
    ASSUME TypeOK, NEW rows \in SUBSET DOMAIN completed
    PROVE  Total(rows) = SumOf(ValuesOf(completed), rows)
<1>1. IsFiniteSet(rows)
  BY FiniteTable, FS_Subset DEF TypeOK
<1>2. \A c \in rows : ValuesOf(completed)[c] = completed[c].value
  BY DEF ValuesOf
<1>3. QED
  BY <1>1, <1>2, SumOfValues DEF Total

\* A total of pence is a number of pence.
LEMMA TotalIsInt ==
    ASSUME TypeOK, NEW rows \in SUBSET DOMAIN completed
    PROVE  Total(rows) \in Int
<1>1. IsFiniteSet(rows)
  BY FiniteTable, FS_Subset DEF TypeOK
<1>2. \A c \in rows : completed[c] \in CompletedRow
  BY DEF TypeOK
<1>3. \A c \in rows : ValuesOf(completed)[c] \in Int
  BY <1>2 DEF ValuesOf, CompletedRow
<1>4. QED
  BY <1>1, <1>3, TotalIsSum, SumType

\* The delta.
LEMMA TransformPaymentRequestType ==
    ASSUME TypeInv, NEW p \in Pods, TransformPaymentRequest(p)
    PROVE  TypeInv'
<1> DEFINE Delta(s) == Value[schedule[s].request] - Total(Previous(schedule[s].request))
<1>1. PICK s \in batch[p], recovers \in BOOLEAN, adjusts \in BOOLEAN :
          job' = [job EXCEPT ![p] =
                    [schedule |-> s, value |-> Delta(s),
                     recovers |-> recovers, adjusts |-> adjusts,
                     found |-> {}]]
  BY DEF TransformPaymentRequest
<1>2. s \in Nat /\ Delta(s) \in Int
  <2>1. s \in DOMAIN schedule
    BY DEF TypeInv, TypeOK
  <2>2. schedule[s] \in ScheduleRow
    BY <2>1 DEF TypeInv, TypeOK
  <2>3. Value[schedule[s].request] \in Int
    BY <2>2, ProcessingAssumption DEF ScheduleRow
  <2>4. Previous(schedule[s].request) \in SUBSET DOMAIN completed
    BY DEF Previous, PaidRows, ValidRows
  <2>5. Total(Previous(schedule[s].request)) \in Int
    BY <2>4, TotalIsInt DEF TypeInv
  <2>6. s \in Nat
    BY <2>1 DEF TypeInv, TypeOK
  <2>7. QED
    BY <2>3, <2>5, <2>6
<1> HIDE DEF Delta
<1>3. job' \in [Pods -> Job] /\ JobInBatch'
  BY <1>1, <1>2
  DEF TransformPaymentRequest, TypeInv, TypeOK, JobInBatch, AtWork, Job,
      JobRequest, IsScheduleOf
<1>4. QED
  BY <1>3
  DEF TransformPaymentRequest, TypeInv, TypeOK, Phase, OwnSchedules,
      IsScheduleOf, debtMail, ledgerMail, acknowledging, bounds

\* A loop at work holds a schedule of its batch, with a request.
LEMMA JobRequestType ==
    ASSUME TypeInv, NEW p \in Pods, AtWork(p)
    PROVE  /\ JobRequest(p) \in Requests
           /\ job[p].schedule \in DOMAIN schedule
           /\ job[p].value \in Int
           /\ \A s \in job[p].found : s = 0 \/ IsScheduleOf(s, JobRequest(p))
<1>1. job[p].schedule \in DOMAIN schedule
  BY DEF TypeInv, TypeOK, JobInBatch
<1>2. schedule[job[p].schedule] \in ScheduleRow
  BY <1>1 DEF TypeInv, TypeOK
<1>3. job[p] \in Job
  BY DEF TypeInv, TypeOK
<1>4. QED
  BY <1>1, <1>2, <1>3 DEF JobRequest, ScheduleRow, Job, TypeInv, JobInBatch

\* A request is sent to the editor.
LEMMA SendType ==
    ASSUME TypeInv, NEW p \in Pods, SendForDebtData(p) \/ SendForLedgerCheck(p)
    PROVE  TypeInv'
<1>1. AtWork(p)
  BY DEF AtWork, SendForDebtData, SendForLedgerCheck
<1>2. debtTopic' \subseteq Requests /\ ledgerTopic' \subseteq LedgerMessage
  BY <1>1, JobRequestType
  DEF SendForDebtData, SendForLedgerCheck, TypeInv, TypeOK, LedgerMessage,
      debtMail, ledgerMail
<1>3. phase' \in [Pods -> Phase] /\ JobInBatch'
  BY <1>1 DEF SendForDebtData, SendForLedgerCheck, TypeInv, TypeOK, JobInBatch,
              AtWork, Phase, JobRequest, IsScheduleOf
<1>4. QED
  BY <1>2, <1>3
  DEF SendForDebtData, SendForLedgerCheck, TypeInv, TypeOK, OwnSchedules,
      IsScheduleOf, debtMail, ledgerMail, acknowledging, bounds

\* An open schedule is looked up before the hold is saved.
LEMMA LookUpScheduleType ==
    ASSUME TypeInv, NEW p \in Pods, LookUpSchedule(p)
    PROVE  TypeInv'
<1>1. AtWork(p) /\ JobRequest(p) \in Requests
  BY JobRequestType DEF LookUpSchedule, AtWork
<1>2. PICK s \in GetExistingSchedule(JobRequest(p)) :
          job' = [job EXCEPT ![p].found = {s}]
  BY DEF LookUpSchedule
<1>3. s \in Nat /\ (s # 0 => IsScheduleOf(s, JobRequest(p)))
  BY <1>1, GetExistingScheduleType DEF TypeInv
<1>4. job \in [Pods -> Job]
  BY DEF TypeInv, TypeOK
<1>5. /\ job' \in [Pods -> Job]
      /\ job'[p].found = {s}
      /\ job'[p].schedule = job[p].schedule
      /\ \A q \in Pods \ {p} : job'[q] = job[q]
  BY <1>2, <1>3, <1>4 DEF Job
<1>6. UNCHANGED <<schedule, phase, batch>>
  BY DEF LookUpSchedule
<1>7. JobInBatch'
  <2> SUFFICES ASSUME NEW q \in Pods, AtWork(q)
               PROVE  /\ job'[q].schedule \in batch[q]
                      /\ \A i \in job'[q].found \ {0} :
                            /\ i \in DOMAIN schedule
                            /\ schedule[i].request = schedule[job'[q].schedule].request
    BY <1>6 DEF JobInBatch, AtWork, JobRequest, IsScheduleOf
  <2>1. CASE q = p
    BY <2>1, <1>3, <1>5 DEF TypeInv, JobInBatch, JobRequest, IsScheduleOf
  <2>2. CASE q # p
    BY <2>2, <1>5 DEF TypeInv, JobInBatch, JobRequest, IsScheduleOf
  <2>3. QED
    BY <2>1, <2>2
<1>8. QED
  BY <1>5, <1>7
  DEF LookUpSchedule, TypeInv, TypeOK, OwnSchedules, IsScheduleOf, debtMail,
      ledgerMail, acknowledging, bounds

\* The hold that follows, with the schedule freed.
LEMMA HoldAndRescheduleType ==
    ASSUME TypeInv, NEW p \in Pods, HoldForDebtData(p) \/ HoldForLedgerCheck(p)
    PROVE  TypeInv'
<1>1. PICK category \in AutoHold : HoldAndReschedule(p, category)
  BY DEF HoldForDebtData, HoldForLedgerCheck, AutoHold
<1>2. JobRequest(p) \in Requests
  BY JobRequestType DEF HoldForDebtData, HoldForLedgerCheck, AtWork
<1>3. ScheduleGrows
  <2>1. PICK s \in job[p].found : EnsureScheduled(JobRequest(p), s)
    BY <1>1 DEF HoldAndReschedule
  <2>2. s = 0 \/ IsScheduleOf(s, JobRequest(p))
    BY JobRequestType DEF HoldForDebtData, HoldForLedgerCheck, AtWork
  <2>3. QED
    BY <1>2, <2>1, <2>2, EnsureScheduledGrows DEF TypeInv
<1>4. WorkOK' /\ OwnSchedules'
  BY <1>1, <1>3, TypeParts, FinishJobKeepsWork, UnchangedOwn
  DEF HoldAndReschedule, ledgerMail, acknowledging, TypeInv
<1>5. autoHold' \in [HoldGroups -> SUBSET AutoHold]
  BY <1>1 DEF HoldAndReschedule, TypeInv, TypeOK
<1>6. QED
  BY <1>1, <1>3, <1>4, <1>5
  DEF HoldAndReschedule, TypeInv, TypeOK, WorkOK, ScheduleGrows, debtMail,
      ledgerMail, acknowledging, bounds

\* A payment.
LEMMA FinalizePaymentType ==
    ASSUME TypeInv, NEW p \in Pods, FinalizePayment(p)
    PROVE  TypeInv'
<1>1. job[p].schedule \in DOMAIN schedule /\ job[p].value \in Int
  BY JobRequestType DEF FinalizePayment, AtWork
<1>2. ScheduleGrows /\ completed' \in Seq(CompletedRow)
  BY <1>1, CompletePaymentRequestsGrows DEF FinalizePayment, TypeInv
<1>3. WorkOK' /\ OwnSchedules'
  BY <1>2, TypeParts, FinishJobKeepsWork, UnchangedOwn
  DEF FinalizePayment, ledgerMail, acknowledging, TypeInv
<1>4. QED
  BY <1>2, <1>3
  DEF FinalizePayment, TypeInv, TypeOK, WorkOK, ScheduleGrows, debtMail,
      ledgerMail, acknowledging, bounds

\* A debt reply, both halves, or its failure.
LEMMA DebtReplyType ==
    ASSUME TypeInv, NEW p \in Pods,
           \/ \E r \in debtReplies : UpdateDebtData(p, r)
           \/ RemoveDebtHold(p)
           \/ EnrichmentFails(p)
    PROVE  TypeInv'
<1>1. /\ debt' \subseteq Requests
      /\ debtReplies' \subseteq Requests
      /\ enriching' \in [Pods -> SUBSET Requests]
      /\ autoHold' \in [HoldGroups -> SUBSET AutoHold]
      /\ failures' \in Nat
  BY DEF UpdateDebtData, RemoveDebtHold, EnrichmentFails, CompleteMessage, TypeInv,
         TypeOK, bounds
<1>2. UNCHANGED <<saved, schedule, completed, hold, phase, batch, seen, job,
                  debtTopic, ledgerTopic, ledgerReplies, confirming, rejecting,
                  overtaken, rejections>>
  BY DEF UpdateDebtData, RemoveDebtHold, EnrichmentFails, work, ledgerMail,
         acknowledging, bounds
<1>3. JobInBatch' /\ OwnSchedules'
  BY <1>2, UnchangedTables DEF TypeInv, work
<1>4. QED
  BY <1>1, <1>2, <1>3 DEF TypeInv, TypeOK

\* A ledger reply: its schedule is looked up.
LEMMA GetScheduleIdType ==
    ASSUME TypeInv, NEW p \in Pods, NEW m \in ledgerReplies, GetScheduleId(p, m)
    PROVE  TypeInv'
<1>1. CASE \E s \in OpenSchedules(m.request) :
             /\ confirming' = [confirming EXCEPT ![p] =
                  {[reply |-> m, schedule |-> s, saved |-> FALSE]}]
             /\ UNCHANGED ledgerReplies
  <2>1. PICK s \in OpenSchedules(m.request) :
             confirming' = [confirming EXCEPT ![p] =
                  {[reply |-> m, schedule |-> s, saved |-> FALSE]}]
    BY <1>1
  <2>2. /\ s \in Nat
        /\ s \in DOMAIN schedule
        /\ schedule[s].request = m.request
    BY DEF OpenSchedules, TypeInv, TypeOK
  <2>3. [reply |-> m, schedule |-> s, saved |-> FALSE] \in Confirmation
    BY <2>2 DEF TypeInv, TypeOK, Confirmation
  <2>4. confirming' \in [Pods -> SUBSET Confirmation]
    BY <2>1, <2>3 DEF TypeInv, TypeOK
  <2>5. UNCHANGED schedule
    BY DEF GetScheduleId
  <2>6. OwnSchedules'
    BY <2>1, <2>2, <2>5
    DEF GetScheduleId, acknowledging, TypeInv, TypeOK, OwnSchedules, IsScheduleOf
  <2>7. QED
    BY <1>1, <2>4, <2>6
    DEF GetScheduleId, TypeInv, TypeOK, JobInBatch, AtWork, JobRequest,
        IsScheduleOf, work, debtMail, acknowledging, bounds
<1>2. CASE UNCHANGED confirming /\ ledgerReplies' = ledgerReplies \ {m}
  BY <1>2 DEF GetScheduleId, TypeInv, TypeOK, JobInBatch, AtWork, JobRequest,
              IsScheduleOf, OwnSchedules, work, debtMail, acknowledging, bounds
<1>3. QED
  BY <1>1, <1>2 DEF GetScheduleId

\* A ledger reply: its schedule is completed.
LEMMA CompleteConfirmedType ==
    ASSUME TypeInv, NEW p \in Pods, CompleteConfirmed(p)
    PROVE  TypeInv'
<1>1. PICK k \in confirming[p] :
          /\ CompletePaymentRequests(k.schedule, k.reply.value)
          /\ confirming' = [confirming EXCEPT ![p] = {[k EXCEPT !.saved = TRUE]}]
  BY DEF CompleteConfirmed
<1>2. k \in Confirmation /\ k.reply \in LedgerMessage
  BY DEF TypeInv, TypeOK, Confirmation
<1>3. /\ k.schedule \in DOMAIN schedule
      /\ schedule[k.schedule].request = k.reply.request
      /\ k.reply.value \in Int
  BY <1>2 DEF TypeInv, OwnSchedules, IsScheduleOf, LedgerMessage
<1>4. ScheduleGrows /\ completed' \in Seq(CompletedRow)
  BY <1>1, <1>3, CompletePaymentRequestsGrows DEF TypeInv
<1>5. confirming' \in [Pods -> SUBSET Confirmation]
  BY <1>1, <1>2 DEF TypeInv, TypeOK, Confirmation
<1>6. OwnSchedules'
  <2>1. ASSUME NEW q \in Pods, NEW l \in confirming'[q]
        PROVE  /\ l.schedule \in DOMAIN schedule
               /\ schedule[l.schedule].request = l.reply.request
    <3>1. CASE q = p
      BY <2>1, <3>1, <1>1, <1>2, <1>3 DEF TypeInv, TypeOK, Confirmation
    <3>2. CASE q # p
      BY <2>1, <3>2, <1>1 DEF TypeInv, TypeOK, OwnSchedules, IsScheduleOf
    <3>3. QED
      BY <3>1, <3>2
  <2>2. UNCHANGED rejecting
    BY DEF CompleteConfirmed, acknowledging
  <2>3. QED
    BY <2>1, <2>2, <1>4 DEF TypeInv, OwnSchedules, IsScheduleOf, ScheduleGrows
<1>7. WorkOK'
  BY <1>4, TypeParts, UnchangedWork DEF CompleteConfirmed
<1>8. QED
  BY <1>4, <1>5, <1>6, <1>7
  DEF CompleteConfirmed, TypeInv, TypeOK, WorkOK, ScheduleGrows, debtMail,
      acknowledging, bounds

\* A ledger reply is done with, or dead lettered.
LEMMA ConfirmationEndsType ==
    ASSUME TypeInv, NEW p \in Pods, RemoveLedgerHold(p) \/ ConfirmationFails(p)
    PROVE  TypeInv'
<1>1. confirming' = [confirming EXCEPT ![p] = {}] /\ UNCHANGED schedule
  BY DEF RemoveLedgerHold, ConfirmationFails
<1>2. confirming' \in [Pods -> SUBSET Confirmation] /\ OwnSchedules'
  BY <1>1 DEF RemoveLedgerHold, ConfirmationFails, acknowledging, TypeInv, TypeOK,
              OwnSchedules, IsScheduleOf
<1>3. autoHold' \in [HoldGroups -> SUBSET AutoHold]
  BY DEF RemoveLedgerHold, ConfirmationFails, TypeInv, TypeOK
<1>4. ledgerReplies' \subseteq LedgerMessage /\ failures' \in Nat
  BY DEF RemoveLedgerHold, ConfirmationFails, CompleteMessage, TypeInv, TypeOK
<1>5. UNCHANGED <<saved, debt, schedule, completed, hold, phase, batch, seen, job,
                  debtTopic, debtReplies, enriching, ledgerTopic, rejecting,
                  overtaken, rejections>>
  BY DEF RemoveLedgerHold, ConfirmationFails, work, debtMail, acknowledging, bounds
<1>6. QED
  BY <1>1, <1>2, <1>3, <1>4, <1>5
  DEF TypeInv, TypeOK, JobInBatch, AtWork, JobRequest, IsScheduleOf

\* A loop fails or a pod restarts.
LEMMA PodStopsType ==
    ASSUME TypeInv, NEW p \in Pods, BatchFails(p) \/ PodRestarts(p)
    PROVE  TypeInv'
<1>1. /\ phase' = [phase EXCEPT ![p] = "idle"]
      /\ batch' = [batch EXCEPT ![p] = {}]
      /\ seen' = [seen EXCEPT ![p] = {}]
      /\ job' = [job EXCEPT ![p] = NoJob]
  BY DEF BatchFails, PodRestarts
<1>2. NoJob \in Job /\ "idle" \in Phase
  BY DEF NoJob, Job, Phase
<1>3. /\ phase' \in [Pods -> Phase]
      /\ batch' \in [Pods -> SUBSET (DOMAIN schedule)]
      /\ seen' \in [Pods -> SUBSET Requests]
      /\ job' \in [Pods -> Job]
  BY <1>1, <1>2 DEF TypeInv, TypeOK
<1>4. JobInBatch'
  BY <1>1 DEF BatchFails, PodRestarts, TypeInv, TypeOK, JobInBatch, AtWork,
              JobRequest, IsScheduleOf
<1>5. /\ enriching' \in [Pods -> SUBSET Requests]
      /\ confirming' \in [Pods -> SUBSET Confirmation]
      /\ OwnSchedules'
      /\ rejecting' \subseteq rejecting
      /\ failures' \in Nat
  BY DEF BatchFails, PodRestarts, TypeInv, TypeOK, OwnSchedules, IsScheduleOf,
         debtMail, ledgerMail, acknowledging
<1>6. QED
  BY <1>3, <1>4, <1>5
  DEF BatchFails, PodRestarts, TypeInv, TypeOK, debtMail, ledgerMail, acknowledging

\* Every step keeps the types.
LEMMA TypeStep ==
    ASSUME TypeInv, [Next]_vars
    PROVE  TypeInv'
<1>1. CASE \E r \in Requests : SavePaymentRequest(r)
  BY <1>1, SavePaymentRequestType
<1>2. CASE \E a \in Accounts : AddHold(a) \/ RemoveHold(a)
  BY <1>2, HoldType
<1>3. CASE \E c \in DOMAIN completed : Publish(c) \/ ResetPaymentRequest(c)
  BY <1>3, PublishType, ResetPaymentRequestType
<1>4. CASE \E s \in DOMAIN schedule : LeaseLapses(s)
  BY <1>4, LeaseLapsesType
<1>5. CASE Editor
  BY <1>5, EditorType
<1>6. CASE \E p \in Pods : Loop(p)
  BY <1>6, ClaimSchedulesType, ReadBatchType, TransformPaymentRequestType, SendType,
     LookUpScheduleType, HoldAndRescheduleType, FinalizePaymentType
  DEF Loop
<1>7. CASE \E p \in Pods : Receive(p)
  BY <1>7, DebtReplyType, GetScheduleIdType, CompleteConfirmedType,
     ConfirmationEndsType
  DEF Receive
<1>8. CASE \E p \in Pods : Fail(p)
  BY <1>8, DebtReplyType, ConfirmationEndsType, PodStopsType DEF Fail
<1>9. CASE \E x \in rejecting : LookUpAgain(x) \/ ProcessInvalid(x) \/ RejectionFails(x)
  BY <1>9, LookUpAgainType, ProcessInvalidType, RejectionFailsType
<1>10. CASE UNCHANGED vars
  BY <1>10 DEF vars, work, debtMail, ledgerMail, acknowledging, bounds, TypeInv,
               TypeOK, JobInBatch, AtWork, JobRequest, IsScheduleOf, OwnSchedules
<1>11. QED
  BY <1>1, <1>2, <1>3, <1>4, <1>5, <1>6, <1>7, <1>8, <1>9, <1>10 DEF Next

\* The inductive invariant behind type correctness.
LEMMA TypeInvHolds == Spec => []TypeInv
<1>1. Init => TypeInv
  BY DEF Init, TypeInv, TypeOK, JobInBatch, AtWork, OwnSchedules, Phase, Job,
         NoJob, Rejection
<1>2. TypeInv /\ [Next]_vars => TypeInv'
  BY TypeStep
<1>3. QED
  BY <1>1, <1>2, PTL DEF Spec

\* Every variable keeps its type, whatever the loops, the receivers, the editor and
\* the failures do.
THEOREM TypeCorrect == Spec => []TypeOK
<1>1. TypeInv => TypeOK
  BY DEF TypeInv
<1>2. QED
  BY <1>1, TypeInvHolds, PTL

-----------------------------------------------------------------------------
(* Leases.  What the scheduling query promises: the requests of an         *)
(* agreement with a contract number are processed one at a time and in     *)
(* order.                                                                  *)

AgreementAt(s) == AgreementOf[schedule[s].request]

\* No step but a claim leases a schedule, and none reopens one.
OnlyLosesLeases ==
    /\ DOMAIN schedule \subseteq DOMAIN schedule'
    /\ \A s \in DOMAIN schedule' :
          schedule'[s].lease = "live"
              => /\ s \in DOMAIN schedule
                 /\ schedule[s].lease = "live"
                 /\ schedule'[s].request = schedule[s].request
                 /\ schedule[s].done => schedule'[s].done

\* Freeing a schedule or making a new one leases nothing.
LEMMA EnsureScheduledLeases ==
    ASSUME TypeOK, NEW r \in Requests, NEW s, s = 0 \/ IsScheduleOf(s, r),
           EnsureScheduled(r, s)
    PROVE  OnlyLosesLeases
<1>1. ASSUME s \in DOMAIN schedule, schedule' = [schedule EXCEPT ![s].lease = "free"]
      PROVE  OnlyLosesLeases
  <2>1. \A i \in DOMAIN schedule : schedule[i] \in ScheduleRow
    BY DEF TypeOK
  <2>2. /\ DOMAIN schedule' = DOMAIN schedule
        /\ schedule'[s].lease = "free"
        /\ \A i \in DOMAIN schedule \ {s} : schedule'[i] = schedule[i]
    BY <1>1, <2>1 DEF ScheduleRow
  <2>3. QED
    BY <2>2 DEF OnlyLosesLeases
<1>2. ASSUME schedule' = Append(schedule, NewSchedule(r))
      PROVE  OnlyLosesLeases
  <2>1. NewSchedule(r) \in ScheduleRow /\ NewSchedule(r).lease = "free"
    BY DEF NewSchedule, ScheduleRow, Lease
  <2>2. /\ DOMAIN schedule' = DOMAIN schedule \cup {Len(schedule) + 1}
        /\ \A i \in DOMAIN schedule : schedule'[i] = schedule[i]
        /\ schedule'[Len(schedule) + 1].lease = "free"
    BY <1>2, <2>1, AppendRow DEF TypeOK
  <2>3. QED
    BY <2>2 DEF OnlyLosesLeases
<1>3. ASSUME UNCHANGED schedule
      PROVE  OnlyLosesLeases
  BY <1>3 DEF OnlyLosesLeases
<1>4. QED
  BY <1>1, <1>2, <1>3 DEF EnsureScheduled, IsScheduleOf

\* Completing a schedule leases nothing.
LEMMA CompletePaymentRequestsLeases ==
    ASSUME TypeOK, NEW s \in DOMAIN schedule, NEW v, CompletePaymentRequests(s, v)
    PROVE  OnlyLosesLeases
<1>1. \A i \in DOMAIN schedule : schedule[i] \in ScheduleRow
  BY DEF TypeOK
<1>2. CASE ~schedule[s].done
  <2>1. schedule' = [schedule EXCEPT ![s].done = TRUE]
    BY <1>2 DEF CompletePaymentRequests
  <2>2. /\ DOMAIN schedule' = DOMAIN schedule
        /\ schedule'[s] = [schedule[s] EXCEPT !.done = TRUE]
        /\ \A i \in DOMAIN schedule \ {s} : schedule'[i] = schedule[i]
    BY <1>1, <2>1 DEF ScheduleRow
  <2>3. /\ schedule'[s].done
        /\ schedule'[s].lease = schedule[s].lease
        /\ schedule'[s].request = schedule[s].request
    BY <1>1, <2>2 DEF ScheduleRow
  <2>4. QED
    BY <2>2, <2>3 DEF OnlyLosesLeases
<1>3. CASE schedule[s].done
  BY <1>3 DEF CompletePaymentRequests, OnlyLosesLeases
<1>4. QED
  BY <1>2, <1>3

\* The steps of every action but the claim, one by one.
LEMMA OtherStepsLoseLeases ==
    ASSUME TypeInv, [Next]_vars, ~\E p \in Pods : ClaimSchedules(p)
    PROVE  OnlyLosesLeases
<1>1. \A s \in DOMAIN schedule : schedule[s] \in ScheduleRow
  BY DEF TypeInv, TypeOK
<1>2. ASSUME UNCHANGED schedule
      PROVE  OnlyLosesLeases
  BY <1>2 DEF OnlyLosesLeases
<1>3. ASSUME NEW r \in Requests, SavePaymentRequest(r)
      PROVE  OnlyLosesLeases
  <2>1. NewSchedule(r) \in ScheduleRow /\ NewSchedule(r).lease = "free"
    BY DEF NewSchedule, ScheduleRow, Lease
  <2>2. /\ DOMAIN schedule' = DOMAIN schedule \cup {Len(schedule) + 1}
        /\ \A i \in DOMAIN schedule : schedule'[i] = schedule[i]
        /\ schedule'[Len(schedule) + 1].lease = "free"
    BY <1>3, <2>1, AppendRow DEF SavePaymentRequest, TypeInv, TypeOK
  <2>3. QED
    BY <2>2 DEF OnlyLosesLeases
<1>4. ASSUME NEW x \in rejecting, ProcessInvalid(x)
      PROVE  OnlyLosesLeases
  <2>1. x.request \in Requests /\ (x.found = 0 \/ IsScheduleOf(x.found, x.request))
    BY DEF TypeInv, TypeOK, Rejection, OwnSchedules
  <2>2. QED
    BY <1>4, <2>1, EnsureScheduledLeases DEF ProcessInvalid, TypeInv
<1>5. ASSUME NEW s \in DOMAIN schedule, LeaseLapses(s)
      PROVE  OnlyLosesLeases
  <2>1. /\ DOMAIN schedule' = DOMAIN schedule
        /\ schedule'[s].lease = "lapsed"
        /\ \A i \in DOMAIN schedule \ {s} : schedule'[i] = schedule[i]
    BY <1>1, <1>5 DEF LeaseLapses, ScheduleRow
  <2>2. QED
    BY <2>1 DEF OnlyLosesLeases
<1>6. ASSUME NEW p \in Pods, HoldForDebtData(p) \/ HoldForLedgerCheck(p)
      PROVE  OnlyLosesLeases
  <2>1. PICK s \in job[p].found : EnsureScheduled(JobRequest(p), s)
    BY <1>6 DEF HoldForDebtData, HoldForLedgerCheck, HoldAndReschedule
  <2>2. /\ JobRequest(p) \in Requests
        /\ s = 0 \/ IsScheduleOf(s, JobRequest(p))
    BY <1>6, JobRequestType DEF HoldForDebtData, HoldForLedgerCheck, AtWork
  <2>3. QED
    BY <2>1, <2>2, EnsureScheduledLeases DEF TypeInv
<1>7. ASSUME NEW p \in Pods, FinalizePayment(p)
      PROVE  OnlyLosesLeases
  BY <1>7, JobRequestType, CompletePaymentRequestsLeases
  DEF FinalizePayment, AtWork, TypeInv
<1>8. ASSUME NEW p \in Pods, CompleteConfirmed(p)
      PROVE  OnlyLosesLeases
  <2>1. PICK k \in confirming[p] : CompletePaymentRequests(k.schedule, k.reply.value)
    BY <1>8 DEF CompleteConfirmed
  <2>2. k.schedule \in DOMAIN schedule
    BY DEF TypeInv, OwnSchedules, IsScheduleOf
  <2>3. QED
    BY <2>1, <2>2, CompletePaymentRequestsLeases DEF TypeInv
<1>9. ASSUME \/ \E c \in DOMAIN completed : Publish(c) \/ ResetPaymentRequest(c)
             \/ \E x \in rejecting : LookUpAgain(x) \/ RejectionFails(x)
             \/ \E a \in Accounts : AddHold(a) \/ RemoveHold(a)
             \/ Editor
             \/ \E p \in Pods :
                   \/ ReadBatch(p)
                   \/ TransformPaymentRequest(p)
                   \/ SendForDebtData(p) \/ SendForLedgerCheck(p) \/ LookUpSchedule(p)
                   \/ \E r \in debtReplies : UpdateDebtData(p, r)
                   \/ RemoveDebtHold(p)
                   \/ \E m \in ledgerReplies : GetScheduleId(p, m)
                   \/ RemoveLedgerHold(p)
                   \/ Fail(p)
             \/ UNCHANGED vars
      PROVE  UNCHANGED schedule
  BY <1>9
  DEF Publish, ResetPaymentRequest, LookUpAgain, RejectionFails, LookUpSchedule,
      AddHold, RemoveHold, Editor, EditorAddsDebtData,
      EditorConfirmsLedger, ReadBatch, TransformPaymentRequest, SendForDebtData,
      SendForLedgerCheck, UpdateDebtData, RemoveDebtHold, GetScheduleId,
      RemoveLedgerHold, Fail, BatchFails, EnrichmentFails,
      ConfirmationFails, PodRestarts, vars
<1>10. QED
  BY <1>2, <1>3, <1>4, <1>5, <1>6, <1>7, <1>8, <1>9 DEF Next, Loop, Receive

-----------------------------------------------------------------------------
(* A claim.                                                                *)

\* What a claim does to the schedule table.
LEMMA Claimed ==
    ASSUME TypeInv, NEW p \in Pods, ClaimSchedules(p)
    PROVE  \E B \in SUBSET FirstOfAgreement :
             /\ DOMAIN schedule' = DOMAIN schedule
             /\ \A s \in DOMAIN schedule :
                   /\ schedule'[s].request = schedule[s].request
                   /\ schedule'[s].done = schedule[s].done
                   /\ s \in B => schedule'[s].lease = "live"
                   /\ s \notin B => schedule'[s] = schedule[s]
<1>1. \A s \in DOMAIN schedule : schedule[s] \in ScheduleRow
  BY DEF TypeInv, TypeOK
<1>2. PICK B \in SUBSET FirstOfAgreement :
          schedule' = [s \in DOMAIN schedule |->
                         IF s \in B
                         THEN [schedule[s] EXCEPT !.lease = "live"]
                         ELSE schedule[s]]
  BY DEF ClaimSchedules
<1>3. /\ DOMAIN schedule' = DOMAIN schedule
      /\ \A s \in DOMAIN schedule :
            /\ schedule'[s].request = schedule[s].request
            /\ schedule'[s].done = schedule[s].done
            /\ s \in B => schedule'[s].lease = "live"
            /\ s \notin B => schedule'[s] = schedule[s]
  BY <1>1, <1>2 DEF ScheduleRow
<1>4. QED
  BY <1>3

\* One schedule of an agreement is the first.
LEMMA OneFirst ==
    ASSUME TypeInv, NEW s \in FirstOfAgreement, NEW t \in FirstOfAgreement,
           AgreementAt(s) = AgreementAt(t)
    PROVE  s = t
<1>1. /\ s \in DOMAIN schedule /\ schedule[s] \in ScheduleRow /\ s \in Nat
      /\ t \in DOMAIN schedule /\ schedule[t] \in ScheduleRow /\ t \in Nat
  BY DEF FirstOfAgreement, Claimable, TypeInv, TypeOK
<1>2. Number[schedule[s].request] \in Nat /\ Number[schedule[t].request] \in Nat
  BY <1>1, ProcessingAssumption DEF ScheduleRow
<1>3. ASSUME s # t
      PROVE  Precedes(s, t) /\ Precedes(t, s)
  BY <1>3 DEF FirstOfAgreement, AgreementAt
<1>4. QED
  BY <1>1, <1>2, <1>3 DEF Precedes

\* Whatever is open on the agreement of a schedule that is claimed comes after it.
LEMMA ClaimedInOrder ==
    ASSUME TypeInv, NEW s \in FirstOfAgreement, NEW t \in DOMAIN schedule,
           AgreementAt(s) = AgreementAt(t), AgreementAt(s) \in WithContract,
           ~schedule[t].done
    PROVE  /\ schedule[t].lease # "live"
           /\ s # t => Precedes(s, t)
<1>1. s \in Claimable
  BY DEF FirstOfAgreement
<1>2. ~InProcess(schedule[s].request) /\ ~Held(schedule[s].request)
  BY <1>1 DEF Claimable
<1>3. schedule[t].lease # "live"
  BY <1>2 DEF InProcess, AgreementAt
<1>4. ~InProcess(schedule[t].request) /\ ~Held(schedule[t].request)
  BY <1>2 DEF InProcess, Held, Account, HoldGroup, AgreementAt
<1>5. t \in Claimable
  BY <1>3, <1>4 DEF Claimable
<1>6. QED
  BY <1>3, <1>5 DEF FirstOfAgreement, AgreementAt

-----------------------------------------------------------------------------
(* The theorems.                                                           *)

\* A claim leases one schedule of an agreement and only when none is leased.
LEMMA OneLeaseStep ==
    ASSUME TypeInv, OneLeasePerAgreement, [Next]_vars
    PROVE  OneLeasePerAgreement'
<1>1. CASE \E p \in Pods : ClaimSchedules(p)
  <2>1. PICK B \in SUBSET FirstOfAgreement :
             /\ DOMAIN schedule' = DOMAIN schedule
             /\ \A s \in DOMAIN schedule :
                   /\ schedule'[s].request = schedule[s].request
                   /\ schedule'[s].done = schedule[s].done
                   /\ s \in B => schedule'[s].lease = "live"
                   /\ s \notin B => schedule'[s] = schedule[s]
    BY <1>1, Claimed
  <2> SUFFICES ASSUME NEW s \in DOMAIN schedule, NEW t \in DOMAIN schedule,
                      schedule'[s].lease = "live", ~schedule[s].done,
                      schedule'[t].lease = "live", ~schedule[t].done,
                      AgreementAt(s) = AgreementAt(t),
                      AgreementAt(s) \in WithContract
               PROVE  s = t
    BY <2>1 DEF OneLeasePerAgreement, AgreementAt
  <2>2. CASE s \in B /\ t \in B
    BY <2>2, OneFirst
  <2>3. CASE s \in B /\ t \notin B
    BY <2>1, <2>3, ClaimedInOrder
  <2>4. CASE s \notin B /\ t \in B
    BY <2>1, <2>4, ClaimedInOrder
  <2>5. CASE s \notin B /\ t \notin B
    BY <2>1, <2>5 DEF OneLeasePerAgreement, AgreementAt
  <2>6. QED
    BY <2>2, <2>3, <2>4, <2>5
<1>2. CASE ~\E p \in Pods : ClaimSchedules(p)
  BY <1>2, OtherStepsLoseLeases DEF OnlyLosesLeases, OneLeasePerAgreement
<1>3. QED
  BY <1>1, <1>2

\* Two requests of an agreement with a contract number are never leased at once.
THEOREM OneLease == Spec => []OneLeasePerAgreement
<1>1. Init => OneLeasePerAgreement
  BY DEF Init, OneLeasePerAgreement
<1>2. TypeInv /\ OneLeasePerAgreement /\ [Next]_vars => OneLeasePerAgreement'
  BY OneLeaseStep
<1>3. QED
  BY <1>1, <1>2, TypeInvHolds, PTL DEF Spec

InOrder ==
    \A s \in DOMAIN schedule :
         (/\ schedule[s].lease # "live"
          /\ schedule'[s].lease = "live"
          /\ AgreementOf[schedule[s].request] \in WithContract)
         => \A t \in DOMAIN schedule :
              (/\ AgreementOf[schedule[t].request] = AgreementOf[schedule[s].request]
               /\ Number[schedule[t].request] < Number[schedule[s].request])
              => schedule[t].done

\* A request is leased only when every lower numbered one of its agreement that
\* has arrived is completed.
THEOREM InOrderOfNumber == Spec => LeasedInOrder
<1>1. ASSUME TypeInv, Next
      PROVE  InOrder
  <2> SUFFICES ASSUME NEW s \in DOMAIN schedule, NEW t \in DOMAIN schedule,
                      schedule[s].lease # "live",
                      schedule'[s].lease = "live",
                      AgreementAt(s) \in WithContract,
                      AgreementAt(t) = AgreementAt(s),
                      Number[schedule[t].request] < Number[schedule[s].request],
                      ~schedule[t].done
               PROVE  FALSE
    BY DEF InOrder, AgreementAt
  <2>1. CASE \E p \in Pods : ClaimSchedules(p)
    <3>1. s \in FirstOfAgreement
      BY <1>1, <2>1, Claimed
    <3>2. s # t => Precedes(s, t)
      BY <1>1, <3>1, ClaimedInOrder
    <3>3. schedule[s] \in ScheduleRow /\ schedule[t] \in ScheduleRow
      BY <1>1 DEF TypeInv, TypeOK
    <3>4. Number[schedule[s].request] \in Nat /\ Number[schedule[t].request] \in Nat
      BY <3>3, ProcessingAssumption DEF ScheduleRow
    <3>5. QED
      BY <3>2, <3>4 DEF Precedes
  <2>2. CASE ~\E p \in Pods : ClaimSchedules(p)
    <3>1. OnlyLosesLeases
      BY <1>1, <2>2, OtherStepsLoseLeases
    <3>2. QED
      BY <3>1 DEF OnlyLosesLeases
  <2>3. QED
    BY <2>1, <2>2
<1>2. TypeInv /\ [Next]_vars => [InOrder]_vars
  BY <1>1
<1>3. QED
  BY <1>2, TypeInvHolds, PTL DEF Spec, LeasedInOrder, InOrder

-----------------------------------------------------------------------------
(* Processing implements PaymentJobs, and keeps what PaymentJobs promises. *)

-----------------------------------------------------------------------------
(* The tables as PaymentJobs sees them.                                    *)

AbstractJob == [request: Requests, done: BOOLEAN]
AbstractRow == [request: Requests, job: Nat, valid: BOOLEAN, sent: BOOLEAN]

JobOf(e) == [request |-> e.request, done |-> e.done]
RowOf(e) == [request |-> e.request, job |-> e.schedule, valid |-> e.valid,
             sent |-> e.sent]

JobsOf(t) == [s \in DOMAIN t |-> JobOf(t[s])]
RowsOf(t) == [c \in DOMAIN t |-> RowOf(t[c])]

\* A function on 1..n is a sequence.
LEMMA FunctionIsSeq ==
    ASSUME NEW S, NEW n \in Nat, NEW f, f \in [1..n -> S]
    PROVE  f \in Seq(S) /\ Len(f) = n
    OBVIOUS

\* Appending, written as a function.
LEMMA AppendIsFunction ==
    ASSUME NEW S, NEW t \in Seq(S), NEW e \in S
    PROVE  Append(t, e) = [i \in 1..Len(t) + 1 |-> IF i = Len(t) + 1 THEN e ELSE t[i]]
<1> DEFINE f == [i \in 1..Len(t) + 1 |-> IF i = Len(t) + 1 THEN e ELSE t[i]]
<1>1. Append(t, e) \in [1..Len(t) + 1 -> S]
  <2>1. Append(t, e) \in Seq(S) /\ Len(Append(t, e)) = Len(t) + 1
    OBVIOUS
  <2>2. Append(t, e) \in [1..Len(Append(t, e)) -> S]
    BY <2>1, LenProperties
  <2>3. QED
    BY <2>1, <2>2
<1>2. f \in [1..Len(t) + 1 -> S]
  OBVIOUS
<1>3. \A i \in 1..Len(t) + 1 : Append(t, e)[i] = f[i]
  OBVIOUS
<1>4. QED
  BY <1>1, <1>2, <1>3

\* A new schedule is a new job.
LEMMA JobsOfAppend ==
    ASSUME NEW t \in Seq(ScheduleRow), NEW e \in ScheduleRow
    PROVE  JobsOf(Append(t, e)) = Append(JobsOf(t), JobOf(e))
<1>1. \A i \in 1..Len(t) : t[i] \in ScheduleRow
  OBVIOUS
<1>2. \A d \in ScheduleRow : JobOf(d) \in AbstractJob
  BY DEF JobOf, ScheduleRow, AbstractJob
<1>3. JobsOf(t) \in [1..Len(t) -> AbstractJob]
  BY <1>1, <1>2 DEF JobsOf
<1>4. JobsOf(t) \in Seq(AbstractJob) /\ Len(JobsOf(t)) = Len(t)
  BY <1>3, FunctionIsSeq
<1>5. Append(JobsOf(t), JobOf(e))
        = [i \in 1..Len(t) + 1 |-> IF i = Len(t) + 1 THEN JobOf(e) ELSE JobsOf(t)[i]]
  BY <1>2, <1>4, AppendIsFunction
<1>6. \A i \in 1..Len(t) : JobsOf(t)[i] = JobOf(t[i])
  BY DEF JobsOf
<1>7. Append(t, e) = [i \in 1..Len(t) + 1 |-> IF i = Len(t) + 1 THEN e ELSE t[i]]
  BY AppendIsFunction
<1>8. DOMAIN Append(t, e) = 1..Len(t) + 1
  BY <1>7
<1>9. JobsOf(Append(t, e))
        = [i \in 1..Len(t) + 1 |-> IF i = Len(t) + 1 THEN JobOf(e) ELSE JobOf(t[i])]
  BY <1>7, <1>8 DEF JobsOf
<1>10. QED
  BY <1>5, <1>6, <1>9

\* A new completed row is a new row.
LEMMA RowsOfAppend ==
    ASSUME NEW t \in Seq(CompletedRow), NEW e \in CompletedRow
    PROVE  RowsOf(Append(t, e)) = Append(RowsOf(t), RowOf(e))
<1>1. \A i \in 1..Len(t) : t[i] \in CompletedRow
  OBVIOUS
<1>2. \A d \in CompletedRow : RowOf(d) \in AbstractRow
  BY DEF RowOf, CompletedRow, AbstractRow
<1>3. RowsOf(t) \in [1..Len(t) -> AbstractRow]
  BY <1>1, <1>2 DEF RowsOf
<1>4. RowsOf(t) \in Seq(AbstractRow) /\ Len(RowsOf(t)) = Len(t)
  BY <1>3, FunctionIsSeq
<1>5. Append(RowsOf(t), RowOf(e))
        = [i \in 1..Len(t) + 1 |-> IF i = Len(t) + 1 THEN RowOf(e) ELSE RowsOf(t)[i]]
  BY <1>2, <1>4, AppendIsFunction
<1>6. \A i \in 1..Len(t) : RowsOf(t)[i] = RowOf(t[i])
  BY DEF RowsOf
<1>7. Append(t, e) = [i \in 1..Len(t) + 1 |-> IF i = Len(t) + 1 THEN e ELSE t[i]]
  BY AppendIsFunction
<1>8. DOMAIN Append(t, e) = 1..Len(t) + 1
  BY <1>7
<1>9. RowsOf(Append(t, e))
        = [i \in 1..Len(t) + 1 |-> IF i = Len(t) + 1 THEN RowOf(e) ELSE RowOf(t[i])]
  BY <1>7, <1>8 DEF RowsOf
<1>10. QED
  BY <1>5, <1>6, <1>9

-----------------------------------------------------------------------------
(* Only saved requests are ever scheduled and completed, and they are all  *)
(* scheduled: PaymentJobs opens a new request without looking for a job.   *)

Scheduled == {schedule[s].request : s \in DOMAIN schedule}

SavedInv ==
    /\ saved = Scheduled
    /\ \A c \in DOMAIN completed : completed[c].request \in saved

\* What a rejection will invalidate are rows of its request, and no two rejections
\* of a request are under way; a schedule that was completed since it was looked
\* up has been paid by another row.
RejectingInv ==
    \A x \in rejecting :
        /\ \A c \in x.rows : c \in DOMAIN completed /\ completed[c].request = x.request
        /\ \E c \in x.rows : completed[c].sent
        /\ Overtaken(x) => ValidRows(x.request) \ x.rows # {}
        /\ \A y \in rejecting : y.request = x.request => y = x

RefinementInv == TypeInv /\ SavedInv /\ RejectingInv

JobsProofs == INSTANCE PaymentJobs_proofs WITH
    jobs <- [s \in DOMAIN schedule |->
               [request |-> schedule[s].request, done |-> schedule[s].done]],
    rows <- [c \in DOMAIN completed |->
               [request |-> completed[c].request, job |-> completed[c].schedule,
                valid |-> completed[c].valid, sent |-> completed[c].sent]]

\* The variables of PaymentJobs, in terms of the tables.
LEMMA MappedVars ==
    /\ Jobs!vars = <<JobsOf(schedule), RowsOf(completed)>>
    /\ (Jobs!vars)' = <<JobsOf(schedule'), RowsOf(completed')>>
  BY DEF Jobs!vars, JobsOf, RowsOf, JobOf, RowOf

\* The open jobs of a request are its open schedules.
LEMMA OpenJobsAreOpenSchedules ==
    ASSUME NEW r
    PROVE  Jobs!OpenJobs(r) = OpenSchedules(r)
  BY DEF Jobs!OpenJobs, OpenSchedules

\* A schedule that is freed is the same job; a new one is opened.
LEMMA EnsureScheduledJobs ==
    ASSUME TypeOK, NEW r \in Requests, NEW s, s = 0 \/ IsScheduleOf(s, r),
           EnsureScheduled(r, s)
    PROVE  \/ s # 0 /\ JobsOf(schedule') = JobsOf(schedule)
           \/ s = 0 /\ JobsOf(schedule')
                        = Append(JobsOf(schedule), [request |-> r, done |-> FALSE])
<1>1. ASSUME s \in DOMAIN schedule, schedule' = [schedule EXCEPT ![s].lease = "free"]
      PROVE  JobsOf(schedule') = JobsOf(schedule)
  <2>1. \A i \in DOMAIN schedule : schedule[i] \in ScheduleRow
    BY DEF TypeOK
  <2>2. DOMAIN schedule' = DOMAIN schedule
    BY <1>1
  <2>3. \A i \in DOMAIN schedule : JobOf(schedule'[i]) = JobOf(schedule[i])
    BY <1>1, <2>1 DEF JobOf, ScheduleRow
  <2>4. QED
    BY <2>2, <2>3 DEF JobsOf
<1>2. ASSUME schedule' = Append(schedule, NewSchedule(r))
      PROVE  JobsOf(schedule')
               = Append(JobsOf(schedule), [request |-> r, done |-> FALSE])
  <2>1. NewSchedule(r) \in ScheduleRow
    BY DEF NewSchedule, ScheduleRow, Lease
  <2>2. JobOf(NewSchedule(r)) = [request |-> r, done |-> FALSE]
    BY DEF JobOf, NewSchedule
  <2>3. QED
    BY <1>2, <2>1, <2>2, JobsOfAppend DEF TypeOK
<1>3. CASE s = 0
  BY <1>2, <1>3 DEF EnsureScheduled
<1>4. CASE s # 0
  BY <1>1, <1>4 DEF EnsureScheduled, IsScheduleOf
<1>5. QED
  BY <1>3, <1>4

\* Completing a schedule pays its job, or changes nothing.
LEMMA CompletePaymentRequestsJobs ==
    ASSUME TypeOK, NEW s \in DOMAIN schedule, NEW v \in Int,
           CompletePaymentRequests(s, v)
    PROVE  Jobs!Pay(s) \/ UNCHANGED <<schedule, completed>>
<1>1. CASE ~schedule[s].done
  <2> DEFINE e == [request |-> schedule[s].request, schedule |-> s, value |-> v,
                   valid |-> TRUE, sent |-> FALSE]
  <2>1. /\ schedule' = [schedule EXCEPT ![s].done = TRUE]
        /\ completed' = Append(completed, e)
    BY <1>1 DEF CompletePaymentRequests
  <2>2. \A i \in DOMAIN schedule : schedule[i] \in ScheduleRow
    BY DEF TypeOK
  <2>3. DOMAIN schedule' = DOMAIN schedule
    BY <2>1
  <2>4. \A i \in DOMAIN schedule :
            schedule'[i] = IF i = s THEN [schedule[s] EXCEPT !.done = TRUE]
                                    ELSE schedule[i]
    BY <2>1
  <2>5. JobsOf(schedule') = [JobsOf(schedule) EXCEPT ![s].done = TRUE]
    <3>1. [JobsOf(schedule) EXCEPT ![s].done = TRUE]
            = [i \in DOMAIN schedule |->
                 IF i = s THEN [JobOf(schedule[s]) EXCEPT !.done = TRUE]
                          ELSE JobOf(schedule[i])]
      BY DEF JobsOf
    <3>2. \A i \in DOMAIN schedule :
              JobOf(schedule'[i])
                = IF i = s THEN [JobOf(schedule[s]) EXCEPT !.done = TRUE]
                           ELSE JobOf(schedule[i])
      BY <2>2, <2>4 DEF JobOf, ScheduleRow
    <3>3. QED
      BY <2>3, <3>1, <3>2 DEF JobsOf
  <2>6. e \in CompletedRow
    BY <2>2 DEF CompletedRow, ScheduleRow, TypeOK
  <2>7. RowsOf(completed') = Append(RowsOf(completed), RowOf(e))
    BY <2>1, <2>6, RowsOfAppend DEF TypeOK
  <2>8. /\ RowOf(e) = [request |-> schedule[s].request, job |-> s, valid |-> TRUE,
                       sent |-> FALSE]
        /\ JobsOf(schedule)[s].request = schedule[s].request
        /\ JobsOf(schedule)[s].done = schedule[s].done
    BY DEF RowOf, JobOf, JobsOf
  <2>9. QED
    BY <1>1, <2>5, <2>7, <2>8 DEF Jobs!Pay, JobsOf, RowsOf, JobOf, RowOf
<1>2. CASE schedule[s].done
  BY <1>2 DEF CompletePaymentRequests
<1>3. QED
  BY <1>1, <1>2

-----------------------------------------------------------------------------
(* Each step is a step of PaymentJobs, or changes neither of its tables.   *)

\* Intake opens a job.
LEMMA SavePaymentRequestJobs ==
    ASSUME RefinementInv, NEW r \in Requests, SavePaymentRequest(r)
    PROVE  Jobs!Open(r)
<1>1. NewSchedule(r) \in ScheduleRow
  BY DEF NewSchedule, ScheduleRow, Lease
<1>2. JobOf(NewSchedule(r)) = [request |-> r, done |-> FALSE]
  BY DEF JobOf, NewSchedule
<1>3. JobsOf(schedule') = Append(JobsOf(schedule), [request |-> r, done |-> FALSE])
  BY <1>1, <1>2, JobsOfAppend DEF SavePaymentRequest, RefinementInv, TypeInv, TypeOK
<1>4. completed' = completed
  BY DEF SavePaymentRequest
<1>5. QED
  BY <1>3, <1>4 DEF Jobs!Open, Jobs!Opened, JobsOf, JobOf

\* The outbox sends a row.
LEMMA PublishJobs ==
    ASSUME RefinementInv, NEW c \in DOMAIN completed, Publish(c)
    PROVE  Jobs!Send(c)
<1>1. \A d \in DOMAIN completed : completed[d] \in CompletedRow
  BY DEF RefinementInv, TypeInv, TypeOK
<1>2. /\ completed' = [completed EXCEPT ![c].sent = TRUE]
      /\ schedule' = schedule
      /\ ~completed[c].sent
  BY DEF Publish
<1>3. [RowsOf(completed) EXCEPT ![c].sent = TRUE]
        = [d \in DOMAIN completed |->
             IF d = c THEN [RowOf(completed[c]) EXCEPT !.sent = TRUE]
                      ELSE RowOf(completed[d])]
  BY DEF RowsOf
<1>4. \A d \in DOMAIN completed :
          RowOf(completed'[d])
            = IF d = c THEN [RowOf(completed[c]) EXCEPT !.sent = TRUE]
                       ELSE RowOf(completed[d])
  BY <1>1, <1>2 DEF RowOf, CompletedRow
<1>5. RowsOf(completed') = [RowsOf(completed) EXCEPT ![c].sent = TRUE]
  BY <1>2, <1>3, <1>4 DEF RowsOf
<1>6. RowsOf(completed)[c].sent = completed[c].sent
  BY DEF RowsOf, RowOf
<1>7. QED
  BY <1>2, <1>5, <1>6 DEF Jobs!Send, RowsOf, RowOf

\* A request that is rejected is open after it, or has been paid since.
LEMMA RejectedIsOpenOrPaid ==
    ASSUME RefinementInv, NEW x \in rejecting, ProcessInvalid(x)
    PROVE  OpenSchedules(x.request)' # {} \/ ValidRows(x.request)' # {}
<1>1. /\ x.request \in Requests
      /\ x.found # 0 => IsScheduleOf(x.found, x.request)
  BY DEF RefinementInv, TypeInv, TypeOK, Rejection, OwnSchedules
<1>2. CASE x.found = 0
  <2>1. NewSchedule(x.request) \in ScheduleRow
    BY <1>1 DEF NewSchedule, ScheduleRow, Lease
  <2>2. schedule' = Append(schedule, NewSchedule(x.request))
    BY <1>2 DEF ProcessInvalid, EnsureScheduled
  <2>3. /\ Len(schedule) + 1 \in DOMAIN schedule'
        /\ schedule'[Len(schedule) + 1] = NewSchedule(x.request)
    BY <2>1, <2>2, AppendRow DEF RefinementInv, TypeInv, TypeOK
  <2>4. Len(schedule) + 1 \in OpenSchedules(x.request)'
    BY <2>3 DEF OpenSchedules, NewSchedule
  <2>5. QED
    BY <2>4
<1>3. CASE x.found # 0 /\ ~Overtaken(x)
  <2>1. schedule' = [schedule EXCEPT ![x.found].lease = "free"]
    BY <1>3 DEF ProcessInvalid, EnsureScheduled, Overtaken
  <2>2. schedule[x.found] \in ScheduleRow
    BY <1>1, <1>3 DEF RefinementInv, TypeInv, TypeOK, IsScheduleOf
  <2>3. x.found \in OpenSchedules(x.request)'
    BY <1>1, <1>3, <2>1, <2>2 DEF OpenSchedules, IsScheduleOf, Overtaken, ScheduleRow
  <2>4. QED
    BY <2>3
<1>4. CASE Overtaken(x)
  <2>1. PICK c \in ValidRows(x.request) : c \notin x.rows
    BY <1>4 DEF RefinementInv, RejectingInv
  <2>2. c \in ValidRows(x.request)'
    BY <2>1 DEF ProcessInvalid, ValidRows
  <2>3. QED
    BY <2>2
<1>5. QED
  BY <1>2, <1>3, <1>4 DEF Overtaken

\* The valid rows of a request are those PaymentJobs sees.
LEMMA ValidRowsAreValidRows ==
    ASSUME NEW r
    PROVE  Jobs!ValidRows(r) = ValidRows(r)
  BY DEF Jobs!ValidRows, ValidRows

\* A rejection voids rows of its request.
LEMMA ProcessInvalidJobs ==
    ASSUME RefinementInv, NEW x \in rejecting, ProcessInvalid(x)
    PROVE  Jobs!Void(x.request)
<1> DEFINE r == x.request
<1>1. \A d \in DOMAIN completed : completed[d] \in CompletedRow
  BY DEF RefinementInv, TypeInv, TypeOK
<1>2. r \in Requests /\ (x.found = 0 \/ IsScheduleOf(x.found, r))
  BY DEF RefinementInv, TypeInv, TypeOK, Rejection, OwnSchedules
<1>3. /\ \A c \in x.rows : c \in DOMAIN completed /\ completed[c].request = r
      /\ \E c \in x.rows : completed[c].sent
  BY DEF RefinementInv, RejectingInv
<1>4. completed' = [d \in DOMAIN completed |->
                      IF d \in x.rows
                      THEN [completed[d] EXCEPT !.valid = FALSE]
                      ELSE completed[d]]
  BY DEF ProcessInvalid
<1>5. /\ DOMAIN RowsOf(completed) = DOMAIN completed
      /\ \A d \in DOMAIN completed : RowsOf(completed)[d] = RowOf(completed[d])
      /\ \A d \in DOMAIN completed : /\ RowOf(completed[d]).request = completed[d].request
                                     /\ RowOf(completed[d]).sent = completed[d].sent
  BY DEF RowsOf, RowOf
<1>6. \A d \in DOMAIN completed :
          RowOf(completed'[d]) = IF d \in x.rows
                                 THEN [RowOf(completed[d]) EXCEPT !.valid = FALSE]
                                 ELSE RowOf(completed[d])
  BY <1>1, <1>4 DEF RowOf, CompletedRow
<1>7. RowsOf(completed')
        = [d \in DOMAIN RowsOf(completed) |->
             IF d \in x.rows
             THEN [RowsOf(completed)[d] EXCEPT !.valid = FALSE]
             ELSE RowsOf(completed)[d]]
  <2>1. DOMAIN completed' = DOMAIN completed
    BY <1>4
  <2>2. RowsOf(completed') = [d \in DOMAIN completed |-> RowOf(completed'[d])]
    BY <2>1 DEF RowsOf
  <2>3. \A d \in DOMAIN completed :
            RowOf(completed'[d]) = IF d \in x.rows
                                   THEN [RowsOf(completed)[d] EXCEPT !.valid = FALSE]
                                   ELSE RowsOf(completed)[d]
    BY <1>5, <1>6
  <2>4. QED
    BY <2>2, <2>3, <1>5
<1>8. /\ x.rows \in SUBSET {c \in DOMAIN RowsOf(completed) : RowsOf(completed)[c].request = r}
      /\ \E c \in x.rows : RowsOf(completed)[c].sent
  BY <1>3, <1>5
<1>9. JobsOf(schedule')
        \in {JobsOf(schedule), Append(JobsOf(schedule), [request |-> r, done |-> FALSE])}
  BY <1>2, EnsureScheduledJobs DEF ProcessInvalid, RefinementInv, TypeInv
<1>10. /\ Jobs!OpenJobs(r)' = OpenSchedules(r)'
       /\ Jobs!ValidRows(r)' = ValidRows(r)'
  BY DEF Jobs!OpenJobs, OpenSchedules, Jobs!ValidRows, ValidRows
<1>11. Jobs!OpenJobs(r)' # {} \/ Jobs!ValidRows(r)' # {}
  BY <1>10, RejectedIsOpenOrPaid
<1> HIDE DEF r
<1>12. Jobs!Void(r)
  <2>1. \E V \in SUBSET {c \in DOMAIN RowsOf(completed) : RowsOf(completed)[c].request = r} :
           /\ \E c \in V : RowsOf(completed)[c].sent
           /\ RowsOf(completed')
                = [d \in DOMAIN RowsOf(completed) |->
                     IF d \in V THEN [RowsOf(completed)[d] EXCEPT !.valid = FALSE]
                                ELSE RowsOf(completed)[d]]
    BY <1>7, <1>8
  <2>2. QED
    BY <2>1, <1>9, <1>11 DEF Jobs!Void, Jobs!Opened, JobsOf, RowsOf, JobOf, RowOf
<1>13. QED
  BY <1>12 DEF r

\* Holding a request opens a job, if it was completed before the look-up.
LEMMA HoldAndRescheduleJobs ==
    ASSUME RefinementInv, NEW p \in Pods, HoldForDebtData(p) \/ HoldForLedgerCheck(p)
    PROVE  [\E r \in Requests : Jobs!Open(r)]_(Jobs!vars)
<1>1. PICK category \in AutoHold : HoldAndReschedule(p, category)
  BY DEF HoldForDebtData, HoldForLedgerCheck, AutoHold
<1>2. PICK s \in job[p].found : EnsureScheduled(JobRequest(p), s)
  BY <1>1 DEF HoldAndReschedule
<1>3. PICK r \in Requests : r = JobRequest(p) /\ (s = 0 \/ IsScheduleOf(s, r))
  BY JobRequestType DEF HoldForDebtData, HoldForLedgerCheck, AtWork, RefinementInv
<1>4. \/ JobsOf(schedule') = JobsOf(schedule)
      \/ JobsOf(schedule') = Append(JobsOf(schedule), [request |-> r, done |-> FALSE])
  BY <1>2, <1>3, EnsureScheduledJobs DEF RefinementInv, TypeInv
<1>5. completed' = completed
  BY <1>1 DEF HoldAndReschedule
<1>6. CASE JobsOf(schedule') = Append(JobsOf(schedule), [request |-> r, done |-> FALSE])
  <2>1. Jobs!Open(r)
    BY <1>5, <1>6 DEF Jobs!Open, Jobs!Opened, JobsOf, JobOf
  <2>2. QED
    BY <2>1
<1>7. CASE JobsOf(schedule') = JobsOf(schedule)
  <2>1. UNCHANGED Jobs!vars
    BY <1>5, <1>7, MappedVars
  <2>2. QED
    BY <2>1
<1>8. QED
  BY <1>4, <1>6, <1>7

\* Both ways to complete a schedule pay its job.
LEMMA CompleteJobs ==
    ASSUME RefinementInv, NEW p \in Pods, FinalizePayment(p) \/ CompleteConfirmed(p)
    PROVE  [\E j \in DOMAIN schedule : Jobs!Pay(j)]_(Jobs!vars)
<1>1. PICK s \in DOMAIN schedule, v \in Int : CompletePaymentRequests(s, v)
  <2>1. CASE FinalizePayment(p)
    BY <2>1, JobRequestType DEF FinalizePayment, AtWork, RefinementInv
  <2>2. CASE CompleteConfirmed(p)
    <3>1. PICK k \in confirming[p] : CompletePaymentRequests(k.schedule, k.reply.value)
      BY <2>2 DEF CompleteConfirmed
    <3>2. k \in Confirmation /\ k.reply \in LedgerMessage
      BY DEF RefinementInv, TypeInv, TypeOK, Confirmation
    <3>3. k.schedule \in DOMAIN schedule /\ k.reply.value \in Int
      BY <3>2 DEF RefinementInv, TypeInv, OwnSchedules, IsScheduleOf,
             LedgerMessage
    <3>4. QED
      BY <3>1, <3>3
  <2>3. QED
    BY <2>1, <2>2
<1>2. Jobs!Pay(s) \/ UNCHANGED <<schedule, completed>>
  BY <1>1, CompletePaymentRequestsJobs DEF RefinementInv, TypeInv
<1>3. QED
  BY <1>2, MappedVars

\* Leases are not seen by PaymentJobs.
LEMMA LeaseJobs ==
    ASSUME RefinementInv,
           \/ \E s \in DOMAIN schedule : LeaseLapses(s)
           \/ \E p \in Pods : ClaimSchedules(p)
    PROVE  UNCHANGED Jobs!vars
<1>1. \A s \in DOMAIN schedule : schedule[s] \in ScheduleRow
  BY DEF RefinementInv, TypeInv, TypeOK
<1>2. /\ DOMAIN schedule' = DOMAIN schedule
      /\ \A s \in DOMAIN schedule : JobOf(schedule'[s]) = JobOf(schedule[s])
  BY <1>1 DEF LeaseLapses, ClaimSchedules, JobOf, ScheduleRow
<1>3. completed' = completed
  BY DEF LeaseLapses, ClaimSchedules
<1>4. QED
  BY <1>2, <1>3, MappedVars DEF JobsOf

\* The steps that touch neither table.
LEMMA OtherSteps ==
    ASSUME \/ \E a \in Accounts : AddHold(a) \/ RemoveHold(a)
           \/ \E c \in DOMAIN completed : ResetPaymentRequest(c)
           \/ \E x \in rejecting : LookUpAgain(x) \/ RejectionFails(x)
           \/ Editor
           \/ \E p \in Pods :
                 \/ ReadBatch(p)
                 \/ TransformPaymentRequest(p)
                 \/ SendForDebtData(p) \/ SendForLedgerCheck(p) \/ LookUpSchedule(p)
                 \/ \E r \in debtReplies : UpdateDebtData(p, r)
                 \/ RemoveDebtHold(p)
                 \/ \E m \in ledgerReplies : GetScheduleId(p, m)
                 \/ RemoveLedgerHold(p)
                 \/ Fail(p)
           \/ UNCHANGED vars
    PROVE  UNCHANGED <<saved, schedule, completed>>
  BY DEF AddHold, RemoveHold, ResetPaymentRequest, LookUpAgain, RejectionFails,
         LookUpSchedule, Editor, EditorAddsDebtData, EditorConfirmsLedger,
         ReadBatch, TransformPaymentRequest, SendForDebtData, SendForLedgerCheck,
         UpdateDebtData, RemoveDebtHold, GetScheduleId, RemoveLedgerHold, Fail,
         BatchFails, EnrichmentFails, ConfirmationFails, PodRestarts, vars

\* Every step is one of PaymentJobs, or none.
LEMMA RefinementStep ==
    ASSUME RefinementInv, [Next]_vars
    PROVE  [Jobs!Next]_(Jobs!vars)
<1>1. ASSUME UNCHANGED <<schedule, completed>>
      PROVE  UNCHANGED Jobs!vars
  BY <1>1, MappedVars
<1>2. DOMAIN JobsOf(schedule) = DOMAIN schedule
      /\ DOMAIN RowsOf(completed) = DOMAIN completed
  BY DEF JobsOf, RowsOf
<1>3. CASE \E r \in Requests : SavePaymentRequest(r)
  BY <1>3, SavePaymentRequestJobs DEF Jobs!Next
<1>4. CASE \/ \E c \in DOMAIN completed : Publish(c)
           \/ \E x \in rejecting : ProcessInvalid(x)
  <2>1. CASE \E c \in DOMAIN completed : Publish(c)
    BY <2>1, PublishJobs DEF Jobs!Next
  <2>2. CASE \E x \in rejecting : ProcessInvalid(x)
    <3>1. PICK x \in rejecting : Jobs!Void(x.request)
      BY <2>2, ProcessInvalidJobs
    <3>2. x.request \in Requests
      BY DEF RefinementInv, TypeInv, TypeOK, Rejection
    <3>3. QED
      BY <3>1, <3>2 DEF Jobs!Next
  <2>3. QED
    BY <1>4, <2>1, <2>2
<1>5. CASE \E p \in Pods : HoldForDebtData(p) \/ HoldForLedgerCheck(p)
  <2>1. [\E r \in Requests : Jobs!Open(r)]_(Jobs!vars)
    BY <1>5, HoldAndRescheduleJobs
  <2>2. QED
    BY <2>1 DEF Jobs!Next
<1>6. CASE \E p \in Pods : FinalizePayment(p) \/ CompleteConfirmed(p)
  <2>1. [\E j \in DOMAIN schedule : Jobs!Pay(j)]_(Jobs!vars)
    BY <1>6, CompleteJobs
  <2>2. QED
    BY <2>1 DEF Jobs!Next
<1>7. CASE \/ \E s \in DOMAIN schedule : LeaseLapses(s)
           \/ \E p \in Pods : ClaimSchedules(p)
  BY <1>7, LeaseJobs
<1>8. CASE UNCHANGED <<schedule, completed>>
  BY <1>8, <1>1
<1>9. QED
  BY <1>3, <1>4, <1>5, <1>6, <1>7, <1>8, OtherSteps DEF Next, Loop, Receive

-----------------------------------------------------------------------------
(* What is scheduled is what was saved.                                    *)

\* Scheduling a request again schedules no other request.
LEMMA EnsureScheduledKeepsScheduled ==
    ASSUME TypeOK, NEW r \in Requests, NEW s, s = 0 \/ IsScheduleOf(s, r),
           EnsureScheduled(r, s), r \in Scheduled
    PROVE  Scheduled' = Scheduled
<1>1. \A i \in DOMAIN schedule : schedule[i] \in ScheduleRow
  BY DEF TypeOK
<1>2. ASSUME s \in DOMAIN schedule, schedule' = [schedule EXCEPT ![s].lease = "free"]
      PROVE  Scheduled' = Scheduled
  <2>1. /\ DOMAIN schedule' = DOMAIN schedule
        /\ \A i \in DOMAIN schedule : schedule'[i].request = schedule[i].request
    BY <1>1, <1>2 DEF ScheduleRow
  <2>2. QED
    BY <2>1 DEF Scheduled
<1>3. ASSUME schedule' = Append(schedule, NewSchedule(r))
      PROVE  Scheduled' = Scheduled
  <2>1. NewSchedule(r) \in ScheduleRow /\ NewSchedule(r).request = r
    BY DEF NewSchedule, ScheduleRow, Lease
  <2>2. /\ DOMAIN schedule' = DOMAIN schedule \cup {Len(schedule) + 1}
        /\ \A i \in DOMAIN schedule : schedule'[i] = schedule[i]
        /\ schedule'[Len(schedule) + 1].request = r
    BY <1>3, <2>1, AppendRow DEF TypeOK
  <2>3. QED
    BY <2>2 DEF Scheduled
<1>4. ASSUME UNCHANGED schedule
      PROVE  Scheduled' = Scheduled
  BY <1>4 DEF Scheduled
<1>5. QED
  BY <1>2, <1>3, <1>4 DEF EnsureScheduled, IsScheduleOf

\* Only a scheduled request is completed.
LEMMA CompletePaymentRequestsKeepsSaved ==
    ASSUME RefinementInv, NEW s \in DOMAIN schedule, NEW v \in Int,
           CompletePaymentRequests(s, v), UNCHANGED saved
    PROVE  SavedInv'
<1>1. CASE schedule[s].done
  BY <1>1 DEF CompletePaymentRequests, RefinementInv, SavedInv, Scheduled
<1>2. CASE ~schedule[s].done
  <2> DEFINE e == [request |-> schedule[s].request, schedule |-> s, value |-> v,
                   valid |-> TRUE, sent |-> FALSE]
  <2>1. /\ schedule' = [schedule EXCEPT ![s].done = TRUE]
        /\ completed' = Append(completed, e)
    BY <1>2 DEF CompletePaymentRequests
  <2>2. \A i \in DOMAIN schedule : schedule[i] \in ScheduleRow
    BY DEF RefinementInv, TypeInv, TypeOK
  <2>3. /\ DOMAIN schedule' = DOMAIN schedule
        /\ \A i \in DOMAIN schedule : schedule'[i].request = schedule[i].request
    BY <2>1, <2>2 DEF ScheduleRow
  <2>4. e \in CompletedRow
    BY <2>2 DEF CompletedRow, ScheduleRow, RefinementInv, TypeInv, TypeOK
  <2>5. /\ DOMAIN completed' = DOMAIN completed \cup {Len(completed) + 1}
        /\ \A c \in DOMAIN completed : completed'[c] = completed[c]
        /\ completed'[Len(completed) + 1] = e
    BY <2>1, <2>4, AppendRow DEF RefinementInv, TypeInv, TypeOK
  <2>6. Scheduled' = Scheduled /\ e.request \in Scheduled
    BY <2>3 DEF Scheduled
  <2>7. QED
    BY <2>5, <2>6 DEF RefinementInv, SavedInv
<1>3. QED
  BY <1>1, <1>2

\* Every step keeps the requests scheduled and completed among those saved.
LEMMA SavedStep ==
    ASSUME RefinementInv, [Next]_vars
    PROVE  SavedInv'
<1>1. /\ \A s \in DOMAIN schedule : schedule[s] \in ScheduleRow
      /\ \A c \in DOMAIN completed : completed[c] \in CompletedRow
  BY DEF RefinementInv, TypeInv, TypeOK
<1>2. ASSUME NEW r \in Requests, SavePaymentRequest(r)
      PROVE  SavedInv'
  <2>1. NewSchedule(r) \in ScheduleRow /\ NewSchedule(r).request = r
    BY DEF NewSchedule, ScheduleRow, Lease
  <2>2. /\ DOMAIN schedule' = DOMAIN schedule \cup {Len(schedule) + 1}
        /\ \A i \in DOMAIN schedule : schedule'[i] = schedule[i]
        /\ schedule'[Len(schedule) + 1].request = r
    BY <1>2, <2>1, AppendRow DEF SavePaymentRequest, RefinementInv, TypeInv, TypeOK
  <2>3. Scheduled' = Scheduled \cup {r}
    BY <2>2 DEF Scheduled
  <2>4. QED
    BY <1>2, <2>3 DEF SavePaymentRequest, RefinementInv, SavedInv
<1>3. ASSUME NEW c \in DOMAIN completed, Publish(c)
      PROVE  SavedInv'
  <2>1. /\ DOMAIN completed' = DOMAIN completed
        /\ \A d \in DOMAIN completed : completed'[d].request = completed[d].request
    BY <1>1, <1>3 DEF Publish, CompletedRow
  <2>2. QED
    BY <1>3, <2>1 DEF Publish, RefinementInv, SavedInv, Scheduled
<1>4. ASSUME NEW x \in rejecting, ProcessInvalid(x)
      PROVE  SavedInv'
  <2>1. /\ DOMAIN completed' = DOMAIN completed
        /\ \A d \in DOMAIN completed : completed'[d].request = completed[d].request
    BY <1>1, <1>4 DEF ProcessInvalid, CompletedRow
  <2>2. /\ x.request \in Requests
        /\ x.request \in Scheduled
        /\ x.found = 0 \/ IsScheduleOf(x.found, x.request)
    BY DEF RefinementInv, TypeInv, TypeOK, Rejection, OwnSchedules, SavedInv,
           RejectingInv
  <2>3. Scheduled' = Scheduled
    BY <1>4, <2>2, EnsureScheduledKeepsScheduled
    DEF ProcessInvalid, RefinementInv, TypeInv
  <2>4. QED
    BY <1>4, <2>1, <2>3 DEF ProcessInvalid, RefinementInv, SavedInv
<1>5. ASSUME NEW p \in Pods, HoldForDebtData(p) \/ HoldForLedgerCheck(p)
      PROVE  SavedInv'
  <2>1. PICK category \in AutoHold : HoldAndReschedule(p, category)
    BY <1>5 DEF HoldForDebtData, HoldForLedgerCheck, AutoHold
  <2>2. JobRequest(p) \in Requests /\ job[p].schedule \in DOMAIN schedule
    BY <1>5, JobRequestType DEF HoldForDebtData, HoldForLedgerCheck, AtWork,
                                RefinementInv
  <2>3. JobRequest(p) \in Scheduled
    BY <2>2 DEF JobRequest, Scheduled
  <2>4. Scheduled' = Scheduled
    <3>1. PICK s \in job[p].found : EnsureScheduled(JobRequest(p), s)
      BY <2>1 DEF HoldAndReschedule
    <3>2. s = 0 \/ IsScheduleOf(s, JobRequest(p))
      BY <1>5, JobRequestType DEF HoldForDebtData, HoldForLedgerCheck, AtWork,
                                  RefinementInv
    <3>3. QED
      BY <2>2, <2>3, <3>1, <3>2, EnsureScheduledKeepsScheduled
      DEF RefinementInv, TypeInv
  <2>5. QED
    BY <2>1, <2>4 DEF HoldAndReschedule, RefinementInv, SavedInv
<1>6. ASSUME NEW p \in Pods, FinalizePayment(p)
      PROVE  SavedInv'
  BY <1>6, JobRequestType, CompletePaymentRequestsKeepsSaved
  DEF FinalizePayment, AtWork, RefinementInv
<1>7. ASSUME NEW p \in Pods, CompleteConfirmed(p)
      PROVE  SavedInv'
  <2>1. PICK k \in confirming[p] : CompletePaymentRequests(k.schedule, k.reply.value)
    BY <1>7 DEF CompleteConfirmed
  <2>2. k \in Confirmation /\ k.reply \in LedgerMessage
    BY DEF RefinementInv, TypeInv, TypeOK, Confirmation
  <2>3. k.schedule \in DOMAIN schedule /\ k.reply.value \in Int
    BY <2>2 DEF RefinementInv, TypeInv, OwnSchedules, IsScheduleOf,
             LedgerMessage
  <2>4. QED
    BY <1>7, <2>1, <2>3, CompletePaymentRequestsKeepsSaved DEF CompleteConfirmed
<1>8. ASSUME \/ \E s \in DOMAIN schedule : LeaseLapses(s)
             \/ \E p \in Pods : ClaimSchedules(p)
      PROVE  SavedInv'
  <2>1. /\ DOMAIN schedule' = DOMAIN schedule
        /\ \A s \in DOMAIN schedule : schedule'[s].request = schedule[s].request
    BY <1>1, <1>8 DEF LeaseLapses, ClaimSchedules, ScheduleRow
  <2>2. UNCHANGED <<saved, completed>>
    BY <1>8 DEF LeaseLapses, ClaimSchedules
  <2>3. QED
    BY <2>1, <2>2 DEF RefinementInv, SavedInv, Scheduled
<1>9. ASSUME UNCHANGED <<saved, schedule, completed>>
      PROVE  SavedInv'
  BY <1>9 DEF RefinementInv, SavedInv, Scheduled
<1>10. QED
  BY <1>2, <1>3, <1>4, <1>5, <1>6, <1>7, <1>8, <1>9, OtherSteps
  DEF Next, Loop, Receive

-----------------------------------------------------------------------------
(* What a rejection that is under way relies on.                           *)

\* Rows of the completed payments are never removed, given to another request or
\* unsent, and only new ones name a schedule that was open.
RowsGrow ==
    \A c \in DOMAIN completed :
        /\ c \in DOMAIN completed'
        /\ completed'[c].request = completed[c].request
        /\ completed[c].sent => completed'[c].sent

\* Steps that begin no rejection, complete no schedule and invalidate no row of a
\* request that is being rejected.
LEMMA KeepsRejecting ==
    ASSUME RefinementInv, rejecting' \subseteq rejecting, RowsGrow,
           \A x \in rejecting' :
               /\ Overtaken(x)' => Overtaken(x)
               /\ ValidRows(x.request) \subseteq ValidRows(x.request)'
    PROVE  RejectingInv'
<1> SUFFICES ASSUME NEW x \in rejecting'
             PROVE  /\ \A c \in x.rows : c \in DOMAIN completed' /\ completed'[c].request = x.request
                    /\ \E c \in x.rows : completed'[c].sent
                    /\ Overtaken(x)' => ValidRows(x.request)' \ x.rows # {}
                    /\ \A y \in rejecting' : y.request = x.request => y = x
  BY DEF RejectingInv
<1>1. /\ \A c \in x.rows : c \in DOMAIN completed /\ completed[c].request = x.request
      /\ \E c \in x.rows : completed[c].sent
      /\ Overtaken(x) => ValidRows(x.request) \ x.rows # {}
      /\ \A y \in rejecting : y.request = x.request => y = x
  BY DEF RefinementInv, RejectingInv
<1>2. /\ \A c \in x.rows : c \in DOMAIN completed' /\ completed'[c].request = x.request
      /\ \E c \in x.rows : completed'[c].sent
  BY <1>1 DEF RowsGrow
<1>3. Overtaken(x)' => ValidRows(x.request)' \ x.rows # {}
  BY <1>1
<1>4. QED
  BY <1>1, <1>2, <1>3

\* A payment: whatever rejection looked up its schedule is overtaken by its row.
LEMMA CompletePaymentRequestsRejecting ==
    ASSUME RefinementInv, NEW s \in DOMAIN schedule, NEW v \in Int,
           CompletePaymentRequests(s, v), UNCHANGED rejecting
    PROVE  RejectingInv'
<1>1. CASE schedule[s].done
  BY <1>1 DEF CompletePaymentRequests, RefinementInv, RejectingInv, Overtaken, ValidRows
<1>2. CASE ~schedule[s].done
  <2> DEFINE e == [request |-> schedule[s].request, schedule |-> s, value |-> v,
                   valid |-> TRUE, sent |-> FALSE]
             new == Len(completed) + 1
  <2>1. /\ schedule' = [schedule EXCEPT ![s].done = TRUE]
        /\ completed' = Append(completed, e)
    BY <1>2 DEF CompletePaymentRequests
  <2>2. \A i \in DOMAIN schedule : schedule[i] \in ScheduleRow
    BY DEF RefinementInv, TypeInv, TypeOK
  <2>3. e \in CompletedRow
    BY <2>2 DEF CompletedRow, ScheduleRow, RefinementInv, TypeInv, TypeOK
  <2>4. /\ DOMAIN completed' = DOMAIN completed \cup {new}
        /\ new \notin DOMAIN completed
        /\ \A c \in DOMAIN completed : completed'[c] = completed[c]
        /\ completed'[new] = e
    BY <2>1, <2>3, AppendRow DEF RefinementInv, TypeInv, TypeOK
  <2>5. \A i \in DOMAIN schedule \ {s} : schedule'[i] = schedule[i]
    BY <2>1
  <2> HIDE DEF new
  <2> SUFFICES ASSUME NEW x \in rejecting
               PROVE  /\ \A c \in x.rows : c \in DOMAIN completed' /\ completed'[c].request = x.request
                      /\ \E c \in x.rows : completed'[c].sent
                      /\ Overtaken(x)' => ValidRows(x.request)' \ x.rows # {}
                      /\ \A y \in rejecting : y.request = x.request => y = x
    BY DEF RejectingInv
  <2>6. /\ \A c \in x.rows : c \in DOMAIN completed /\ completed[c].request = x.request
        /\ \E c \in x.rows : completed[c].sent
        /\ Overtaken(x) => ValidRows(x.request) \ x.rows # {}
        /\ \A y \in rejecting : y.request = x.request => y = x
    BY DEF RefinementInv, RejectingInv
  <2>7. x.found # 0 => IsScheduleOf(x.found, x.request)
    BY DEF RefinementInv, TypeInv, OwnSchedules
  <2>8. ASSUME Overtaken(x)'
        PROVE  ValidRows(x.request)' \ x.rows # {}
    <3>1. CASE x.found = s
      <4>1. new \in ValidRows(x.request)'
        BY <2>4, <2>7, <2>8, <3>1 DEF ValidRows, IsScheduleOf, Overtaken
      <4>2. QED
        BY <4>1, <2>4, <2>6
    <3>2. CASE x.found # s
      <4>1. Overtaken(x)
        BY <2>5, <2>7, <2>8, <3>2 DEF Overtaken, IsScheduleOf
      <4>2. ValidRows(x.request) \subseteq ValidRows(x.request)'
        BY <2>4 DEF ValidRows
      <4>3. QED
        BY <4>1, <4>2, <2>6
    <3>3. QED
      BY <3>1, <3>2
  <2>9. /\ \A c \in x.rows : c \in DOMAIN completed' /\ completed'[c].request = x.request
        /\ \E c \in x.rows : completed'[c].sent
    BY <2>4, <2>6
  <2>10. QED
    BY <2>6, <2>8, <2>9
<1>3. QED
  BY <1>1, <1>2

\* A rejection that begins is the only one of its request.
LEMMA ResetPaymentRequestRejecting ==
    ASSUME RefinementInv, NEW c \in DOMAIN completed, ResetPaymentRequest(c)
    PROVE  RejectingInv'
<1> DEFINE r == completed[c].request
<1>1. PICK s \in GetExistingSchedule(r) :
          rejecting' = rejecting \cup
             {[request |-> r, rows |-> InvalidatePaymentRequests(c),
               found |-> s, again |-> FALSE]}
  BY DEF ResetPaymentRequest
<1> DEFINE x == [request |-> r, rows |-> InvalidatePaymentRequests(c),
                 found |-> s, again |-> FALSE]
<1>2. r \in Requests
  <2>1. completed[c] \in CompletedRow
    BY DEF RefinementInv, TypeInv, TypeOK
  <2>2. QED
    BY <2>1 DEF CompletedRow
<1>3. s # 0 => ~schedule[s].done
  BY <1>2, GetExistingScheduleType DEF RefinementInv, TypeInv
<1>4. /\ \A d \in x.rows : d \in DOMAIN completed /\ completed[d].request = x.request
      /\ \E d \in x.rows : completed[d].sent
  BY DEF InvalidatePaymentRequests, ResetPaymentRequest
<1>5. x.found = s /\ x.request = r
  OBVIOUS
<1>6. ~Overtaken(x)
  BY <1>3, <1>5 DEF Overtaken
<1>7. \A y \in rejecting : y.request # r
  BY DEF ResetPaymentRequest
<1>8. UNCHANGED <<schedule, completed>>
  BY DEF ResetPaymentRequest
<1> HIDE DEF x, r
<1>9. rejecting' = rejecting \cup {x}
  BY <1>1 DEF x
<1>10. QED
  BY <1>4, <1>5, <1>6, <1>7, <1>8, <1>9
  DEF RefinementInv, RejectingInv, Overtaken, ValidRows

\* A second look-up finds an open schedule or none.
LEMMA LookUpAgainRejecting ==
    ASSUME RefinementInv, NEW x \in rejecting, LookUpAgain(x)
    PROVE  RejectingInv'
<1>1. x \in Rejection
  BY DEF RefinementInv, TypeInv, TypeOK
<1>2. PICK s \in GetExistingSchedule(x.request) :
          rejecting' = (rejecting \ {x}) \cup {[x EXCEPT !.found = s, !.again = TRUE]}
  BY DEF LookUpAgain
<1> DEFINE y == [x EXCEPT !.found = s, !.again = TRUE]
<1>3. s # 0 => ~schedule[s].done
  BY <1>1, GetExistingScheduleType DEF RefinementInv, TypeInv, Rejection
<1>4. y.found = s /\ y.request = x.request /\ y.rows = x.rows
  BY <1>1 DEF Rejection
<1>5. ~Overtaken(y)
  BY <1>3, <1>4 DEF Overtaken
<1>6. UNCHANGED <<schedule, completed>>
  BY DEF LookUpAgain
<1> HIDE DEF y
<1>7. rejecting' = (rejecting \ {x}) \cup {y}
  BY <1>2 DEF y
<1>8. QED
  BY <1>4, <1>5, <1>6, <1>7 DEF RefinementInv, RejectingInv, Overtaken, ValidRows

\* Scheduling again completes nothing.
LEMMA EnsureScheduledCompletes ==
    ASSUME TypeOK, NEW r \in Requests, NEW s, s = 0 \/ IsScheduleOf(s, r),
           EnsureScheduled(r, s)
    PROVE  \A i \in DOMAIN schedule : schedule'[i].done = schedule[i].done
<1>1. \A i \in DOMAIN schedule : schedule[i] \in ScheduleRow
  BY DEF TypeOK
<1>2. ASSUME s \in DOMAIN schedule, schedule' = [schedule EXCEPT ![s].lease = "free"]
      PROVE  \A i \in DOMAIN schedule : schedule'[i].done = schedule[i].done
  BY <1>1, <1>2 DEF ScheduleRow
<1>3. ASSUME schedule' = Append(schedule, NewSchedule(r))
      PROVE  \A i \in DOMAIN schedule : schedule'[i].done = schedule[i].done
  <2>1. NewSchedule(r) \in ScheduleRow
    BY DEF NewSchedule, ScheduleRow, Lease
  <2>2. QED
    BY <1>3, <2>1, AppendRow DEF TypeOK
<1>4. QED
  BY <1>2, <1>3 DEF EnsureScheduled, IsScheduleOf

\* Every step keeps what the rejections rely on.
LEMMA RejectingStep ==
    ASSUME RefinementInv, [Next]_vars
    PROVE  RejectingInv'
<1>1. /\ \A s \in DOMAIN schedule : schedule[s] \in ScheduleRow
      /\ \A c \in DOMAIN completed : completed[c] \in CompletedRow
      /\ \A x \in rejecting : x.found # 0 => IsScheduleOf(x.found, x.request)
      /\ \A x \in rejecting : x.request \in Requests
  BY DEF RefinementInv, TypeInv, TypeOK, OwnSchedules, Rejection
<1>2. ASSUME UNCHANGED completed, rejecting' \subseteq rejecting,
             \A s \in DOMAIN schedule : schedule'[s].done = schedule[s].done
      PROVE  RejectingInv'
  <2>1. RowsGrow
    BY <1>2 DEF RowsGrow
  <2>2. \A x \in rejecting' : /\ Overtaken(x)' => Overtaken(x)
                              /\ ValidRows(x.request) \subseteq ValidRows(x.request)'
    BY <1>1, <1>2 DEF Overtaken, ValidRows, IsScheduleOf
  <2>3. QED
    BY <1>2, <2>1, <2>2, KeepsRejecting
<1>3. ASSUME NEW r \in Requests, SavePaymentRequest(r)
      PROVE  RejectingInv'
  <2>1. NewSchedule(r) \in ScheduleRow
    BY DEF NewSchedule, ScheduleRow, Lease
  <2>2. \A s \in DOMAIN schedule : schedule'[s] = schedule[s]
    BY <1>3, <2>1, AppendRow DEF SavePaymentRequest, RefinementInv, TypeInv, TypeOK
  <2>3. UNCHANGED <<completed, rejecting>>
    BY <1>3 DEF SavePaymentRequest, acknowledging
  <2>4. QED
    BY <1>2, <2>2, <2>3
<1>4. ASSUME NEW c \in DOMAIN completed, Publish(c)
      PROVE  RejectingInv'
  <2>1. /\ DOMAIN completed' = DOMAIN completed
        /\ \A d \in DOMAIN completed : /\ completed'[d].request = completed[d].request
                                       /\ completed'[d].valid = completed[d].valid
                                       /\ completed[d].sent => completed'[d].sent
    BY <1>1, <1>4 DEF Publish, CompletedRow
  <2>2. UNCHANGED <<schedule, rejecting>>
    BY <1>4 DEF Publish, acknowledging
  <2>3. RowsGrow
    BY <2>1 DEF RowsGrow
  <2>4. \A x \in rejecting' : /\ Overtaken(x)' => Overtaken(x)
                              /\ ValidRows(x.request) \subseteq ValidRows(x.request)'
    BY <2>1, <2>2 DEF Overtaken, ValidRows
  <2>5. QED
    BY <2>2, <2>3, <2>4, KeepsRejecting
<1>5. ASSUME NEW y \in rejecting, ProcessInvalid(y)
      PROVE  RejectingInv'
  <2>1. /\ DOMAIN completed' = DOMAIN completed
        /\ \A d \in DOMAIN completed : /\ completed'[d].request = completed[d].request
                                       /\ completed'[d].sent = completed[d].sent
                                       /\ d \notin y.rows => completed'[d].valid = completed[d].valid
    BY <1>1, <1>5 DEF ProcessInvalid, CompletedRow
  <2>2. rejecting' = rejecting \ {y}
    BY <1>5 DEF ProcessInvalid
  <2>3. RowsGrow
    BY <2>1 DEF RowsGrow
  <2>4. \A s \in DOMAIN schedule : schedule'[s].done = schedule[s].done
    BY <1>1, <1>5, EnsureScheduledCompletes DEF ProcessInvalid, RefinementInv, TypeInv
  <2>5. \A x \in rejecting' : Overtaken(x)' => Overtaken(x)
    BY <1>1, <2>2, <2>4 DEF Overtaken, IsScheduleOf
  <2>6. ASSUME NEW x \in rejecting'
        PROVE  ValidRows(x.request) \subseteq ValidRows(x.request)'
    <3>1. x \in rejecting /\ x.request # y.request
      BY <2>2 DEF RefinementInv, RejectingInv
    <3>2. \A d \in y.rows : completed[d].request = y.request
      BY DEF RefinementInv, RejectingInv
    <3>3. QED
      BY <2>1, <3>1, <3>2 DEF ValidRows
  <2>7. QED
    BY <2>2, <2>3, <2>5, <2>6, KeepsRejecting
<1>6. ASSUME NEW p \in Pods, HoldForDebtData(p) \/ HoldForLedgerCheck(p)
      PROVE  RejectingInv'
  <2>1. PICK s \in job[p].found : EnsureScheduled(JobRequest(p), s)
    BY <1>6 DEF HoldForDebtData, HoldForLedgerCheck, HoldAndReschedule
  <2>2. JobRequest(p) \in Requests /\ (s = 0 \/ IsScheduleOf(s, JobRequest(p)))
    BY <1>6, JobRequestType DEF HoldForDebtData, HoldForLedgerCheck, AtWork,
                                RefinementInv
  <2>3. \A i \in DOMAIN schedule : schedule'[i].done = schedule[i].done
    BY <2>1, <2>2, EnsureScheduledCompletes DEF RefinementInv, TypeInv
  <2>4. UNCHANGED <<completed, rejecting>>
    BY <1>6 DEF HoldForDebtData, HoldForLedgerCheck, HoldAndReschedule, acknowledging
  <2>5. QED
    BY <1>2, <2>3, <2>4
<1>7. ASSUME NEW p \in Pods, FinalizePayment(p)
      PROVE  RejectingInv'
  <2>1. UNCHANGED rejecting
    BY <1>7 DEF FinalizePayment, acknowledging
  <2>2. QED
    BY <1>7, <2>1, JobRequestType, CompletePaymentRequestsRejecting
    DEF FinalizePayment, AtWork, RefinementInv
<1>8. ASSUME NEW p \in Pods, CompleteConfirmed(p)
      PROVE  RejectingInv'
  <2>1. PICK k \in confirming[p] : CompletePaymentRequests(k.schedule, k.reply.value)
    BY <1>8 DEF CompleteConfirmed
  <2>2. k \in Confirmation /\ k.reply \in LedgerMessage
    BY DEF RefinementInv, TypeInv, TypeOK, Confirmation
  <2>3. k.schedule \in DOMAIN schedule /\ k.reply.value \in Int
    BY <2>2 DEF RefinementInv, TypeInv, OwnSchedules, IsScheduleOf, LedgerMessage
  <2>4. UNCHANGED rejecting
    BY <1>8 DEF CompleteConfirmed, acknowledging
  <2>5. QED
    BY <2>1, <2>3, <2>4, CompletePaymentRequestsRejecting
<1>9. ASSUME \/ \E s \in DOMAIN schedule : LeaseLapses(s)
             \/ \E p \in Pods : ClaimSchedules(p)
      PROVE  RejectingInv'
  <2>1. \A s \in DOMAIN schedule : schedule'[s].done = schedule[s].done
    BY <1>1, <1>9 DEF LeaseLapses, ClaimSchedules, ScheduleRow
  <2>2. UNCHANGED <<completed, rejecting>>
    BY <1>9 DEF LeaseLapses, ClaimSchedules, acknowledging
  <2>3. QED
    BY <1>2, <2>1, <2>2
<1>10. ASSUME \/ \E a \in Accounts : AddHold(a) \/ RemoveHold(a)
              \/ \E x \in rejecting : RejectionFails(x)
              \/ Editor
              \/ \E p \in Pods :
                   \/ ReadBatch(p)
                   \/ TransformPaymentRequest(p)
                   \/ SendForDebtData(p) \/ SendForLedgerCheck(p) \/ LookUpSchedule(p)
                   \/ \E r \in debtReplies : UpdateDebtData(p, r)
                   \/ RemoveDebtHold(p)
                   \/ \E m \in ledgerReplies : GetScheduleId(p, m)
                   \/ RemoveLedgerHold(p)
                   \/ Fail(p)
              \/ UNCHANGED vars
       PROVE  RejectingInv'
  <2>1. UNCHANGED <<schedule, completed>>
    BY <1>10, OtherSteps
  <2>2. rejecting' \subseteq rejecting
    BY <1>10
    DEF AddHold, RemoveHold, RejectionFails, LookUpSchedule, Editor,
        EditorAddsDebtData, EditorConfirmsLedger, ReadBatch,
        TransformPaymentRequest, SendForDebtData, SendForLedgerCheck,
        UpdateDebtData, RemoveDebtHold, GetScheduleId, RemoveLedgerHold, Fail,
        BatchFails, EnrichmentFails, ConfirmationFails, PodRestarts, vars,
        acknowledging
  <2>3. QED
    BY <1>2, <2>1, <2>2
<1>11. QED
  BY <1>3, <1>4, <1>5, <1>6, <1>7, <1>8, <1>9, <1>10, ResetPaymentRequestRejecting,
     LookUpAgainRejecting
  DEF Next, Loop, Receive

\* The invariant the refinement needs.
LEMMA RefinementInvHolds == Spec => []RefinementInv
<1>1. Init => RefinementInv
  BY DEF Init, RefinementInv, SavedInv, Scheduled, TypeInv, TypeOK, JobInBatch,
         AtWork, OwnSchedules, Phase, Job, NoJob, Rejection, RejectingInv
<1>2. RefinementInv /\ [Next]_vars => RefinementInv'
  BY TypeStep, SavedStep, RejectingStep DEF RefinementInv
<1>3. QED
  BY <1>1, <1>2, PTL DEF Spec

-----------------------------------------------------------------------------
(* The theorems.                                                           *)

\* Whatever leases lapse, whoever else works on a schedule, whichever reply comes
\* late and wherever a pod stops, the tables change only as PaymentJobs says.
THEOREM Refinement == Spec => ImplementsJobs
<1>1. Init => Jobs!Init
  BY DEF Init, Jobs!Init
<1>2. RefinementInv /\ [Next]_vars => [Jobs!Next]_(Jobs!vars)
  BY RefinementStep
<1>3. QED
  BY <1>1, <1>2, RefinementInvHolds, PTL DEF Spec, Jobs!Spec, ImplementsJobs

\* The invariant of PaymentJobs holds of the tables.
LEMMA JobsInvHolds == Spec => []JobsProofs!Inv
<1>1. Jobs!Init => JobsProofs!Init
  BY DEF Jobs!Init, JobsProofs!Init
<1>2. [Jobs!Next]_(Jobs!vars) => [JobsProofs!Next]_(JobsProofs!vars)
  BY DEF Jobs!Next, Jobs!Open, Jobs!OpenJobs, Jobs!Opened, Jobs!Pay, Jobs!Send,
         Jobs!Void, Jobs!ValidRows, Jobs!vars, JobsProofs!Next, JobsProofs!Open,
         JobsProofs!OpenJobs, JobsProofs!Opened, JobsProofs!Pay, JobsProofs!Send,
         JobsProofs!Void, JobsProofs!ValidRows, JobsProofs!vars
<1>3. Jobs!Spec => JobsProofs!Spec
  BY <1>1, <1>2, PTL DEF Jobs!Spec, JobsProofs!Spec
<1>4. JobsProofs!Spec => []JobsProofs!Inv
  BY JobsProofs!InvHolds
<1>5. QED
  BY <1>3, <1>4, Refinement, PTL DEF ImplementsJobs

\* A schedule is paid at most once.
THEOREM SchedulePaidOnce == Spec => []PaidOncePerSchedule
<1>1. JobsProofs!Inv => PaidOncePerSchedule
  BY DEF JobsProofs!Inv, JobsProofs!PaidOncePerJob, PaidOncePerSchedule
<1>2. QED
  BY <1>1, JobsInvHolds, PTL

\* A saved payment request waits in the schedule table or is validly completed.
THEOREM NothingLost == Spec => []NoRequestLost
<1>1. RefinementInv /\ JobsProofs!Inv => NoRequestLost
  <2> SUFFICES ASSUME RefinementInv, JobsProofs!Inv, NEW r \in saved
               PROVE  OpenSchedules(r) # {} \/ ValidRows(r) # {}
    BY DEF NoRequestLost
  <2>1. PICK s \in DOMAIN schedule : schedule[s].request = r
    BY DEF RefinementInv, SavedInv, Scheduled
  <2>2. JobsProofs!OpenJobs(r) # {} \/ JobsProofs!ValidRows(r) # {}
    BY <2>1 DEF JobsProofs!Inv, JobsProofs!OpenOrPaid
  <2>3. QED
    BY <2>2 DEF JobsProofs!OpenJobs, OpenSchedules, JobsProofs!ValidRows, ValidRows
<1>2. QED
  BY <1>1, RefinementInvHolds, JobsInvHolds, PTL
=============================================================================

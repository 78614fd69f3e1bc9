------------------------- MODULE PaymentJobs_proofs -------------------------
(***************************************************************************)
(* What every behaviour of PaymentJobs keeps, for any set of requests.     *)
(***************************************************************************)
EXTENDS PaymentJobs, TLAPS

Job == [request: Requests, done: BOOLEAN]
Row == [request: Requests, job: Nat, valid: BOOLEAN, sent: BOOLEAN]

TypeOK == jobs \in Seq(Job) /\ rows \in Seq(Row)

\* A row was paid by a job of its request that is closed.
PaidByClosedJob ==
    \A c \in DOMAIN rows :
        /\ rows[c].job \in DOMAIN jobs
        /\ jobs[rows[c].job].done
        /\ jobs[rows[c].job].request = rows[c].request

PaidOncePerJob ==
    \A c, d \in DOMAIN rows : rows[c].job = rows[d].job => c = d

\* A request that was ever opened is open still, or validly paid.
OpenOrPaid ==
    \A j \in DOMAIN jobs :
        OpenJobs(jobs[j].request) # {} \/ ValidRows(jobs[j].request) # {}

Inv == TypeOK /\ PaidByClosedJob /\ PaidOncePerJob /\ OpenOrPaid

\* What appending a row to a table does.
LEMMA AppendRow ==
    ASSUME NEW S, NEW t \in Seq(S), NEW e \in S
    PROVE  /\ Append(t, e) \in Seq(S)
           /\ DOMAIN Append(t, e) = DOMAIN t \cup {Len(t) + 1}
           /\ Len(t) + 1 \notin DOMAIN t
           /\ \A i \in DOMAIN t : Append(t, e)[i] = t[i]
           /\ Append(t, e)[Len(t) + 1] = e
    OBVIOUS

\* A table whose rows are changed in place is a table.
LEMMA ChangeRows ==
    ASSUME NEW S, NEW t \in Seq(S), NEW f, f \in [DOMAIN t -> S]
    PROVE  f \in Seq(S) /\ DOMAIN f = DOMAIN t
    OBVIOUS

\* What opening a job does to the table of jobs.
LEMMA OpenedJobs ==
    ASSUME TypeOK, NEW r \in Requests, jobs' = Opened(r)
    PROVE  /\ jobs' \in Seq(Job)
           /\ DOMAIN jobs' = DOMAIN jobs \cup {Len(jobs) + 1}
           /\ Len(jobs) + 1 \notin DOMAIN jobs
           /\ \A j \in DOMAIN jobs : jobs'[j] = jobs[j]
           /\ jobs'[Len(jobs) + 1] = [request |-> r, done |-> FALSE]
<1>1. [request |-> r, done |-> FALSE] \in Job
  BY DEF Job
<1>2. QED
  BY <1>1, AppendRow DEF TypeOK, Opened

\* Opening a job keeps the invariant: a request that has jobs has one more.
LEMMA OpenStep ==
    ASSUME Inv, NEW r \in Requests, Open(r)
    PROVE  Inv'
<1>1. /\ jobs' \in Seq(Job)
      /\ DOMAIN jobs' = DOMAIN jobs \cup {Len(jobs) + 1}
      /\ Len(jobs) + 1 \notin DOMAIN jobs
      /\ \A j \in DOMAIN jobs : jobs'[j] = jobs[j]
      /\ jobs'[Len(jobs) + 1] = [request |-> r, done |-> FALSE]
      /\ rows' = rows
  BY OpenedJobs DEF Open, Inv
<1>2. TypeOK' /\ PaidByClosedJob' /\ PaidOncePerJob'
  BY <1>1 DEF Inv, TypeOK, PaidByClosedJob, PaidOncePerJob
<1>3. OpenOrPaid'
  BY <1>1 DEF Inv, OpenOrPaid, OpenJobs, ValidRows
<1>4. QED
  BY <1>2, <1>3 DEF Inv

\* Paying a job keeps the invariant: it was open, so no row names it.
LEMMA PayStep ==
    ASSUME Inv, NEW j \in DOMAIN jobs, Pay(j)
    PROVE  Inv'
<1> DEFINE row == [request |-> jobs[j].request, job |-> j, valid |-> TRUE,
                   sent |-> FALSE]
<1>1. jobs[j] \in Job /\ j \in Nat
  BY DEF Inv, TypeOK
<1>2. jobs' = [jobs EXCEPT ![j].done = TRUE] /\ jobs \in [DOMAIN jobs -> Job]
  BY DEF Pay, Inv, TypeOK
<1>3. jobs' \in [DOMAIN jobs -> Job]
  BY <1>1, <1>2 DEF Job
<1>4. jobs' \in Seq(Job) /\ DOMAIN jobs' = DOMAIN jobs
  BY <1>3, ChangeRows DEF Inv, TypeOK
<1>5. /\ \A i \in DOMAIN jobs : jobs'[i].request = jobs[i].request
      /\ \A i \in DOMAIN jobs \ {j} : jobs'[i].done = jobs[i].done
      /\ jobs'[j].done
  BY <1>1, <1>2 DEF Job
<1>6. row \in Row
  BY <1>1 DEF Job, Row
<1>7. /\ rows' \in Seq(Row)
      /\ DOMAIN rows' = DOMAIN rows \cup {Len(rows) + 1}
      /\ \A c \in DOMAIN rows : rows'[c] = rows[c]
      /\ rows'[Len(rows) + 1] = row
  BY <1>6, AppendRow DEF Pay, Inv, TypeOK
<1>8. ~jobs[j].done
  BY DEF Pay
<1>9. TypeOK'
  BY <1>4, <1>7 DEF TypeOK
<1>10. PaidByClosedJob'
  <2>1. \A c \in DOMAIN rows : /\ rows[c].job \in DOMAIN jobs
                               /\ jobs'[rows[c].job].done
                               /\ jobs'[rows[c].job].request = rows[c].request
    BY <1>5 DEF Inv, PaidByClosedJob
  <2>2. QED
    BY <2>1, <1>4, <1>5, <1>7 DEF PaidByClosedJob
<1>11. PaidOncePerJob'
  BY <1>7, <1>8 DEF Inv, PaidByClosedJob, PaidOncePerJob
<1>12. OpenOrPaid'
  <2> SUFFICES ASSUME NEW i \in DOMAIN jobs', NEW q, q = jobs'[i].request
               PROVE  OpenJobs(q)' # {} \/ ValidRows(q)' # {}
    BY DEF OpenOrPaid, OpenJobs, ValidRows
  <2> i \in DOMAIN jobs /\ q = jobs[i].request
    BY <1>4, <1>5
  <2>1. CASE q = jobs[j].request
    BY <2>1, <1>4, <1>5, <1>7 DEF ValidRows
  <2>2. CASE q # jobs[j].request
    <3>1. OpenJobs(q) \subseteq OpenJobs(q)'
      BY <2>2, <1>4, <1>5 DEF OpenJobs
    <3>2. ValidRows(q) \subseteq ValidRows(q)'
      BY <1>7 DEF ValidRows
    <3>3. QED
      BY <3>1, <3>2 DEF Inv, OpenOrPaid
  <2>3. QED
    BY <2>1, <2>2
<1>13. QED
  BY <1>9, <1>10, <1>11, <1>12 DEF Inv

\* Sending a row changes nothing the invariant speaks of.
LEMMA SendStep ==
    ASSUME Inv, NEW c \in DOMAIN rows, Send(c)
    PROVE  Inv'
<1>1. rows[c] \in Row /\ rows \in [DOMAIN rows -> Row]
  BY DEF Inv, TypeOK
<1>2. rows' \in [DOMAIN rows -> Row]
  BY <1>1 DEF Send, Row
<1>3. rows' \in Seq(Row) /\ DOMAIN rows' = DOMAIN rows
  BY <1>2, ChangeRows DEF Inv, TypeOK
<1>4. \A d \in DOMAIN rows : /\ rows'[d].job = rows[d].job
                             /\ rows'[d].request = rows[d].request
                             /\ rows'[d].valid = rows[d].valid
  BY <1>1 DEF Send, Row
<1>5. jobs' = jobs
  BY DEF Send
<1>6. TypeOK'
  BY <1>3, <1>5 DEF Inv, TypeOK
<1>7. PaidByClosedJob'
  BY <1>3, <1>4, <1>5 DEF Inv, PaidByClosedJob
<1>8. PaidOncePerJob'
  BY <1>3, <1>4 DEF Inv, PaidOncePerJob
<1>9. OpenOrPaid'
  BY <1>3, <1>4, <1>5 DEF Inv, OpenOrPaid, OpenJobs, ValidRows
<1>10. QED
  BY <1>6, <1>7, <1>8, <1>9 DEF Inv

\* Voiding rows of a request keeps the invariant: a job of it is open after it,
\* or another row is valid.
LEMMA VoidStep ==
    ASSUME Inv, NEW r \in Requests, Void(r)
    PROVE  Inv'
<1>1. PICK V \in SUBSET {c \in DOMAIN rows : rows[c].request = r} :
        rows' = [d \in DOMAIN rows |->
                   IF d \in V THEN [rows[d] EXCEPT !.valid = FALSE] ELSE rows[d]]
  BY DEF Void
<1>2. \A d \in DOMAIN rows : rows[d] \in Row /\ [rows[d] EXCEPT !.valid = FALSE] \in Row
  <2>1. \A d \in DOMAIN rows : rows[d] \in Row
    BY DEF Inv, TypeOK
  <2>2. QED
    BY <2>1 DEF Row
<1>3. rows' \in [DOMAIN rows -> Row]
  BY <1>1, <1>2
<1>4. rows' \in Seq(Row) /\ DOMAIN rows' = DOMAIN rows
  BY <1>3, ChangeRows DEF Inv, TypeOK
<1>5. \A d \in DOMAIN rows : /\ rows'[d].job = rows[d].job
                             /\ rows'[d].request = rows[d].request
                             /\ rows[d].request # r => rows'[d].valid = rows[d].valid
  BY <1>1, <1>2 DEF Row
<1>6. /\ jobs' \in Seq(Job)
      /\ DOMAIN jobs \subseteq DOMAIN jobs'
      /\ \A j \in DOMAIN jobs : jobs'[j] = jobs[j]
      /\ \A j \in DOMAIN jobs' : jobs'[j].request = r \/ j \in DOMAIN jobs
  <2>1. jobs' = jobs \/ jobs' = Opened(r)
    BY DEF Void
  <2>2. CASE jobs' = jobs
    BY <2>2 DEF Inv, TypeOK
  <2>3. CASE jobs' = Opened(r)
    <3>1. /\ jobs' \in Seq(Job)
          /\ DOMAIN jobs' = DOMAIN jobs \cup {Len(jobs) + 1}
          /\ \A j \in DOMAIN jobs : jobs'[j] = jobs[j]
          /\ jobs'[Len(jobs) + 1] = [request |-> r, done |-> FALSE]
      BY <2>3, OpenedJobs DEF Inv
    <3>2. QED
      BY <3>1
  <2>4. QED
    BY <2>1, <2>2, <2>3
<1>7. TypeOK'
  BY <1>4, <1>6 DEF TypeOK
<1>8. PaidByClosedJob'
  BY <1>4, <1>5, <1>6 DEF Inv, PaidByClosedJob
<1>9. PaidOncePerJob'
  BY <1>4, <1>5 DEF Inv, PaidOncePerJob
<1>10. OpenOrPaid'
  <2> SUFFICES ASSUME NEW i \in DOMAIN jobs', NEW q, q = jobs'[i].request
               PROVE  OpenJobs(q)' # {} \/ ValidRows(q)' # {}
    BY DEF OpenOrPaid, OpenJobs, ValidRows
  <2>1. CASE q = r
    BY <2>1 DEF Void
  <2>2. CASE q # r
    <3>1. i \in DOMAIN jobs /\ q = jobs[i].request
      BY <2>2, <1>6
    <3>2. OpenJobs(q) \subseteq OpenJobs(q)'
      BY <1>6 DEF OpenJobs
    <3>3. ValidRows(q) \subseteq ValidRows(q)'
      BY <2>2, <1>4, <1>5 DEF ValidRows
    <3>4. QED
      BY <3>1, <3>2, <3>3 DEF Inv, OpenOrPaid
  <2>3. QED
    BY <2>1, <2>2
<1>11. QED
  BY <1>7, <1>8, <1>9, <1>10 DEF Inv

\* Jobs are paid once, and a request that was ever opened is open still or validly
\* paid.
THEOREM InvHolds == Spec => []Inv
<1>1. Init => Inv
  BY DEF Init, Inv, TypeOK, PaidByClosedJob, PaidOncePerJob, OpenOrPaid, OpenJobs
<1>2. Inv /\ [Next]_vars => Inv'
  <2> SUFFICES ASSUME Inv, [Next]_vars
               PROVE  Inv'
    OBVIOUS
  <2>1. CASE Next
    BY <2>1, OpenStep, PayStep, SendStep, VoidStep DEF Next
  <2>2. CASE UNCHANGED vars
    BY <2>2 DEF vars, Inv, TypeOK, PaidByClosedJob, PaidOncePerJob, OpenOrPaid,
                OpenJobs, ValidRows
  <2>3. QED
    BY <2>1, <2>2
<1>3. QED
  BY <1>1, <1>2, PTL DEF Spec
=============================================================================

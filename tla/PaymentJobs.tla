---------------------------- MODULE PaymentJobs ----------------------------
(***************************************************************************)
(* What the schedule table and the table of completed payment requests     *)
(* promise together, without leases, loops, holds, messages or failures:   *)
(* a request is opened as a job, a job is paid once, in the step that      *)
(* closes it, and a request whose payments are voided is open again, or    *)
(* has been paid since.                                                    *)
(***************************************************************************)
EXTENDS Integers, Sequences

CONSTANT Requests

VARIABLES
    jobs,  \* [request, done], by number of the job
    rows   \* [request, job, valid, sent], in the order they were paid

vars == <<jobs, rows>>

OpenJobs(r) == {j \in DOMAIN jobs : jobs[j].request = r /\ ~jobs[j].done}

ValidRows(r) == {c \in DOMAIN rows : rows[c].request = r /\ rows[c].valid}

Opened(r) == Append(jobs, [request |-> r, done |-> FALSE])

Init == jobs = <<>> /\ rows = <<>>

\* A request waits to be paid.
Open(r) == jobs' = Opened(r) /\ UNCHANGED rows

Pay(j) ==
    /\ ~jobs[j].done
    /\ jobs' = [jobs EXCEPT ![j].done = TRUE]
    /\ rows' = Append(rows, [request |-> jobs[j].request, job |-> j,
                             valid |-> TRUE, sent |-> FALSE])

Send(c) ==
    /\ ~rows[c].sent
    /\ rows' = [rows EXCEPT ![c].sent = TRUE]
    /\ UNCHANGED jobs

\* Payments of a request are rejected, one at least after it was sent.  What is
\* paid meanwhile is not voided; without it the request has an open job.
Void(r) ==
    /\ \E V \in SUBSET {c \in DOMAIN rows : rows[c].request = r} :
          /\ \E c \in V : rows[c].sent
          /\ rows' = [c \in DOMAIN rows |->
                        IF c \in V THEN [rows[c] EXCEPT !.valid = FALSE]
                                   ELSE rows[c]]
    /\ jobs' \in {jobs, Opened(r)}
    /\ OpenJobs(r)' # {} \/ ValidRows(r)' # {}

Next ==
    \/ \E r \in Requests : Open(r) \/ Void(r)
    \/ \E j \in DOMAIN jobs : Pay(j)
    \/ \E c \in DOMAIN rows : Send(c)

Spec == Init /\ [][Next]_vars
=============================================================================

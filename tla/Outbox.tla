------------------------------- MODULE Outbox -------------------------------
(***************************************************************************)
(* The outbox of ffc-pay-processing.  Every pod runs a loop that, in one   *)
(* READ COMMITTED transaction, locks rows of the outbox that were not      *)
(* submitted, sends them to DAX in batches of messages, and marks them as  *)
(* submitted.  What has been sent stays sent when the transaction does     *)
(* not commit.                                                             *)
(***************************************************************************)
EXTENDS Integers, FiniteSets

CONSTANTS
    Pods,          \* running instances of the service
    Rows,          \* completed payment requests with an outbox entry
    ProcessingCap, \* processingConfig.processingCap
    BatchSize,     \* messages that fit in a batch of the Service Bus
    MaxFailures    \* bound on failed runs and lost confirmations

ASSUME OutboxAssumption ==
    /\ ProcessingCap \in Nat \ {0}
    /\ BatchSize \in Nat \ {0}
    /\ MaxFailures \in Nat

VARIABLES
    saved,     \* rows whose completion has been committed
    submitted, \* rows marked as submitted
    phase,     \* where the loop of a pod is
    pending,   \* what the query of a pod saw as not submitted
    locked,    \* outbox rows locked by the transaction of a pod
    unsent,    \* locked rows that are in no confirmed batch
    sent,      \* how often the message of a row has been sent
    failures

run == <<phase, pending, locked, unsent>>
vars == <<saved, submitted, run, sent, failures>>

Init ==
    /\ saved = {}
    /\ submitted = {}
    /\ phase = [p \in Pods |-> "idle"]
    /\ pending = [p \in Pods |-> {}]
    /\ locked = [p \in Pods |-> {}]
    /\ unsent = [p \in Pods |-> {}]
    /\ sent = [r \in Rows |-> 0]
    /\ failures = 0

\* A completed payment request is committed together with its outbox entry.
CreateOutboxEntry(r) ==
    /\ r \notin saved
    /\ saved' = saved \cup {r}
    /\ UNCHANGED <<submitted, run, sent, failures>>

\* The query takes its snapshot.
SelectPending(p) ==
    /\ phase[p] = "idle"
    /\ saved \ submitted # {}
    /\ pending' = [pending EXCEPT ![p] = saved \ submitted]
    /\ phase' = [phase EXCEPT ![p] = "selecting"]
    /\ UNCHANGED <<saved, submitted, locked, unsent, sent, failures>>

LockedByOthers(p) == UNION {locked[q] : q \in Pods \ {p}}

\* Mutant: a row changed since the snapshot is not looked at again.
SeenPending(p) == pending[p] \ LockedByOthers(p)

\* Locked rows are skipped; a row that was marked since the snapshot fails the
\* WHERE clause when it is looked at again under its lock.
Lockable(p) == (pending[p] \ LockedByOthers(p)) \ submitted

\* LIMIT counts invoice lines: any number of rows up to the cap may be taken.
LockPending(p) ==
    /\ phase[p] = "selecting"
    /\ \E B \in SUBSET Lockable(p) :
          /\ Cardinality(B) <= ProcessingCap
          /\ Lockable(p) # {} => B # {}
          /\ locked' = [locked EXCEPT ![p] = B]
          /\ unsent' = [unsent EXCEPT ![p] = B]
          /\ phase' = [phase EXCEPT ![p] = IF B = {} THEN "idle" ELSE "sending"]
    /\ pending' = [pending EXCEPT ![p] = {}]
    /\ UNCHANGED <<saved, submitted, sent, failures>>

\* One batch of messages is sent.  When its confirmation is lost the same batch
\* is sent again.
SendMessages(p) ==
    /\ phase[p] = "sending"
    /\ \E B \in SUBSET unsent[p] :
          /\ B # {}
          /\ Cardinality(B) <= BatchSize
          /\ sent' = [r \in Rows |-> sent[r] + (IF r \in B THEN 1 ELSE 0)]
          /\ \/ /\ unsent' = [unsent EXCEPT ![p] = @ \ B]
                /\ UNCHANGED failures
             \/ /\ failures < MaxFailures
                /\ failures' = failures + 1
                /\ UNCHANGED unsent
    /\ UNCHANGED <<saved, submitted, phase, pending, locked>>

\* Mutant: the loop does not start again.
StopLoop(p) ==
    /\ phase' = [phase EXCEPT ![p] = "stopped"]
    /\ pending' = [pending EXCEPT ![p] = {}]
    /\ locked' = [locked EXCEPT ![p] = {}]
    /\ unsent' = [unsent EXCEPT ![p] = {}]

\* The transaction of a pod ends, and with it its locks.
EndTransaction(p) ==
    /\ phase' = [phase EXCEPT ![p] = "idle"]
    /\ pending' = [pending EXCEPT ![p] = {}]
    /\ locked' = [locked EXCEPT ![p] = {}]
    /\ unsent' = [unsent EXCEPT ![p] = {}]

\* Mutant: the rows are marked before the last batch has been sent.
MarkEarly(p) ==
    /\ phase[p] = "sending"
    /\ submitted' = submitted \cup locked[p]
    /\ EndTransaction(p)
    /\ UNCHANGED <<saved, sent, failures>>

\* All batches have been sent: the rows are marked and the transaction commits.
UpdatePending(p) ==
    /\ phase[p] = "sending"
    /\ unsent[p] = {}
    /\ submitted' = submitted \cup locked[p]
    /\ EndTransaction(p)
    /\ UNCHANGED <<saved, sent, failures>>

\* An error or a restart: the transaction is rolled back.
RunFails(p) ==
    /\ phase[p] # "idle"
    /\ failures < MaxFailures
    /\ failures' = failures + 1
    /\ EndTransaction(p)
    /\ UNCHANGED <<saved, submitted, sent>>

Loop(p) ==
    \/ SelectPending(p)
    \/ LockPending(p)
    \/ SendMessages(p)
    \/ UpdatePending(p)

Next ==
    \/ \E r \in Rows : CreateOutboxEntry(r)
    \/ \E p \in Pods : Loop(p) \/ RunFails(p)

Spec == Init /\ [][Next]_vars

\* Every loop starts again after every run.
FairSpec == Spec /\ \A p \in Pods : WF_vars(Loop(p))

-----------------------------------------------------------------------------
(* Properties.                                                             *)

\* Every variable keeps its type.
TypeOK ==
    /\ saved \in SUBSET Rows
    /\ submitted \in SUBSET Rows
    /\ phase \in [Pods -> {"idle", "selecting", "sending"}]
    /\ pending \in [Pods -> SUBSET Rows]
    /\ locked \in [Pods -> SUBSET Rows]
    /\ unsent \in [Pods -> SUBSET Rows]
    /\ sent \in [Rows -> Nat]
    /\ failures \in Nat

\* publishPendingPaymentRequests: no payment is marked as submitted that was
\* never sent, whatever failed between sending and marking.
MarkedWereSent == \A r \in submitted : sent[r] > 0

\* FOR UPDATE SKIP LOCKED: however many pods publish at once, a payment is sent
\* again only because a run failed or a confirmation was lost.
ResentOnlyAfterFailure == \A r \in Rows : sent[r] <= 1 + failures

\* A payment is sent in the end and marked: no failure, and no lock of another
\* pod, leaves it in the outbox for ever.
EventuallySubmitted == \A r \in Rows : (r \in saved) ~> (r \in submitted)
=============================================================================

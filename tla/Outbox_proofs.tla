--------------------------- MODULE Outbox_proofs ---------------------------
(***************************************************************************)
(* Proofs about the outbox, for any pods, rows, caps and failures.  A row  *)
(* is in flight while a pod that locks it has sent it and not committed:   *)
(* that is the one sending no failure accounts for yet.                    *)
(***************************************************************************)
EXTENDS Outbox, TLAPS

InFlight(r) == \E p \in Pods : r \in locked[p] \ unsent[p]

\* A row that is being sent is locked by one pod, and was not marked.
LocksApart ==
    /\ \A p \in Pods : unsent[p] \subseteq locked[p]
    /\ \A p \in Pods : locked[p] \cap submitted = {}
    /\ \A p, q \in Pods : p # q => locked[p] \cap locked[q] = {}
    /\ \A p \in Pods : phase[p] # "sending" => locked[p] = {}

\* What was marked or is in flight has been sent, at most once more than
\* failures explain; anything else, no more often than they do.
SendsCounted ==
    \A r \in Rows :
        IF r \in submitted \/ InFlight(r)
        THEN sent[r] > 0 /\ sent[r] <= 1 + failures
        ELSE sent[r] <= failures

Inv == TypeOK /\ LocksApart /\ SendsCounted

\* The invariant holds initially.
LEMMA InitInv == Init => Inv
  BY OutboxAssumption DEF Init, Inv, TypeOK, LocksApart, SendsCounted, InFlight

\* A new outbox entry changes neither locks nor counts.
LEMMA CreateInv == ASSUME Inv, NEW e \in Rows, CreateOutboxEntry(e) PROVE Inv'
  BY DEF CreateOutboxEntry, run, Inv, TypeOK, LocksApart, SendsCounted, InFlight

\* A snapshot changes neither locks nor counts.
LEMMA SelectInv == ASSUME Inv, NEW p \in Pods, SelectPending(p) PROVE Inv'
<1>1. TypeOK'
  BY DEF SelectPending, Inv, TypeOK
<1>2. LocksApart'
  BY DEF SelectPending, Inv, TypeOK, LocksApart
<1>3. SendsCounted'
  BY DEF SelectPending, Inv, SendsCounted, InFlight
<1>4. QED
  BY <1>1, <1>2, <1>3 DEF Inv

\* A pod locks only rows that nobody else locks and that were not marked, and
\* has sent none of them.
LEMMA LockInv == ASSUME Inv, NEW p \in Pods, LockPending(p) PROVE Inv'
<1>1. PICK B \in SUBSET Lockable(p) :
         /\ locked' = [locked EXCEPT ![p] = B]
         /\ unsent' = [unsent EXCEPT ![p] = B]
         /\ phase' = [phase EXCEPT ![p] = IF B = {} THEN "idle" ELSE "sending"]
  BY DEF LockPending
<1>2. /\ B \subseteq Rows
      /\ B \cap submitted = {}
      /\ \A q \in Pods \ {p} : B \cap locked[q] = {}
  BY DEF Lockable, LockedByOthers, Inv, TypeOK
<1>3. locked[p] = {}
  BY DEF LockPending, Inv, LocksApart
<1>4. TypeOK'
  BY <1>1, <1>2 DEF LockPending, Inv, TypeOK
<1>5. LocksApart'
  <2>1. \A q \in Pods : unsent'[q] \subseteq locked'[q]
    BY <1>1 DEF Inv, TypeOK, LocksApart
  <2>2. \A q \in Pods : locked'[q] \cap submitted' = {}
    BY <1>1, <1>2 DEF LockPending, Inv, TypeOK, LocksApart
  <2>3. \A q, s \in Pods : q # s => locked'[q] \cap locked'[s] = {}
    BY <1>1, <1>2 DEF Inv, TypeOK, LocksApart
  <2>4. \A q \in Pods : phase'[q] # "sending" => locked'[q] = {}
    BY <1>1 DEF Inv, TypeOK, LocksApart
  <2>5. QED
    BY <2>1, <2>2, <2>3, <2>4 DEF LocksApart
<1>6. SendsCounted'
  <2>1. \A r \in Rows : InFlight(r)' <=> InFlight(r)
    BY <1>1, <1>3 DEF InFlight, Inv, TypeOK
  <2>2. QED
    BY <2>1 DEF LockPending, Inv, SendsCounted
<1>7. QED
  BY <1>4, <1>5, <1>6 DEF Inv

\* A batch adds one to rows that were not in flight: they are now, unless the
\* confirmation was lost, which is a failure.
LEMMA SendInv == ASSUME Inv, NEW p \in Pods, SendMessages(p) PROVE Inv'
<1>1. PICK B \in SUBSET unsent[p] :
         /\ sent' = [r \in Rows |-> sent[r] + (IF r \in B THEN 1 ELSE 0)]
         /\ \/ /\ unsent' = [unsent EXCEPT ![p] = @ \ B]
               /\ UNCHANGED failures
            \/ /\ failures' = failures + 1
               /\ UNCHANGED unsent
  BY DEF SendMessages
<1>2. B \subseteq locked[p] /\ B \subseteq Rows
  BY DEF Inv, TypeOK, LocksApart
<1>3. /\ UNCHANGED <<saved, submitted, phase, pending, locked>>
  BY DEF SendMessages
<1>4. TypeOK'
  BY <1>1, <1>2, <1>3 DEF Inv, TypeOK
<1>5. LocksApart'
  BY <1>1, <1>3 DEF Inv, TypeOK, LocksApart
<1>6. \A r \in B : r \notin submitted /\ ~InFlight(r)
  BY <1>2 DEF Inv, TypeOK, LocksApart, InFlight
<1>7. CASE unsent' = [unsent EXCEPT ![p] = @ \ B] /\ UNCHANGED failures
  <2>1. \A r \in Rows : InFlight(r)' <=> (InFlight(r) \/ r \in B)
    BY <1>2, <1>3, <1>7 DEF InFlight, Inv, TypeOK
  <2>2. ASSUME NEW r \in Rows
        PROVE  IF r \in submitted' \/ InFlight(r)'
               THEN sent'[r] > 0 /\ sent'[r] <= 1 + failures'
               ELSE sent'[r] <= failures'
    <3>1. CASE r \in B
      BY <1>1, <1>3, <1>6, <1>7, <2>1, <3>1 DEF Inv, TypeOK, SendsCounted
    <3>2. CASE r \notin B
      BY <1>1, <1>3, <1>7, <2>1, <3>2 DEF Inv, TypeOK, SendsCounted
    <3>3. QED
      BY <3>1, <3>2
  <2>3. QED
    BY <1>4, <1>5, <2>2 DEF Inv, SendsCounted
<1>8. CASE failures' = failures + 1 /\ UNCHANGED unsent
  <2>1. \A r \in Rows : InFlight(r)' <=> InFlight(r)
    BY <1>3, <1>8 DEF InFlight
  <2>2. ASSUME NEW r \in Rows
        PROVE  IF r \in submitted' \/ InFlight(r)'
               THEN sent'[r] > 0 /\ sent'[r] <= 1 + failures'
               ELSE sent'[r] <= failures'
    BY <1>1, <1>3, <1>6, <1>8, <2>1 DEF Inv, TypeOK, SendsCounted
  <2>3. QED
    BY <1>4, <1>5, <2>2 DEF Inv, SendsCounted
<1>9. QED
  BY <1>1, <1>7, <1>8

\* The end of a transaction leaves the locks of the others as they were.
LEMMA EndLocks ==
  ASSUME Inv, NEW p \in Pods, EndTransaction(p),
         submitted' \subseteq submitted \cup locked[p]
  PROVE  /\ LocksApart'
         /\ \A r \in Rows : InFlight(r)' <=>
              \E q \in Pods \ {p} : r \in locked[q] \ unsent[q]
<1>1. \A q \in Pods : /\ locked'[q] = IF q = p THEN {} ELSE locked[q]
                      /\ unsent'[q] = IF q = p THEN {} ELSE unsent[q]
                      /\ phase'[q] = IF q = p THEN "idle" ELSE phase[q]
  BY DEF EndTransaction, Inv, TypeOK
<1>2. LocksApart'
  BY <1>1 DEF Inv, LocksApart
<1>3. \A r \in Rows : InFlight(r)' <=>
        \E q \in Pods \ {p} : r \in locked[q] \ unsent[q]
  BY <1>1 DEF InFlight
<1>4. QED
  BY <1>2, <1>3

\* What is marked was in flight.
LEMMA MarkInv == ASSUME Inv, NEW p \in Pods, UpdatePending(p) PROVE Inv'
<1>1. /\ unsent[p] = {}
      /\ submitted' = submitted \cup locked[p]
      /\ EndTransaction(p)
      /\ UNCHANGED <<saved, sent, failures>>
  BY DEF UpdatePending
<1>2. TypeOK'
  BY <1>1 DEF EndTransaction, Inv, TypeOK
<1>3. LocksApart'
  BY <1>1, EndLocks
<1>4. \A r \in Rows : (r \in submitted' \/ InFlight(r)') <=>
                      (r \in submitted \/ InFlight(r))
  BY <1>1, EndLocks DEF InFlight
<1>5. SendsCounted'
  BY <1>1, <1>4 DEF Inv, SendsCounted
<1>6. QED
  BY <1>2, <1>3, <1>5 DEF Inv

\* A run that fails leaves what it sent to be sent again, and is counted.
LEMMA FailInv == ASSUME Inv, NEW p \in Pods, RunFails(p) PROVE Inv'
<1>1. /\ failures' = failures + 1
      /\ EndTransaction(p)
      /\ UNCHANGED <<saved, submitted, sent>>
  BY DEF RunFails
<1>2. TypeOK'
  BY <1>1 DEF EndTransaction, Inv, TypeOK
<1>3. LocksApart'
  BY <1>1, EndLocks
<1>4. \A r \in Rows : InFlight(r)' => InFlight(r)
  BY <1>1, EndLocks DEF InFlight
<1>5. SendsCounted'
  BY <1>1, <1>4 DEF Inv, TypeOK, SendsCounted
<1>6. QED
  BY <1>2, <1>3, <1>5 DEF Inv

\* The invariant is inductive.
LEMMA NextInv == Inv /\ [Next]_vars => Inv'
<1>1. SUFFICES ASSUME Inv, [Next]_vars PROVE Inv'
  OBVIOUS
<1>2. CASE UNCHANGED vars
  BY <1>1, <1>2 DEF vars, run, Inv, TypeOK, LocksApart, SendsCounted, InFlight
<1>3. CASE \E r \in Rows : CreateOutboxEntry(r)
  BY <1>1, <1>3, CreateInv
<1>4. CASE \E p \in Pods : Loop(p) \/ RunFails(p)
  BY <1>1, <1>4, SelectInv, LockInv, SendInv, MarkInv, FailInv DEF Loop
<1>5. QED
  BY <1>1, <1>2, <1>3, <1>4 DEF Next

\* The invariant holds in every behaviour.
LEMMA InvHolds == Spec => []Inv
<1>1. QED
  BY InitInv, NextInv, PTL DEF Spec

\* Every variable keeps its type.
THEOREM TypeCorrect == Spec => []TypeOK
<1>1. Inv => TypeOK
  BY DEF Inv
<1>2. QED
  BY <1>1, InvHolds, PTL

\* updatePendingPaymentRequests comes after sendBatchMessages: nothing is marked
\* as submitted that was never sent.
THEOREM NothingMarkedUnsent == Spec => []MarkedWereSent
<1>1. Inv => MarkedWereSent
  BY DEF Inv, TypeOK, SendsCounted, MarkedWereSent
<1>2. QED
  BY <1>1, InvHolds, PTL

\* FOR UPDATE SKIP LOCKED: two pods send a payment twice only when a run failed
\* or a confirmation was lost.
THEOREM SentOnceButForFailures == Spec => []ResentOnlyAfterFailure
<1>1. Inv => ResentOnlyAfterFailure
  BY DEF Inv, TypeOK, SendsCounted, ResentOnlyAfterFailure
<1>2. QED
  BY <1>1, InvHolds, PTL
=============================================================================

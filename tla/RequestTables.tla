--------------------------- MODULE RequestTables ---------------------------
(***************************************************************************)
(* The tables of one payment request and the handlers that write to them   *)
(* at once, one SQL statement at a time: the intake, the reset over HTTP,  *)
(* the rejection by DAX, the reply of the cross border engine and the      *)
(* removal of an agreement past its retention period.  A statement of a    *)
(* transaction sees what was committed before it started (READ COMMITTED), *)
(* waits for rows that another transaction has written, and fails on the   *)
(* unique index or a foreign key.  The payment calculation itself is       *)
(* Processing's subject and is one step here.                              *)
(***************************************************************************)
EXTENDS Naturals, FiniteSets, SequencesExt

CONSTANTS
    Payments,     \* deliveries of the one invoice
    Resets,       \* POST /payment-request/reset
    Rejections,   \* acknowledgements without success
    Replies,      \* messages of the cross border engine
    Retentions,   \* retention messages
    MaxTasks,     \* bound on the handlers of one behaviour
    MaxOutages    \* bound on calls that fail for reasons of their own

\* A handler is of one kind.
ASSUME TablesAssumption ==
    /\ Payments \cap (Resets \cup Rejections \cup Replies \cup Retentions) = {}
    /\ Resets \cap (Rejections \cup Replies \cup Retentions) = {}
    /\ Rejections \cap (Replies \cup Retentions) = {}
    /\ Replies \cap Retentions = {}
    /\ MaxTasks \in Nat /\ MaxOutages \in Nat

Tasks == Payments \cup Resets \cup Rejections \cup Replies \cup Retentions

None == "none"

VARIABLES
    db,        \* the committed rows
    lastId,    \* the last paymentRequestId that was committed
    put,       \* rows a transaction has written and not committed
    cut,       \* committed rows it has replaced or deleted
    crossBorder, \* the invoice has a line for cross border
    at,        \* where a handler is in its program; 0 before it starts
    found,     \* what it has read
    xbHold,    \* the cross border hold: "none", "open" or "closed"
    sent,      \* messages to the cross border engine
    routing,   \* a message was sent and its hold is not saved yet
    raced,     \* retentions during which another handler wrote
    outages,   \* outages so far
    halfReset  \* resets that failed after they had started to write

tablesVars == <<db, lastId, put, cut, crossBorder, at, found, xbHold, sent, routing, raced, outages,
                halfReset>>

-----------------------------------------------------------------------------
(* Rows.  A request has a number, any other row is named after the task     *)
(* that inserted it.                                                       *)

Request(id, ref) == [table |-> "paymentRequests", id |-> id, ref |-> ref]
InvoiceLine(id, t, xb) ==
    [table |-> "invoiceLines", request |-> id, by |-> t, xb |-> xb,
     invalid |-> FALSE]
Schedule(id, t) ==
    [table |-> "schedule", request |-> id, by |-> t, done |-> FALSE]
Completed(id, s) ==
    [table |-> "completedPaymentRequests", request |-> id, id |-> <<id, s>>,
     acknowledged |-> FALSE, invalid |-> FALSE]
Outbox(id, s) == [table |-> "outbox", completed |-> <<id, s>>]
Closure == [table |-> "frnAgreementClosed"]
Hold == [table |-> "holds"]

In(table, rows) == {r \in rows : r.table = table}
Of(table, ids, rows) == {r \in In(table, rows) : r.request \in ids}
Ids(rows) == {r.id : r \in rows}

\* What a statement of t sees.
View(t) == (db \ cut[t]) \cup put[t]

\* The rows that refer to a row by a foreign key.
Refers(c, p) ==
    \/ /\ p.table = "paymentRequests"
       /\ c.table \in {"invoiceLines", "schedule", "completedPaymentRequests"}
       /\ c.request = p.id
    \/ /\ p.table = "completedPaymentRequests"
       /\ c.table = "outbox"
       /\ c.completed = p.id

\* Rows whose place no new row takes.
Gone(out, in) ==
    {r \in out : "id" \in DOMAIN r /\ r.id \notin Ids(In(r.table, in))}

-----------------------------------------------------------------------------
(* The programs: the statements of each handler in their order.            *)

EnsureScheduled == <<"findSchedule", "schedule">>

\* Mutant: the schedule is made before the old payment is voided.
ScheduleFirst == <<"newReference">> \o EnsureScheduled \o <<"invalidate">>

ResetPaymentRequestById ==
    <<"newReference", "invalidate">> \o EnsureScheduled

SavePaymentRequest ==
    <<"findExisting", "insertRequest", "saveLines", "insertSchedule",
      "commit", "complete">>

ResetPaymentRequestByInvoiceNumber ==
    <<"findRequest", "findCompleted">> \o ResetPaymentRequestById \o <<"end">>

ProcessInvalid ==
    <<"acknowledge", "findRejected">> \o ResetPaymentRequestById \o <<"findHold", "addHold">>
        \o EnsureScheduled \o <<"commit", "complete">>

UpdateRequestsAwaitingCrossBorder ==
    <<"findRequest", "updateRequest", "invalidateLines", "saveLines",
      "removeAutoHold", "commit", "complete">>

\* Mutant: the requests go before the rows that refer to them.
RequestsFirst ==
    <<"removeClosure", "findRequests", "findCompleteds", "removeOutbox",
      "removeCompleted", "removeRequests", "removeSchedules", "removeLines",
      "commit", "complete">>

RemoveAgreementData ==
    <<"removeClosure", "findRequests", "findCompleteds", "removeOutbox",
      "removeCompleted", "removeSchedules", "removeLines", "removeRequests",
      "commit", "complete">>

Program(t) ==
    CASE t \in Payments -> SavePaymentRequest
      [] t \in Resets -> ResetPaymentRequestByInvoiceNumber
      [] t \in Rejections -> ProcessInvalid
      [] t \in Replies -> UpdateRequestsAwaitingCrossBorder
      [] t \in Retentions -> RemoveAgreementData

Absent == 100   \* a task that never arrives
Failed == 101   \* answered with an error, or dead-lettered

Running(t) == at[t] \in DOMAIN Program(t)
Step(t) == IF Running(t) THEN Program(t)[at[t]] ELSE "none"
Finished(t) == at[t] > Len(Program(t)) /\ at[t] < Absent
PlaceOf(t, s) == CHOOSE i \in DOMAIN Program(t) : Program(t)[i] = s

\* Mutant: the transaction is not handed on to the statements on the lines.
SomeStatements(t) ==
    /\ t \notin Resets /\ Step(t) # "acknowledge"
    /\ t \in Replies => Step(t) \notin {"invalidateLines", "saveLines"}

\* Mutant: the rejection hands on no transaction.
NoneForRejections(t) == t \notin Resets \cup Rejections

\* The reset over HTTP hands on no transaction, and an acknowledgement is noted
\* before there is one.
InTransaction(t) == t \notin Resets /\ Step(t) # "acknowledge"

-----------------------------------------------------------------------------
(* The rows a statement replaces or deletes, and the rows it writes.       *)

RequestRows(t) ==
    {r \in In("paymentRequests", View(t)) : r.id \in found[t].requests}

\* The schedule that was found, if no one has completed it since.
AbandonSchedule(t) == found[t].schedule \cap View(t)

Cut(t) ==
    LET ids == found[t].requests
        seen == View(t)
    IN  CASE Step(t) \in {"newReference", "updateRequest", "removeRequests"} ->
                RequestRows(t)
          [] Step(t) \in {"invalidateLines", "removeLines"} ->
                Of("invoiceLines", ids, seen)
          [] Step(t) = "invalidate" -> Of("completedPaymentRequests", ids, seen)
          [] Step(t) = "acknowledge" -> In("completedPaymentRequests", seen)
          [] Step(t) = "removeCompleted" ->
                {r \in In("completedPaymentRequests", seen) :
                    r.id \in found[t].completed}
          [] Step(t) = "removeOutbox" ->
                {r \in In("outbox", seen) : r.completed \in found[t].completed}
          [] Step(t) = "removeSchedules" -> Of("schedule", ids, seen)
          [] Step(t) = "removeClosure" -> In("frnAgreementClosed", seen)
          [] Step(t) = "schedule" -> AbandonSchedule(t)
          [] OTHER -> {}

Put(t) ==
    CASE Step(t) = "insertRequest" -> {Request(lastId + 1, t)}
      [] Step(t) = "saveLines" ->
            {InvoiceLine(id, t, crossBorder /\ t \in Payments) :
                id \in IF t \in Payments THEN {lastId + 1}
                       ELSE found[t].requests}
      [] Step(t) = "insertSchedule" -> {Schedule(lastId + 1, t)}
      [] Step(t) = "schedule" ->
            IF found[t].schedule = {}
            THEN {Schedule(id, t) : id \in found[t].requests} ELSE Cut(t)
      [] Step(t) = "addHold" /\ ~found[t].held -> {Hold}
      [] Step(t) = "newReference" -> {[r EXCEPT !.ref = t] : r \in Cut(t)}
      [] Step(t) = "acknowledge" ->
            {[r EXCEPT !.acknowledged = TRUE] : r \in Cut(t)}
      [] Step(t) \in {"invalidate", "invalidateLines"} ->
            {[r EXCEPT !.invalid = TRUE] : r \in Cut(t)}
      [] Step(t) = "updateRequest" -> Cut(t)
      [] OTHER -> {}

Inserts(t) == Step(t) = "insertRequest"

\* The transactions whose end a statement of t waits for: they have written a
\* row it replaces, a row that one it writes refers to or that refers to one it
\* deletes, or the invoice number it inserts.
Blockers(t) ==
    {u \in Tasks \ {t} :
        \/ cut[u] \cap Cut(t) # {}
        \/ \E c \in Put(t), p \in Gone(cut[u], put[u]) : Refers(c, p)
        \/ \E c \in put[u], p \in Gone(Cut(t), Put(t)) : Refers(c, p)
        \/ Inserts(t) /\ In("paymentRequests", cut[u] \cup put[u]) # {}}

\* Mutant: the table has no unique index on the invoice number.
AnyInvoiceNumber(t) == FALSE

\* The unique index on the invoice number.
InvoiceNumberTaken(t) == Inserts(t) /\ In("paymentRequests", View(t)) # {}

\* The foreign keys.
BreaksReference(t) ==
    \/ \E c \in Put(t) :
          /\ c.table \in {"invoiceLines", "schedule"}
          /\ \A p \in View(t) : ~Refers(c, p)
    \/ \E p \in Gone(Cut(t), Put(t)), c \in View(t) : Refers(c, p)

-----------------------------------------------------------------------------
(* The steps of a handler.                                                 *)

Touch(t) == raced' = raced \cup {r \in Retentions \ {t} : Running(r)}

MoveTo(t, i) == at' = [at EXCEPT ![t] = i]
Continue(t) == MoveTo(t, at[t] + 1)

Arrives(t) ==
    /\ t \in Rejections => In("completedPaymentRequests", db) # {}
    /\ t \in Replies => sent > Cardinality({r \in Replies : at[r] \in 1..99})

Start(t) ==
    /\ at[t] = 0
    /\ Arrives(t)
    /\ MoveTo(t, 1)
    /\ found' = [found EXCEPT ![t] =
                    [requests |-> {}, completed |-> {}, schedule |-> {},
                     held |-> FALSE]]
    /\ UNCHANGED <<db, lastId, put, cut, crossBorder, xbHold, sent, routing, raced,
                   outages, halfReset>>

\* An error rolls back the transaction.  A payment or an acknowledgement is
\* left on its queue, a reply counts as handled, a retention message is
\* dead-lettered and a reset is answered with an error.
RollBack(t) ==
    /\ put' = [put EXCEPT ![t] = {}]
    /\ cut' = [cut EXCEPT ![t] = {}]
    /\ MoveTo(t, CASE t \in Payments \cup Rejections -> 0
                   [] t \in Replies ->
                        IF Step(t) = "complete" THEN 0
                        ELSE PlaceOf(t, "complete")
                   [] OTHER -> Failed)
    /\ halfReset' = IF t \in Resets /\ at[t] > PlaceOf(t, "newReference")
                    THEN halfReset \cup {t}
                    ELSE halfReset
    /\ UNCHANGED <<db, lastId, crossBorder, found, xbHold, sent, routing>>

\* A look-up of t finds f and the handler goes on at place i.
Finds(t, f, i) ==
    /\ found' = [found EXCEPT ![t] = f]
    /\ MoveTo(t, i)
    /\ UNCHANGED <<db, lastId, put, cut, crossBorder, xbHold, sent, routing, raced,
                   outages, halfReset>>

LookUp(t) ==
    LET ids == Ids(In("paymentRequests", View(t)))
        done == In("completedPaymentRequests", View(t))
        f == found[t]
        next == at[t] + 1
    IN  \/ /\ Step(t) = "findExisting"
           /\ Finds(t, f, IF ids = {} THEN next ELSE PlaceOf(t, "commit"))
        \/ /\ Step(t) = "findRequest"
           /\ ids # {}
           /\ Finds(t, [f EXCEPT !.requests = ids], next)
        \/ /\ Step(t) = "findRequests"
           /\ Finds(t, [f EXCEPT !.requests = ids],
                    IF ids = {} THEN PlaceOf(t, "commit") ELSE next)
        \/ /\ Step(t) = "findCompleted"
           /\ \E c \in done : c.request \in f.requests /\ ~c.invalid
           /\ Finds(t, f, next)
        \/ /\ Step(t) = "findRejected"
           /\ IF done = {} THEN Finds(t, f, PlaceOf(t, "complete"))
              ELSE \E c \in done :
                      Finds(t, [f EXCEPT !.requests = {c.request}], next)
        \/ /\ Step(t) = "findCompleteds"
           /\ Finds(t, [f EXCEPT !.completed =
                          Ids({c \in done : c.request \in f.requests})], next)
        \/ /\ Step(t) = "findHold"
           /\ Finds(t, [f EXCEPT !.held = Hold \in View(t)], next)
        \/ /\ Step(t) = "findSchedule"
           /\ LET open == {s \in Of("schedule", f.requests, View(t)) : ~s.done}
              IN  IF open = {} THEN Finds(t, [f EXCEPT !.schedule = {}], next)
                  ELSE \E s \in open : Finds(t, [f EXCEPT !.schedule = {s}], next)

\* The request or its completed row is not there.
NotFound(t) ==
    /\ \/ Step(t) = "findRequest" /\ In("paymentRequests", View(t)) = {}
       \/ /\ Step(t) = "findCompleted"
          /\ \A c \in In("completedPaymentRequests", View(t)) :
                c.request \in found[t].requests => c.invalid
    /\ RollBack(t)
    /\ UNCHANGED <<raced, outages>>

Lookups == {"findExisting", "findRequest", "findRequests", "findCompleted",
            "findRejected", "findCompleteds", "findHold", "findSchedule"}
Writes(t) ==
    Running(t) /\ Step(t) \notin Lookups \cup {"removeAutoHold", "commit",
                                               "complete", "end"}

Write(t) ==
    /\ Writes(t)
    /\ Blockers(t) = {}
    /\ ~InvoiceNumberTaken(t) /\ ~BreaksReference(t)
    /\ IF InTransaction(t)
       THEN /\ cut' = [cut EXCEPT ![t] = @ \cup (Cut(t) \cap db)]
            /\ put' = [put EXCEPT ![t] = (@ \ Cut(t)) \cup Put(t)]
            /\ UNCHANGED db
       ELSE /\ db' = (db \ Cut(t)) \cup Put(t)
            /\ UNCHANGED <<put, cut>>
    /\ Continue(t)
    /\ Touch(t)
    /\ UNCHANGED <<lastId, crossBorder, found, xbHold, sent, routing, outages,
                   halfReset>>

WriteFails(t) ==
    /\ Writes(t)
    /\ Blockers(t) = {}
    /\ InvoiceNumberTaken(t) \/ BreaksReference(t)
    /\ RollBack(t)
    /\ UNCHANGED <<raced, outages>>

\* Transactions that wait for each other: the database ends one of them.
Deadlock(t) ==
    /\ Writes(t)
    /\ \E u \in Blockers(t) :
          \/ t \in Blockers(u)
          \/ \E w \in Blockers(u) : t \in Blockers(w)
    /\ RollBack(t)
    /\ raced' = raced \cup ({t} \cap Retentions)
    /\ UNCHANGED outages

\* The hold is closed outside the transaction.
RemoveAutoHold(t) ==
    /\ Step(t) = "removeAutoHold"
    /\ xbHold' = IF xbHold = "open" THEN "closed" ELSE xbHold
    /\ Continue(t)
    /\ UNCHANGED <<db, lastId, put, cut, crossBorder, found, sent, routing, raced,
                   outages, halfReset>>

Commit(t) ==
    /\ Step(t) = "commit"
    /\ db' = View(t)
    /\ lastId' = Max(Ids(In("paymentRequests", put[t])) \cup {lastId})
    /\ put' = [put EXCEPT ![t] = {}]
    /\ cut' = [cut EXCEPT ![t] = {}]
    /\ Continue(t)
    /\ Touch(t)
    /\ UNCHANGED <<crossBorder, found, xbHold, sent, routing, outages, halfReset>>

Complete(t) ==
    /\ Step(t) \in {"complete", "end"}
    /\ Continue(t)
    /\ UNCHANGED <<db, lastId, put, cut, crossBorder, found, xbHold, sent, routing,
                   raced, outages, halfReset>>

Outage(t) ==
    /\ Running(t)
    /\ outages < MaxOutages
    /\ outages' = outages + 1
    /\ RollBack(t)
    /\ UNCHANGED raced

-----------------------------------------------------------------------------
(* The pod that works off the schedule.                                    *)

Locked(r) == \E t \in Tasks : r \in cut[t]
Processable(s) ==
    /\ ~s.done /\ ~Locked(s)
    /\ xbHold # "open" /\ Hold \notin db
    /\ ~routing
    /\ \E p \in db : Refers(s, p)
    /\ \A t \in Tasks : \A p \in Gone(cut[t], put[t]) : ~Refers(s, p)

IsCrossBorder(s) ==
    \E l \in Of("invoiceLines", {s.request}, db) : l.xb /\ ~l.invalid

ProcessPaymentRequest ==
    \E s \in In("schedule", db) :
        /\ Processable(s) /\ ~IsCrossBorder(s)
        /\ db' = (db \ {s}) \cup
                 {[s EXCEPT !.done = TRUE], Completed(s.request, s.by),
                  Outbox(s.request, s.by)}
        /\ raced' = raced \cup {r \in Retentions : Running(r)}
        /\ UNCHANGED <<lastId, put, cut, crossBorder, at, found, xbHold, sent, routing,
                       outages, halfReset>>

SendToCrossBorder ==
    /\ \E s \in In("schedule", db) : Processable(s) /\ IsCrossBorder(s)
    /\ sent <= Cardinality(Replies)
    /\ sent' = sent + 1
    /\ routing' = TRUE
    /\ UNCHANGED <<db, lastId, put, cut, crossBorder, at, found, xbHold, raced, outages,
                   halfReset>>

\* No hold is saved if the request was removed meanwhile.
HoldForCrossBorder ==
    /\ routing
    /\ \A s \in In("schedule", db) : ~Locked(s)
    /\ xbHold' = IF In("paymentRequests", db) = {} THEN xbHold ELSE "open"
    /\ routing' = FALSE
    /\ UNCHANGED <<db, lastId, put, cut, crossBorder, at, found, sent, raced, outages,
                   halfReset>>

-----------------------------------------------------------------------------

TablesInit ==
    /\ db = {Closure}
    /\ put = [t \in Tasks |-> {}]
    /\ cut = [t \in Tasks |-> {}]
    /\ lastId = 0
    /\ found = [t \in Tasks |-> [requests |-> {}, completed |-> {},
                                 schedule |-> {}, held |-> FALSE]]
    /\ at \in {[t \in Tasks |-> IF t \in arrivals THEN 0 ELSE Absent] :
                  arrivals \in {a \in SUBSET Tasks : Cardinality(a) <= MaxTasks}}
    /\ crossBorder \in BOOLEAN
    /\ crossBorder => \E t \in Replies : at[t] = 0
    /\ xbHold = "none"
    /\ sent = 0
    /\ routing = FALSE
    /\ raced = {}
    /\ outages = 0
    /\ halfReset = {}

Handle(t) ==
    \/ Start(t) \/ LookUp(t) \/ NotFound(t) \/ Write(t) \/ WriteFails(t)
    \/ Deadlock(t) \/ RemoveAutoHold(t) \/ Commit(t) \/ Complete(t) \/ Outage(t)

TablesNext ==
    \/ \E t \in Tasks : Handle(t)
    \/ ProcessPaymentRequest
    \/ SendToCrossBorder
    \/ HoldForCrossBorder

-----------------------------------------------------------------------------

TablesTypeOK ==
    /\ \A r \in db : r.table \in {"paymentRequests", "invoiceLines", "schedule",
                                  "completedPaymentRequests", "outbox",
                                  "frnAgreementClosed", "holds"}
    /\ \A t \in Tasks :
          /\ at[t] \in 0..(Len(Program(t)) + 1) \cup {Absent, Failed}
          /\ cut[t] \subseteq db
          /\ ~Running(t) => put[t] = {} /\ cut[t] = {}
          /\ found[t].requests \subseteq 1..lastId
    /\ lastId \in 0..(1 + Cardinality(Retentions))
    /\ xbHold \in {"none", "open", "closed"}
    /\ sent \in 0..(Cardinality(Replies) + 1)
    /\ {routing, crossBorder} \subseteq BOOLEAN
    /\ raced \subseteq Retentions
    /\ outages \in 0..MaxOutages
    /\ halfReset \subseteq Resets

\* Retention has committed: the closure of the agreement went with the rest.
AgreementRemoved == Closure \notin db

\* However many deliveries of an invoice are taken in at once, and whichever of
\* them fails: as soon as one of them is off its queue there is one request for
\* the invoice, complete with its lines and with a schedule, until retention
\* removes it (savePaymentRequest).
AcceptedIsSaved ==
    ((\E t \in Payments : Finished(t)) /\ ~AgreementRemoved) =>
        /\ Cardinality(In("paymentRequests", db)) = 1
        /\ \A q \in In("paymentRequests", db) :
              /\ Of("schedule", {q.id}, db) # {}
              /\ Of("invoiceLines", {q.id}, db) # {}

\* A payment that a rejection has reset is on hold: no one sees it scheduled
\* again, or its old row void, without the hold that keeps it from being sent
\* to DAX as it was (processInvalid).
RejectedIsHeld ==
    \A q \in In("paymentRequests", db) : q.ref \in Rejections => Hold \in db

\* However many replies of the cross border engine are applied at once: the
\* lines of a request that count are those of one reply, or those it came in
\* with, never a mixture and never none (updateRequestsAwaitingCrossBorder).
LinesOfOneReply ==
    \A q \in In("paymentRequests", db) :
        Cardinality({l.by : l \in {x \in Of("invoiceLines", {q.id}, db) :
                                       ~x.invalid}}) = 1

\* A reset that was not cut short, over HTTP or by a rejection, never leaves a
\* request whose payment is void without a schedule to pay it again, even if
\* the schedule it found is completed before it is abandoned
\* (resetPaymentRequestById, ensureScheduled).
VoidedIsRescheduled ==
    ((\A t \in Tasks : ~Running(t)) /\ halfReset = {}) =>
        \A q \in In("paymentRequests", db) :
            \/ \E s \in Of("schedule", {q.id}, db) : ~s.done
            \/ \E c \in Of("completedPaymentRequests", {q.id}, db) : ~c.invalid

\* The order in which the data of an agreement is removed respects every
\* foreign key: a retention message is dead-lettered only because another
\* handler wrote to the agreement meanwhile or a call failed
\* (removeAgreementData).
RetentionFailsOnlyIfRaced ==
    \A r \in Retentions : at[r] = Failed => r \in raced \/ outages > 0
=============================================================================

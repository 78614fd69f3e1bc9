------------------------ MODULE RequestTables_proofs ------------------------
(***************************************************************************)
(* Lemmas about RequestTables, for any number of deliveries, resets,       *)
(* rejections, replies, retention messages and outages.  Invariants, each  *)
(* kept by a step that keeps those before it: the rows have their types    *)
(* and numbers; a row is replaced by one transaction at a time; a          *)
(* rejection has its hold; a removal leaves nothing that refers to what it *)
(* deletes; there is one request at the most; its lines are of one         *)
(* handler; it has a schedule; a schedule and its completed row are of one *)
(* handler; the request is scheduled or paid; and, for the types of the    *)
(* tables, a handler that rests holds no row, what was found has a number  *)
(* and there is no request more than one and those that were removed.      *)
(***************************************************************************)
EXTENDS RequestTables, FiniteSetTheorems, TLAPS

-----------------------------------------------------------------------------
(* The statements of each handler, by their place in its program.          *)

SqlStatements ==
    {"acknowledge", "findRequest", "findCompleted", "findRejected", "newReference",
     "invalidate", "findSchedule", "schedule", "findHold", "addHold", "commit", "complete",
     "end"}

\* A list in two parts.
LEMMA Joined ==
    ASSUME NEW a \in Seq(SqlStatements), NEW b \in Seq(SqlStatements), NEW c \in Seq(SqlStatements),
           Len(c) = Len(a) + Len(b),
           \A i \in 1..Len(a) : c[i] = a[i],
           \A i \in 1..Len(b) : c[Len(a) + i] = b[i]
    PROVE  a \o b = c
<1>1. Len(a \o b) = Len(c) /\ a \o b \in Seq(SqlStatements)
  OBVIOUS
<1>2. ASSUME NEW i \in 1..Len(c)
      PROVE  (a \o b)[i] = c[i]
  <2>1. CASE i <= Len(a)
    BY <2>1
  <2>2. CASE i > Len(a)
    <3>1. i - Len(a) \in 1..Len(b) /\ i = Len(a) + (i - Len(a))
      BY <2>2
    <3>2. QED
      BY <2>2, <3>1
  <2>3. QED
    BY <2>1, <2>2
<1>3. QED
  BY <1>1, <1>2

\* What each handler does, statement by statement.
LEMMA Programs ==
    /\ \A t \in Payments : Program(t) =
         <<"findExisting", "insertRequest", "saveLines", "insertSchedule", "commit",
           "complete">>
    /\ \A t \in Resets : Program(t) =
         <<"findRequest", "findCompleted", "newReference", "invalidate", "findSchedule",
           "schedule", "end">>
    /\ \A t \in Rejections : Program(t) =
         <<"acknowledge", "findRejected", "newReference", "invalidate", "findSchedule",
           "schedule", "findHold", "addHold", "findSchedule", "schedule", "commit",
           "complete">>
    /\ \A t \in Replies : Program(t) = UpdateRequestsAwaitingCrossBorder
    /\ \A t \in Retentions : Program(t) = RemoveAgreementData
<1>1. \A t \in Payments : Program(t) = SavePaymentRequest
  BY TablesAssumption DEF Program, TablesAssumption
<1>2. \A t \in Resets : Program(t) = ResetPaymentRequestByInvoiceNumber
  BY TablesAssumption DEF Program, TablesAssumption
<1>3. \A t \in Rejections : Program(t) = ProcessInvalid
  BY TablesAssumption DEF Program, TablesAssumption
<1>4. \A t \in Replies : Program(t) = UpdateRequestsAwaitingCrossBorder
  BY TablesAssumption DEF Program, TablesAssumption
<1>5. \A t \in Retentions : Program(t) = RemoveAgreementData
  BY TablesAssumption DEF Program, TablesAssumption
<1>6. EnsureScheduled = <<"findSchedule", "schedule">>
  BY DEF EnsureScheduled
<1>7. ResetPaymentRequestById = <<"newReference", "invalidate", "findSchedule", "schedule">>
  <2> DEFINE a == <<"newReference", "invalidate">>
             c == <<"newReference", "invalidate", "findSchedule", "schedule">>
  <2>1. a \in Seq(SqlStatements) /\ EnsureScheduled \in Seq(SqlStatements) /\ c \in Seq(SqlStatements)
    BY <1>6 DEF SqlStatements
  <2>2. Len(c) = Len(a) + Len(EnsureScheduled)
    BY <1>6
  <2>3. \A i \in 1..Len(a) : c[i] = a[i]
    OBVIOUS
  <2>4. \A i \in 1..Len(EnsureScheduled) : c[Len(a) + i] = EnsureScheduled[i]
    BY <1>6
  <2> HIDE DEF a, c
  <2>5. a \o EnsureScheduled = c
    BY <2>1, <2>2, <2>3, <2>4, Joined
  <2>6. QED
    BY <2>5 DEF ResetPaymentRequestById, a, c
<1>8. ResetPaymentRequestByInvoiceNumber =
         <<"findRequest", "findCompleted", "newReference", "invalidate", "findSchedule",
           "schedule", "end">>
  <2> DEFINE a == <<"findRequest", "findCompleted">>
             b == <<"newReference", "invalidate", "findSchedule", "schedule">>
             ab == <<"findRequest", "findCompleted", "newReference", "invalidate",
                     "findSchedule", "schedule">>
             c == <<"end">>
             abc == <<"findRequest", "findCompleted", "newReference", "invalidate",
                      "findSchedule", "schedule", "end">>
  <2>1. /\ a \in Seq(SqlStatements) /\ b \in Seq(SqlStatements) /\ ab \in Seq(SqlStatements)
        /\ c \in Seq(SqlStatements) /\ abc \in Seq(SqlStatements)
    BY DEF SqlStatements
  <2>2. /\ Len(ab) = Len(a) + Len(b) /\ \A i \in 1..Len(a) : ab[i] = a[i]
        /\ \A i \in 1..Len(b) : ab[Len(a) + i] = b[i]
    OBVIOUS
  <2>3. /\ Len(abc) = Len(ab) + Len(c) /\ \A i \in 1..Len(ab) : abc[i] = ab[i]
        /\ \A i \in 1..Len(c) : abc[Len(ab) + i] = c[i]
    OBVIOUS
  <2>4. ResetPaymentRequestByInvoiceNumber = (a \o b) \o c
    BY <1>7 DEF ResetPaymentRequestByInvoiceNumber
  <2> HIDE DEF a, b, ab, c, abc
  <2>5. a \o b = ab
    BY <2>1, <2>2, Joined
  <2>6. ab \o c = abc
    BY <2>1, <2>3, Joined
  <2>7. QED
    BY <2>4, <2>5, <2>6 DEF abc
<1>9. ProcessInvalid =
         <<"acknowledge", "findRejected", "newReference", "invalidate", "findSchedule",
           "schedule", "findHold", "addHold", "findSchedule", "schedule", "commit",
           "complete">>
  <2> DEFINE a == <<"acknowledge", "findRejected">>
             b == <<"newReference", "invalidate", "findSchedule", "schedule">>
             c == <<"findHold", "addHold">>
             d == <<"findSchedule", "schedule">>
             e == <<"commit", "complete">>
             ab == <<"acknowledge", "findRejected", "newReference", "invalidate",
                     "findSchedule", "schedule">>
             abc == <<"acknowledge", "findRejected", "newReference", "invalidate",
                      "findSchedule", "schedule", "findHold", "addHold">>
             abcd == <<"acknowledge", "findRejected", "newReference", "invalidate",
                       "findSchedule", "schedule", "findHold", "addHold", "findSchedule",
                       "schedule">>
             abcde == <<"acknowledge", "findRejected", "newReference", "invalidate",
                        "findSchedule", "schedule", "findHold", "addHold", "findSchedule",
                        "schedule", "commit", "complete">>
  <2>1. /\ a \in Seq(SqlStatements) /\ b \in Seq(SqlStatements) /\ c \in Seq(SqlStatements)
        /\ d \in Seq(SqlStatements) /\ e \in Seq(SqlStatements) /\ ab \in Seq(SqlStatements)
        /\ abc \in Seq(SqlStatements) /\ abcd \in Seq(SqlStatements)
        /\ abcde \in Seq(SqlStatements)
    BY DEF SqlStatements
  <2>2. /\ Len(ab) = Len(a) + Len(b) /\ \A i \in 1..Len(a) : ab[i] = a[i]
        /\ \A i \in 1..Len(b) : ab[Len(a) + i] = b[i]
    OBVIOUS
  <2>3. /\ Len(abc) = Len(ab) + Len(c) /\ \A i \in 1..Len(ab) : abc[i] = ab[i]
        /\ \A i \in 1..Len(c) : abc[Len(ab) + i] = c[i]
    OBVIOUS
  <2>4. /\ Len(abcd) = Len(abc) + Len(d) /\ \A i \in 1..Len(abc) : abcd[i] = abc[i]
        /\ \A i \in 1..Len(d) : abcd[Len(abc) + i] = d[i]
    OBVIOUS
  <2>5. /\ Len(abcde) = Len(abcd) + Len(e) /\ \A i \in 1..Len(abcd) : abcde[i] = abcd[i]
        /\ \A i \in 1..Len(e) : abcde[Len(abcd) + i] = e[i]
    OBVIOUS
  <2>6. ProcessInvalid = (((a \o b) \o c) \o d) \o e
    BY <1>6, <1>7 DEF ProcessInvalid
  <2> HIDE DEF a, b, c, d, e, ab, abc, abcd, abcde
  <2>7. a \o b = ab
    BY <2>1, <2>2, Joined
  <2>8. ab \o c = abc
    BY <2>1, <2>3, Joined
  <2>9. abc \o d = abcd
    BY <2>1, <2>4, Joined
  <2>10. abcd \o e = abcde
    BY <2>1, <2>5, Joined
  <2>11. QED
    BY <2>6, <2>7, <2>8, <2>9, <2>10 DEF abcde
<1>10. QED
  BY <1>1, <1>2, <1>3, <1>4, <1>5, <1>8, <1>9 DEF SavePaymentRequest

-----------------------------------------------------------------------------
(* The place of a handler in its program.                                  *)

LEMMA PaymentPlace ==
    ASSUME NEW t \in Payments
    PROVE  /\ Running(t) <=> at[t] \in 1..6
           /\ ~Running(t) => Step(t) = "none"
           /\ at[t] = 1 => Step(t) = "findExisting"
           /\ at[t] = 2 => Step(t) = "insertRequest"
           /\ at[t] = 3 => Step(t) = "saveLines"
           /\ at[t] = 4 => Step(t) = "insertSchedule"
           /\ at[t] = 5 => Step(t) = "commit"
           /\ at[t] = 6 => Step(t) = "complete"
           /\ PlaceOf(t, "commit") = 5 /\ PlaceOf(t, "complete") = 6
           /\ Len(Program(t)) = 6
<1>1. Program(t) = <<"findExisting", "insertRequest", "saveLines", "insertSchedule",
                     "commit", "complete">>
  BY Programs
<1>2. DOMAIN Program(t) = 1..6 /\ Len(Program(t)) = 6
  BY <1>1
<1>3. PlaceOf(t, "commit") = 5 /\ PlaceOf(t, "complete") = 6
  BY <1>1, <1>2 DEF PlaceOf
<1>4. QED
  BY <1>1, <1>2, <1>3 DEF Running, Step

LEMMA ResetPlace ==
    ASSUME NEW t \in Resets
    PROVE  /\ Running(t) <=> at[t] \in 1..7
           /\ ~Running(t) => Step(t) = "none"
           /\ at[t] = 1 => Step(t) = "findRequest"
           /\ at[t] = 2 => Step(t) = "findCompleted"
           /\ at[t] = 3 => Step(t) = "newReference"
           /\ at[t] = 4 => Step(t) = "invalidate"
           /\ at[t] = 5 => Step(t) = "findSchedule"
           /\ at[t] = 6 => Step(t) = "schedule"
           /\ at[t] = 7 => Step(t) = "end"
           /\ PlaceOf(t, "newReference") = 3
<1>1. Program(t) = <<"findRequest", "findCompleted", "newReference", "invalidate",
                     "findSchedule", "schedule", "end">>
  BY Programs
<1>2. DOMAIN Program(t) = 1..7
  BY <1>1
<1>3. PlaceOf(t, "newReference") = 3
  BY <1>1, <1>2 DEF PlaceOf
<1>4. QED
  BY <1>1, <1>2, <1>3 DEF Running, Step

LEMMA RejectionPlace ==
    ASSUME NEW t \in Rejections
    PROVE  /\ Running(t) <=> at[t] \in 1..12
           /\ ~Running(t) => Step(t) = "none"
           /\ at[t] = 1 => Step(t) = "acknowledge"
           /\ at[t] = 2 => Step(t) = "findRejected"
           /\ at[t] = 3 => Step(t) = "newReference"
           /\ at[t] = 4 => Step(t) = "invalidate"
           /\ at[t] \in {5, 9} => Step(t) = "findSchedule"
           /\ at[t] \in {6, 10} => Step(t) = "schedule"
           /\ at[t] = 7 => Step(t) = "findHold"
           /\ at[t] = 8 => Step(t) = "addHold"
           /\ at[t] = 11 => Step(t) = "commit"
           /\ at[t] = 12 => Step(t) = "complete"
           /\ PlaceOf(t, "complete") = 12
<1>1. Program(t) = <<"acknowledge", "findRejected", "newReference", "invalidate",
                     "findSchedule", "schedule", "findHold", "addHold", "findSchedule",
                     "schedule", "commit", "complete">>
  BY Programs
<1>2. DOMAIN Program(t) = 1..12
  BY <1>1
<1>3. PlaceOf(t, "complete") = 12
  BY <1>1, <1>2 DEF PlaceOf
<1>4. QED
  BY <1>1, <1>2, <1>3 DEF Running, Step

LEMMA ReplyPlace ==
    ASSUME NEW t \in Replies
    PROVE  /\ Running(t) <=> at[t] \in 1..7
           /\ ~Running(t) => Step(t) = "none"
           /\ at[t] = 1 => Step(t) = "findRequest"
           /\ at[t] = 2 => Step(t) = "updateRequest"
           /\ at[t] = 3 => Step(t) = "invalidateLines"
           /\ at[t] = 4 => Step(t) = "saveLines"
           /\ at[t] = 5 => Step(t) = "removeAutoHold"
           /\ at[t] = 6 => Step(t) = "commit"
           /\ at[t] = 7 => Step(t) = "complete"
           /\ PlaceOf(t, "complete") = 7
<1>1. Program(t) = <<"findRequest", "updateRequest", "invalidateLines", "saveLines",
                     "removeAutoHold", "commit", "complete">>
  BY Programs DEF UpdateRequestsAwaitingCrossBorder
<1>2. DOMAIN Program(t) = 1..7
  BY <1>1
<1>3. PlaceOf(t, "complete") = 7
  BY <1>1, <1>2 DEF PlaceOf
<1>4. QED
  BY <1>1, <1>2, <1>3 DEF Running, Step

LEMMA RetentionPlace ==
    ASSUME NEW t \in Retentions
    PROVE  /\ Running(t) <=> at[t] \in 1..10
           /\ ~Running(t) => Step(t) = "none"
           /\ at[t] = 1 => Step(t) = "removeClosure"
           /\ at[t] = 2 => Step(t) = "findRequests"
           /\ at[t] = 3 => Step(t) = "findCompleteds"
           /\ at[t] = 4 => Step(t) = "removeOutbox"
           /\ at[t] = 5 => Step(t) = "removeCompleted"
           /\ at[t] = 6 => Step(t) = "removeSchedules"
           /\ at[t] = 7 => Step(t) = "removeLines"
           /\ at[t] = 8 => Step(t) = "removeRequests"
           /\ at[t] = 9 => Step(t) = "commit"
           /\ at[t] = 10 => Step(t) = "complete"
           /\ PlaceOf(t, "commit") = 9
<1>1. Program(t) = <<"removeClosure", "findRequests", "findCompleteds", "removeOutbox",
                     "removeCompleted", "removeSchedules", "removeLines",
                     "removeRequests", "commit", "complete">>
  BY Programs DEF RemoveAgreementData
<1>2. DOMAIN Program(t) = 1..10
  BY <1>1
<1>3. PlaceOf(t, "commit") = 9
  BY <1>1, <1>2 DEF PlaceOf
<1>4. QED
  BY <1>1, <1>2, <1>3 DEF Running, Step

-----------------------------------------------------------------------------
(* Rows.                                                                   *)

RequestRow == [table : {"paymentRequests"}, id : Nat, ref : Tasks]
LineRow ==
    [table : {"invoiceLines"}, request : Nat, by : Tasks, xb : BOOLEAN, invalid : BOOLEAN]
ScheduleRow == [table : {"schedule"}, request : Nat, by : Tasks, done : BOOLEAN]
CompletedRow ==
    [table : {"completedPaymentRequests"}, request : Nat, id : Nat \X Tasks,
     acknowledged : BOOLEAN, invalid : BOOLEAN]
OutboxRow == [table : {"outbox"}, completed : Nat \X Tasks]

Row == RequestRow \cup LineRow \cup ScheduleRow \cup CompletedRow \cup OutboxRow
           \cup {Closure, Hold}

\* The table of a row says what it is.
LEMMA RowOfTable ==
    ASSUME NEW r \in Row
    PROVE  /\ r.table = "paymentRequests" <=> r \in RequestRow
           /\ r.table = "invoiceLines" <=> r \in LineRow
           /\ r.table = "schedule" <=> r \in ScheduleRow
           /\ r.table = "completedPaymentRequests" <=> r \in CompletedRow
           /\ r.table = "outbox" <=> r \in OutboxRow
           /\ r.table = "frnAgreementClosed" <=> r = Closure
           /\ r.table = "holds" <=> r = Hold
<1>1. /\ \A x \in RequestRow : x.table = "paymentRequests"
      /\ \A x \in LineRow : x.table = "invoiceLines"
      /\ \A x \in ScheduleRow : x.table = "schedule"
      /\ \A x \in CompletedRow : x.table = "completedPaymentRequests"
      /\ \A x \in OutboxRow : x.table = "outbox"
      /\ Closure.table = "frnAgreementClosed" /\ Hold.table = "holds"
  BY DEF RequestRow, LineRow, ScheduleRow, CompletedRow, OutboxRow, Closure, Hold
<1>2. \/ r \in RequestRow \/ r \in LineRow \/ r \in ScheduleRow \/ r \in CompletedRow
      \/ r \in OutboxRow \/ r = Closure \/ r = Hold
  BY DEF Row
<1>3. QED
  BY <1>1, <1>2

\* New rows.
LEMMA NewRows ==
    ASSUME NEW t \in Tasks, NEW id \in Nat
    PROVE  /\ Request(id, t) \in RequestRow /\ Request(id, t).id = id
           /\ Request(id, t).ref = t
           /\ \A xb \in BOOLEAN :
                 /\ InvoiceLine(id, t, xb) \in LineRow
                 /\ InvoiceLine(id, t, xb).request = id /\ InvoiceLine(id, t, xb).by = t
                 /\ InvoiceLine(id, t, xb).invalid = FALSE
           /\ Schedule(id, t) \in ScheduleRow /\ Schedule(id, t).request = id
           /\ Completed(id, t) \in CompletedRow /\ Completed(id, t).request = id
           /\ Outbox(id, t) \in OutboxRow
  BY DEF Request, InvoiceLine, Schedule, Completed, Outbox, RequestRow, LineRow,
         ScheduleRow, CompletedRow, OutboxRow

\* Rows as they are rewritten.
Referred(r, t) == [r EXCEPT !.ref = t]
Acknowledged(r) == [r EXCEPT !.acknowledged = TRUE]
Invalid(r) == [r EXCEPT !.invalid = TRUE]
Done(s) == [s EXCEPT !.done = TRUE]

LEMMA RewrittenRows ==
    /\ \A r \in RequestRow, t \in Tasks :
          /\ Referred(r, t) \in RequestRow /\ Referred(r, t).id = r.id
          /\ Referred(r, t).ref = t
    /\ \A r \in CompletedRow :
          /\ Acknowledged(r) \in CompletedRow /\ Invalid(r) \in CompletedRow
    /\ \A r \in LineRow :
          /\ Invalid(r) \in LineRow /\ Invalid(r).request = r.request
          /\ Invalid(r).invalid = TRUE
    /\ \A s \in ScheduleRow : Done(s) \in ScheduleRow /\ Done(s).request = s.request
  BY DEF Referred, Acknowledged, Invalid, Done, RequestRow, LineRow, ScheduleRow,
         CompletedRow

-----------------------------------------------------------------------------
(* What a statement replaces and writes.                                   *)

LEMMA CutIs ==
    ASSUME NEW t
    PROVE  /\ Step(t) \in {"newReference", "updateRequest", "removeRequests"} =>
                 Cut(t) = RequestRows(t)
           /\ Step(t) \in {"invalidateLines", "removeLines"} =>
                 Cut(t) = Of("invoiceLines", found[t].requests, View(t))
           /\ Step(t) = "invalidate" =>
                 Cut(t) = Of("completedPaymentRequests", found[t].requests, View(t))
           /\ Step(t) = "acknowledge" => Cut(t) = In("completedPaymentRequests", View(t))
           /\ Step(t) = "removeCompleted" =>
                 Cut(t) = {r \in In("completedPaymentRequests", View(t)) :
                              r.id \in found[t].completed}
           /\ Step(t) = "removeOutbox" =>
                 Cut(t) = {r \in In("outbox", View(t)) : r.completed \in found[t].completed}
           /\ Step(t) = "removeSchedules" =>
                 Cut(t) = Of("schedule", found[t].requests, View(t))
           /\ Step(t) = "removeClosure" => Cut(t) = In("frnAgreementClosed", View(t))
           /\ Step(t) = "schedule" => Cut(t) = AbandonSchedule(t)
           /\ Step(t) \in {"insertRequest", "saveLines", "insertSchedule", "addHold"} =>
                 Cut(t) = {}
  BY DEF Cut

LEMMA PutIs ==
    ASSUME NEW t
    PROVE  /\ Step(t) = "insertRequest" => Put(t) = {Request(lastId + 1, t)}
           /\ Step(t) = "saveLines" =>
                 Put(t) = {InvoiceLine(id, t, crossBorder /\ t \in Payments) :
                              id \in IF t \in Payments THEN {lastId + 1}
                                     ELSE found[t].requests}
           /\ Step(t) = "insertSchedule" => Put(t) = {Schedule(lastId + 1, t)}
           /\ Step(t) = "schedule" =>
                 Put(t) = IF found[t].schedule = {}
                          THEN {Schedule(id, t) : id \in found[t].requests} ELSE Cut(t)
           /\ Step(t) = "addHold" /\ ~found[t].held => Put(t) = {Hold}
           /\ Step(t) = "addHold" /\ found[t].held => Put(t) = {}
           /\ Step(t) = "newReference" => Put(t) = {Referred(r, t) : r \in Cut(t)}
           /\ Step(t) = "acknowledge" => Put(t) = {Acknowledged(r) : r \in Cut(t)}
           /\ Step(t) \in {"invalidate", "invalidateLines"} =>
                 Put(t) = {Invalid(r) : r \in Cut(t)}
           /\ Step(t) = "updateRequest" => Put(t) = Cut(t)
           /\ Step(t) \in {"removeClosure", "removeOutbox", "removeCompleted",
                           "removeSchedules", "removeLines", "removeRequests"} =>
                 Put(t) = {}
  BY DEF Put, Referred, Acknowledged, Invalid

-----------------------------------------------------------------------------
(* Types.                                                                  *)

Found ==
    [requests : SUBSET Nat, completed : SUBSET (Nat \X Tasks),
     schedule : SUBSET ScheduleRow, held : BOOLEAN]

TablesTyped ==
    /\ db \in SUBSET Row /\ lastId \in Nat /\ crossBorder \in BOOLEAN
    /\ put \in [Tasks -> SUBSET Row] /\ cut \in [Tasks -> SUBSET Row]
    /\ at \in [Tasks -> Nat] /\ found \in [Tasks -> Found]

Requests(rows) == In("paymentRequests", rows)
Lines(rows) == In("invoiceLines", rows)
Schedules(rows) == In("schedule", rows)

LEMMA InTable ==
    ASSUME NEW rows \in SUBSET Row
    PROVE  /\ Requests(rows) = rows \cap RequestRow
           /\ Lines(rows) = rows \cap LineRow
           /\ Schedules(rows) = rows \cap ScheduleRow
           /\ In("completedPaymentRequests", rows) = rows \cap CompletedRow
           /\ In("outbox", rows) = rows \cap OutboxRow
           /\ In("frnAgreementClosed", rows) = rows \cap {Closure}
  BY RowOfTable DEF In, Requests, Lines, Schedules

LEMMA ViewType ==
    ASSUME TablesTyped, NEW t \in Tasks
    PROVE  /\ View(t) \in SUBSET Row /\ found[t] \in Found /\ at[t] \in Nat
           /\ put[t] \in SUBSET Row /\ cut[t] \in SUBSET Row
           /\ found[t].requests \in SUBSET Nat
           /\ found[t].completed \in SUBSET (Nat \X Tasks)
           /\ found[t].schedule \in SUBSET ScheduleRow /\ found[t].held \in BOOLEAN
<1>1. found[t] \in Found
  BY DEF TablesTyped
<1>2. QED
  BY <1>1 DEF TablesTyped, View, Found

\* A statement replaces rows that it sees, and writes rows.
LEMMA CutType ==
    ASSUME TablesTyped, NEW t \in Tasks
    PROVE  Cut(t) \subseteq View(t)
  BY DEF Cut, RequestRows, Of, In, AbandonSchedule

\* The tables a statement writes to.
LEMMA StatementRows ==
    ASSUME TablesTyped, NEW t \in Tasks
    PROVE  /\ Step(t) \in {"insertRequest", "newReference", "updateRequest",
                           "removeRequests"} =>
                 Cut(t) \subseteq RequestRow /\ Put(t) \subseteq RequestRow
           /\ Step(t) \in {"saveLines", "invalidateLines", "removeLines"} =>
                 Cut(t) \subseteq LineRow /\ Put(t) \subseteq LineRow
           /\ Step(t) \in {"insertSchedule", "schedule", "removeSchedules"} =>
                 Cut(t) \subseteq ScheduleRow /\ Put(t) \subseteq ScheduleRow
           /\ Step(t) \in {"acknowledge", "invalidate", "removeCompleted"} =>
                 Cut(t) \subseteq CompletedRow /\ Put(t) \subseteq CompletedRow
           /\ Step(t) = "removeOutbox" => Cut(t) \subseteq OutboxRow /\ Put(t) = {}
           /\ Step(t) = "removeClosure" => Cut(t) \subseteq {Closure} /\ Put(t) = {}
           /\ Step(t) = "addHold" => Cut(t) = {} /\ Put(t) \subseteq {Hold}
<1>1. /\ View(t) \in SUBSET Row /\ lastId + 1 \in Nat /\ crossBorder \in BOOLEAN
      /\ found[t].requests \in SUBSET Nat /\ found[t].schedule \in SUBSET ScheduleRow
      /\ found[t].held \in BOOLEAN
  BY ViewType DEF TablesTyped
<1>2. \A id \in Nat : /\ Request(id, t) \in RequestRow /\ Schedule(id, t) \in ScheduleRow
                      /\ \A xb \in BOOLEAN : InvoiceLine(id, t, xb) \in LineRow
  BY NewRows
<1>3. /\ In("paymentRequests", View(t)) \subseteq RequestRow
      /\ In("invoiceLines", View(t)) \subseteq LineRow
      /\ In("schedule", View(t)) \subseteq ScheduleRow
      /\ In("completedPaymentRequests", View(t)) \subseteq CompletedRow
      /\ In("outbox", View(t)) \subseteq OutboxRow
      /\ In("frnAgreementClosed", View(t)) \subseteq {Closure}
  BY <1>1, InTable DEF Requests, Lines, Schedules
<1>4. CASE Step(t) \in {"insertRequest", "newReference", "updateRequest", "removeRequests"}
  <2>1. Cut(t) \subseteq RequestRow
    BY <1>3, <1>4, CutIs DEF RequestRows
  <2>2. \A r \in Cut(t) : Referred(r, t) \in RequestRow
    BY <2>1, RewrittenRows
  <2>3. Put(t) \subseteq RequestRow
    BY <1>1, <1>2, <1>4, <2>1, <2>2, PutIs
  <2>4. QED
    BY <1>4, <2>1, <2>3
<1>5. CASE Step(t) = "saveLines"
  <2>1. PICK xb \in BOOLEAN : xb = (crossBorder /\ t \in Payments)
    OBVIOUS
  <2>2. Put(t) = {InvoiceLine(id, t, xb) :
                     id \in IF t \in Payments THEN {lastId + 1} ELSE found[t].requests}
    BY <1>5, <2>1, PutIs
  <2>3. Cut(t) = {}
    BY <1>5, CutIs
  <2>4. QED
    BY <1>1, <1>2, <1>5, <2>2, <2>3
<1>6. CASE Step(t) \in {"invalidateLines", "removeLines"}
  <2>1. Cut(t) \subseteq LineRow
    BY <1>3, <1>6, CutIs DEF Of
  <2>2. \A r \in Cut(t) : Invalid(r) \in LineRow
    BY <2>1, RewrittenRows
  <2>3. Put(t) \subseteq LineRow
    BY <1>6, <2>2, PutIs
  <2>4. QED
    BY <1>6, <2>1, <2>3
<1>7. CASE Step(t) \in {"insertSchedule", "schedule", "removeSchedules"}
  <2>1. Cut(t) \subseteq ScheduleRow
    BY <1>1, <1>3, <1>7, CutIs DEF Of, AbandonSchedule
  <2>2. Put(t) \subseteq ScheduleRow
    BY <1>1, <1>2, <1>7, <2>1, PutIs
  <2>3. QED
    BY <1>7, <2>1, <2>2
<1>8. CASE Step(t) \in {"acknowledge", "invalidate", "removeCompleted"}
  <2>1. Cut(t) \subseteq CompletedRow
    BY <1>3, <1>8, CutIs DEF Of
  <2>2. \A r \in Cut(t) : Acknowledged(r) \in CompletedRow /\ Invalid(r) \in CompletedRow
    BY <2>1, RewrittenRows
  <2>3. Put(t) \subseteq CompletedRow
    BY <1>8, <2>2, PutIs
  <2>4. QED
    BY <1>8, <2>1, <2>3
<1>9. CASE Step(t) = "removeOutbox"
  BY <1>3, <1>9, CutIs, PutIs
<1>10. CASE Step(t) = "removeClosure"
  BY <1>3, <1>10, CutIs, PutIs
<1>11. CASE Step(t) = "addHold"
  BY <1>1, <1>11, CutIs, PutIs
<1>12. QED
  BY <1>4, <1>5, <1>6, <1>7, <1>8, <1>9, <1>10, <1>11

\* The statements that write.
LEMMA WritingSteps ==
    ASSUME NEW t \in Tasks, Writes(t)
    PROVE  Step(t) \in {"insertRequest", "saveLines", "insertSchedule", "schedule",
                       "addHold", "updateRequest", "newReference", "acknowledge",
                       "invalidate", "invalidateLines", "removeClosure", "removeOutbox",
                       "removeCompleted", "removeSchedules", "removeLines",
                       "removeRequests"}
<1>1. Running(t)
  BY DEF Writes
<1>2. CASE t \in Payments
  BY <1>1, <1>2, PaymentPlace DEF Writes, Lookups
<1>3. CASE t \in Resets
  BY <1>1, <1>3, ResetPlace DEF Writes, Lookups
<1>4. CASE t \in Rejections
  BY <1>1, <1>4, RejectionPlace DEF Writes, Lookups
<1>5. CASE t \in Replies
  BY <1>1, <1>5, ReplyPlace DEF Writes, Lookups
<1>6. CASE t \in Retentions
  BY <1>1, <1>6, RetentionPlace DEF Writes, Lookups
<1>7. QED
  BY <1>2, <1>3, <1>4, <1>5, <1>6 DEF Tasks

LEMMA PutType ==
    ASSUME TablesTyped, NEW t \in Tasks, Writes(t)
    PROVE  Put(t) \in SUBSET Row
  BY StatementRows, WritingSteps DEF Row

\* Which handler is at a statement, and where.
LEMMA StepOf ==
    ASSUME NEW t \in Tasks
    PROVE  /\ Running(t) <=> Step(t) # "none"
           /\ Step(t) = "findExisting" => t \in Payments /\ at[t] = 1
           /\ Step(t) = "insertRequest" => t \in Payments /\ at[t] = 2
           /\ Step(t) = "insertSchedule" => t \in Payments /\ at[t] = 4
           /\ Step(t) = "saveLines" => \/ t \in Payments /\ at[t] = 3
                                       \/ t \in Replies /\ at[t] = 4
           /\ Step(t) = "findRequest" => t \in Resets \cup Replies /\ at[t] = 1
           /\ Step(t) = "findCompleted" => t \in Resets /\ at[t] = 2
           /\ Step(t) = "newReference" => t \in Resets \cup Rejections /\ at[t] = 3
           /\ Step(t) = "invalidate" => t \in Resets \cup Rejections /\ at[t] = 4
           /\ Step(t) = "findSchedule" => \/ t \in Resets /\ at[t] = 5
                                          \/ t \in Rejections /\ at[t] \in {5, 9}
           /\ Step(t) = "schedule" => \/ t \in Resets /\ at[t] = 6
                                      \/ t \in Rejections /\ at[t] \in {6, 10}
           /\ Step(t) = "end" => t \in Resets /\ at[t] = 7
           /\ Step(t) = "acknowledge" => t \in Rejections /\ at[t] = 1
           /\ Step(t) = "findRejected" => t \in Rejections /\ at[t] = 2
           /\ Step(t) = "findHold" => t \in Rejections /\ at[t] = 7
           /\ Step(t) = "addHold" => t \in Rejections /\ at[t] = 8
           /\ Step(t) = "updateRequest" => t \in Replies /\ at[t] = 2
           /\ Step(t) = "invalidateLines" => t \in Replies /\ at[t] = 3
           /\ Step(t) = "removeAutoHold" => t \in Replies /\ at[t] = 5
           /\ Step(t) = "removeClosure" => t \in Retentions /\ at[t] = 1
           /\ Step(t) = "findRequests" => t \in Retentions /\ at[t] = 2
           /\ Step(t) = "findCompleteds" => t \in Retentions /\ at[t] = 3
           /\ Step(t) = "removeOutbox" => t \in Retentions /\ at[t] = 4
           /\ Step(t) = "removeCompleted" => t \in Retentions /\ at[t] = 5
           /\ Step(t) = "removeSchedules" => t \in Retentions /\ at[t] = 6
           /\ Step(t) = "removeLines" => t \in Retentions /\ at[t] = 7
           /\ Step(t) = "removeRequests" => t \in Retentions /\ at[t] = 8
           /\ Step(t) = "commit" => \/ t \in Payments /\ at[t] = 5
                                    \/ t \in Rejections /\ at[t] = 11
                                    \/ t \in Replies /\ at[t] = 6
                                    \/ t \in Retentions /\ at[t] = 9
           /\ Step(t) = "complete" => \/ t \in Payments /\ at[t] = 6
                                      \/ t \in Rejections /\ at[t] = 12
                                      \/ t \in Replies /\ at[t] = 7
                                      \/ t \in Retentions /\ at[t] = 10
<1>1. CASE t \in Payments
  BY <1>1, PaymentPlace
<1>2. CASE t \in Resets
  BY <1>2, ResetPlace
<1>3. CASE t \in Rejections
  BY <1>3, RejectionPlace
<1>4. CASE t \in Replies
  BY <1>4, ReplyPlace
<1>5. CASE t \in Retentions
  BY <1>5, RetentionPlace
<1>6. QED
  BY <1>1, <1>2, <1>3, <1>4, <1>5 DEF Tasks

-----------------------------------------------------------------------------
(* What each step does.                                                    *)

\* What a look-up of t finds, f, and where it goes on, i.
Looked(t, f, i) ==
    /\ Step(t) \in Lookups
    /\ \/ i = at[t] + 1
       \/ t \in Payments /\ at[t] = 1 /\ i = 5 /\ Requests(View(t)) # {}
       \/ t \in Rejections /\ at[t] = 2 /\ i = 12
       \/ t \in Retentions /\ at[t] = 2 /\ i = 9 /\ f.requests = {}
    /\ Step(t) \in {"findRequest", "findRequests"} => f.requests = Ids(Requests(View(t)))
    /\ Step(t) \notin {"findRequest", "findRequests", "findRejected"} =>
          f.requests = found[t].requests
    /\ Step(t) = "findCompleteds" =>
          f.completed = Ids({c \in In("completedPaymentRequests", View(t)) :
                                c.request \in f.requests})
    /\ Step(t) = "findHold" => (f.held <=> Hold \in View(t))

LEMMA LookUpDoes ==
    ASSUME TablesTyped, NEW t \in Tasks, LookUp(t)
    PROVE  \E f \in Found, i \in Nat : Finds(t, f, i) /\ Looked(t, f, i)
<1> DEFINE f == found[t]
           next == at[t] + 1
           ids == Ids(Requests(View(t)))
           done == In("completedPaymentRequests", View(t))
           Goal(g, i) == g \in Found /\ i \in Nat /\ Finds(t, g, i) /\ Looked(t, g, i)
<1>1. /\ f \in Found /\ next \in Nat /\ next = at[t] + 1 /\ View(t) \in SUBSET Row
      /\ f = found[t]
  BY ViewType DEF Found
<1>2. ids \in SUBSET Nat
  <2>1. Requests(View(t)) \subseteq RequestRow
    BY <1>1, InTable
  <2>2. \A r \in RequestRow : r.id \in Nat
    BY DEF RequestRow
  <2>3. QED
    BY <2>1, <2>2 DEF Ids
<1>3. done \subseteq CompletedRow
  BY <1>1, InTable
<1>4. \A c \in CompletedRow : c.request \in Nat /\ c.id \in Nat \X Tasks
  BY DEF CompletedRow
<1>5. \A s \in Of("schedule", f.requests, View(t)) : s \in ScheduleRow
  BY <1>1, InTable DEF Of, Schedules
<1>6. /\ \A x \in SUBSET Nat : /\ [f EXCEPT !.requests = x] \in Found
                               /\ [f EXCEPT !.requests = x].requests = x
      /\ \A x \in SUBSET (Nat \X Tasks) : /\ [f EXCEPT !.completed = x] \in Found
                                          /\ [f EXCEPT !.completed = x].requests = f.requests
                                          /\ [f EXCEPT !.completed = x].completed = x
      /\ \A x \in SUBSET ScheduleRow : /\ [f EXCEPT !.schedule = x] \in Found
                                       /\ [f EXCEPT !.schedule = x].requests = f.requests
  BY <1>1 DEF Found
<1>7. /\ t \in Payments => PlaceOf(t, "commit") = 5
      /\ t \in Rejections => PlaceOf(t, "complete") = 12
      /\ t \in Retentions => PlaceOf(t, "commit") = 9
  BY PaymentPlace, RejectionPlace, RetentionPlace
<1>8. CASE Step(t) = "findExisting"
  <2>1. t \in Payments /\ at[t] = 1
    BY <1>8, StepOf
  <2>2. Finds(t, f, next) \/ (Finds(t, f, 5) /\ ids # {})
    BY <1>7, <1>8, <2>1 DEF LookUp, Requests
  <2>3. ids # {} => Requests(View(t)) # {}
    BY DEF Ids
  <2> HIDE DEF f, ids
  <2>4. QED
    BY <1>1, <1>8, <2>1, <2>2, <2>3 DEF Lookups, Looked
<1>9. CASE Step(t) = "findRequest"
  <2>1. Finds(t, [f EXCEPT !.requests = ids], next)
    BY <1>9 DEF LookUp, Requests
  <2> DEFINE g == [f EXCEPT !.requests = ids]
  <2>2. g \in Found /\ g.requests = ids
    BY <1>2, <1>6
  <2> HIDE DEF g
  <2>3. Goal(g, next)
    BY <1>1, <1>9, <2>1, <2>2 DEF Lookups, Looked, g
  <2>4. QED
    BY <2>3
<1>10. CASE Step(t) = "findRequests"
  <2> DEFINE g == [f EXCEPT !.requests = ids]
  <2>1. t \in Retentions /\ at[t] = 2
    BY <1>10, StepOf
  <2>2. Finds(t, g, next) \/ (Finds(t, g, 9) /\ ids = {})
    BY <1>7, <1>10, <2>1 DEF LookUp, Requests
  <2>3. g \in Found /\ g.requests = ids
    BY <1>2, <1>6
  <2> HIDE DEF g
  <2>4. Goal(g, next) \/ Goal(g, 9)
    BY <1>1, <1>10, <2>1, <2>2, <2>3 DEF Lookups, Looked
  <2>5. QED
    BY <2>4
<1>11. CASE Step(t) = "findCompleted"
  <2>1. Finds(t, f, next)
    BY <1>11 DEF LookUp
  <2>2. Goal(f, next)
    BY <1>1, <1>11, <2>1 DEF Lookups, Looked
  <2>3. QED
    BY <2>2
<1>12. CASE Step(t) = "findRejected"
  <2>1. t \in Rejections /\ at[t] = 2
    BY <1>12, StepOf
  <2>2. \/ Finds(t, f, 12)
        \/ \E c \in done : Finds(t, [f EXCEPT !.requests = {c.request}], next)
    BY <1>7, <1>12, <2>1 DEF LookUp
  <2>3. CASE Finds(t, f, 12)
    <3>1. Goal(f, 12)
      BY <1>1, <1>12, <2>1, <2>3 DEF Lookups, Looked
    <3>2. QED
      BY <3>1
  <2>4. ASSUME NEW c \in done, Finds(t, [f EXCEPT !.requests = {c.request}], next)
        PROVE  \E g \in Found : Goal(g, next)
    <3> DEFINE g == [f EXCEPT !.requests = {c.request}]
    <3>1. {c.request} \in SUBSET Nat
      BY <1>3, <1>4
    <3>2. g \in Found
      BY <1>6, <3>1
    <3> HIDE DEF g
    <3>3. Goal(g, next)
      BY <1>1, <1>12, <2>1, <2>4, <3>2 DEF Lookups, Looked, g
    <3>4. QED
      BY <3>2, <3>3
  <2>5. QED
    BY <2>2, <2>3, <2>4
<1>13. CASE Step(t) = "findCompleteds"
  <2> DEFINE cs == Ids({c \in done : c.request \in f.requests})
             g == [f EXCEPT !.completed = cs]
  <2>1. Finds(t, g, next)
    BY <1>13 DEF LookUp
  <2>2. cs \in SUBSET (Nat \X Tasks)
    BY <1>3, <1>4 DEF Ids
  <2>3. g \in Found /\ g.requests = f.requests /\ g.completed = cs
    BY <1>6, <2>2
  <2> HIDE DEF g
  <2>4. Goal(g, next)
    BY <1>1, <1>13, <2>1, <2>3 DEF Lookups, Looked
  <2>5. QED
    BY <2>4
<1>14. CASE Step(t) = "findHold"
  <2> DEFINE b == (Hold \in View(t))
             g == [f EXCEPT !.held = b]
  <2>1. b \in BOOLEAN
    OBVIOUS
  <2>2. Finds(t, g, next)
    BY <1>14 DEF LookUp
  <2> HIDE DEF b
  <2>3. g \in Found /\ g.held = b /\ g.requests = f.requests
    BY <1>1, <2>1 DEF Found
  <2> HIDE DEF g
  <2>4. Goal(g, next)
    BY <1>1, <1>14, <2>2, <2>3 DEF Lookups, Looked, b
  <2>5. QED
    BY <2>4
<1>15. CASE Step(t) = "findSchedule"
  <2> DEFINE open == {s \in Of("schedule", f.requests, View(t)) : ~s.done}
  <2>1. \/ Finds(t, [f EXCEPT !.schedule = {}], next)
        \/ \E s \in open : Finds(t, [f EXCEPT !.schedule = {s}], next)
    BY <1>15 DEF LookUp
  <2>2. \A s \in open : {s} \in SUBSET ScheduleRow
    BY <1>5
  <2>3. ASSUME NEW x \in SUBSET ScheduleRow, Finds(t, [f EXCEPT !.schedule = x], next)
        PROVE  \E g \in Found : Goal(g, next)
    <3> DEFINE g == [f EXCEPT !.schedule = x]
    <3>1. g \in Found /\ g.requests = f.requests
      BY <1>6
    <3> HIDE DEF g
    <3>2. Goal(g, next)
      BY <1>1, <1>15, <2>3, <3>1 DEF Lookups, Looked, g
    <3>3. QED
      BY <3>1, <3>2
  <2>4. \E x \in SUBSET ScheduleRow : Finds(t, [f EXCEPT !.schedule = x], next)
    <3> HIDE DEF open, f
    <3>1. QED
      BY <2>1, <2>2
  <2>5. QED
    BY <2>3, <2>4
<1>16. QED
  BY <1>8, <1>9, <1>10, <1>11, <1>12, <1>13, <1>14, <1>15 DEF LookUp

\* A roll-back forgets what was written.
LEMMA RollBackDoes ==
    ASSUME TablesTyped, NEW t \in Tasks, RollBack(t)
    PROVE  \E i \in Nat :
              /\ put' = [put EXCEPT ![t] = {}] /\ cut' = [cut EXCEPT ![t] = {}]
              /\ at' = [at EXCEPT ![t] = i]
              /\ i = IF t \in Payments \cup Rejections THEN 0
                     ELSE IF t \in Replies THEN IF Step(t) = "complete" THEN 0 ELSE 7
                     ELSE Failed
              /\ UNCHANGED <<db, lastId, crossBorder, found>>
<1>1. t \in Replies => PlaceOf(t, "complete") = 7
  BY ReplyPlace
<1>2. QED
  BY <1>1, TablesAssumption DEF RollBack, MoveTo, Failed, TablesAssumption

\* A write replaces rows of the view by new ones.
LEMMA WriteDoes ==
    ASSUME TablesTyped, NEW t \in Tasks, Write(t)
    PROVE  /\ Writes(t) /\ at' = [at EXCEPT ![t] = at[t] + 1]
           /\ UNCHANGED <<lastId, crossBorder, found>>
           /\ Cut(t) \subseteq View(t) /\ Put(t) \in SUBSET Row
           /\ \/ /\ InTransaction(t) /\ db' = db
                 /\ cut' = [cut EXCEPT ![t] = cut[t] \cup (Cut(t) \cap db)]
                 /\ put' = [put EXCEPT ![t] = (put[t] \ Cut(t)) \cup Put(t)]
              \/ /\ ~InTransaction(t) /\ db' = (db \ Cut(t)) \cup Put(t)
                 /\ put' = put /\ cut' = cut
<1>1. Writes(t)
  BY DEF Write
<1>2. Cut(t) \subseteq View(t) /\ Put(t) \in SUBSET Row
  BY <1>1, CutType, PutType
<1>3. QED
  BY <1>1, <1>2 DEF Write, Continue, MoveTo

\* The pod that works off the schedule completes one.
LEMMA ProcessDoes ==
    ASSUME TablesTyped, ProcessPaymentRequest
    PROVE  \E s \in db :
              /\ s \in ScheduleRow /\ Processable(s)
              /\ db' = (db \ {s}) \cup {Done(s), Completed(s.request, s.by),
                                         Outbox(s.request, s.by)}
              /\ UNCHANGED <<lastId, put, cut, crossBorder, at, found>>
<1>1. In("schedule", db) = db \cap ScheduleRow
  BY InTable DEF TablesTyped, Schedules
<1>2. QED
  BY <1>1 DEF ProcessPaymentRequest, Done

LEMMA ProcessedRows ==
    ASSUME NEW s \in ScheduleRow
    PROVE  /\ Done(s) \in ScheduleRow /\ Completed(s.request, s.by) \in CompletedRow
           /\ Outbox(s.request, s.by) \in OutboxRow
<1>1. s.request \in Nat /\ s.by \in Tasks
  BY DEF ScheduleRow
<1>2. QED
  BY <1>1, NewRows, RewrittenRows

\* Numbers of requests: what is committed has one that was given out, and what is
\* not may have the next.
Numbered ==
    /\ \A q \in Requests(db) : q.id <= lastId
    /\ \A t \in Tasks : \A q \in Requests(put[t]) : q.id <= lastId + 1

\* A commit shows what the transaction saw.
LEMMA CommitDoes ==
    ASSUME TablesTyped, Numbered, NEW t \in Tasks, Commit(t)
    PROVE  /\ Step(t) = "commit" /\ db' = View(t)
           /\ put' = [put EXCEPT ![t] = {}] /\ cut' = [cut EXCEPT ![t] = {}]
           /\ at' = [at EXCEPT ![t] = at[t] + 1]
           /\ UNCHANGED <<crossBorder, found>>
           /\ lastId' \in {lastId, lastId + 1}
           /\ \A q \in Requests(put[t]) : q.id <= lastId'
           /\ lastId' # lastId => \E q \in Requests(put[t]) : q.id = lastId'
<1> DEFINE ids == Ids(In("paymentRequests", put[t]))
<1>1. /\ put[t] \in SUBSET Row /\ lastId \in Nat
      /\ \A i \in ids : i \in Nat /\ i <= lastId + 1
      /\ \A i \in ids : \E q \in Requests(put[t]) : q.id = i
      /\ \A q \in Requests(put[t]) : q.id \in ids
  <2>1. put[t] \in SUBSET Row /\ lastId \in Nat
    BY DEF TablesTyped
  <2>2. \A q \in Requests(put[t]) : q.id \in Nat
    BY <2>1, InTable DEF RequestRow
  <2>3. QED
    BY <2>1, <2>2 DEF Ids, Requests, Numbered
<1>2. lastId' = Max(ids \cup {lastId})
  BY DEF Commit
<1> HIDE DEF ids
<1>3. /\ lastId' \in ids \cup {lastId}
      /\ \A i \in ids \cup {lastId} : i <= lastId'
  <2>1. \E x \in ids \cup {lastId} : \A y \in ids \cup {lastId} : x >= y
    <3>1. CASE lastId + 1 \in ids
      BY <1>1, <3>1
    <3>2. CASE lastId + 1 \notin ids
      <4>1. \A i \in ids : i <= lastId
        BY <1>1, <3>2
      <4>2. QED
        BY <1>1, <4>1
    <3>3. QED
      BY <3>1, <3>2
  <2>2. /\ lastId' \in ids \cup {lastId}
        /\ \A i \in ids \cup {lastId} : lastId' >= i
    BY <1>2, <2>1 DEF Max
  <2>3. QED
    BY <1>1, <2>2
<1>4. lastId' \in {lastId, lastId + 1}
  <2>1. lastId' \in Nat /\ lastId <= lastId' /\ lastId' <= lastId + 1
    BY <1>1, <1>3
  <2>2. QED
    BY <1>1, <2>1
<1>5. QED
  BY <1>1, <1>3, <1>4 DEF Commit, Continue, MoveTo

\* Rows of a view.
LEMMA NumberedView ==
    ASSUME TablesTyped, Numbered, NEW t \in Tasks
    PROVE  \A q \in Requests(View(t)) : q.id <= lastId + 1
<1>1. \A q \in Requests(View(t)) : q \in Requests(db) \/ q \in Requests(put[t])
  BY DEF Requests, In, View
<1>2. lastId \in Nat /\ \A q \in Requests(db) : q.id \in Nat
  BY InTable DEF TablesTyped, RequestRow
<1>3. QED
  BY <1>1, <1>2 DEF Numbered

\* A request that is written is new or one of the view.
LEMMA RequestsPut ==
    ASSUME TablesTyped, NEW t \in Tasks, Writes(t), NEW q \in Requests(Put(t))
    PROVE  \/ /\ t \in Payments /\ at[t] = 2 /\ q = Request(lastId + 1, t)
              /\ q.id = lastId + 1 /\ q.ref = t
           \/ \E p \in Requests(Cut(t)) :
                 /\ p \in View(t) /\ p.id \in found[t].requests
                 /\ \/ Step(t) = "newReference" /\ q = Referred(p, t) /\ q.ref = t
                    \/ Step(t) = "updateRequest" /\ q = p
                 /\ q.id = p.id
<1>1. CASE Step(t) = "insertRequest"
  <2>1. Put(t) = {Request(lastId + 1, t)} /\ t \in Payments /\ at[t] = 2
    BY <1>1, PutIs, StepOf
  <2>2. q = Request(lastId + 1, t)
    BY <2>1 DEF Requests, In
  <2>3. lastId + 1 \in Nat
    BY DEF TablesTyped
  <2>4. Request(lastId + 1, t).id = lastId + 1 /\ Request(lastId + 1, t).ref = t
    BY <2>3, NewRows
  <2>5. QED
    BY <2>1, <2>2, <2>4
<1>2. ASSUME Step(t) \in {"newReference", "updateRequest"}, NEW p \in Cut(t)
      PROVE  /\ p \in Requests(Cut(t)) /\ p \in View(t) /\ p.id \in found[t].requests
             /\ Referred(p, t).id = p.id /\ Referred(p, t).ref = t
  <2>1. p \in RequestRows(t) /\ p \in RequestRow
    BY <1>2, CutIs, StatementRows
  <2>2. Cut(t) \in SUBSET Row
    BY CutType, ViewType
  <2>3. QED
    BY <1>2, <2>1, <2>2, InTable, RewrittenRows DEF RequestRows, In
<1>3. CASE Step(t) = "newReference"
  <2>1. PICK p \in Cut(t) : q = Referred(p, t)
    BY <1>3, PutIs DEF Requests, In
  <2>2. QED
    BY <1>2, <1>3, <2>1
<1>4. CASE Step(t) = "updateRequest"
  <2>1. q \in Cut(t)
    BY <1>4, PutIs DEF Requests, In
  <2>2. QED
    BY <1>2, <1>4, <2>1
<1>5. CASE Step(t) \notin {"insertRequest", "newReference", "updateRequest"}
  <2>1. q \in RequestRow /\ q \in Put(t)
    BY PutType, InTable
  <2>2. \/ Put(t) \subseteq LineRow \/ Put(t) \subseteq ScheduleRow
        \/ Put(t) \subseteq CompletedRow \/ Put(t) \subseteq {Hold} \/ Put(t) = {}
    BY <1>5, StatementRows, WritingSteps, PutIs
  <2>3. q \in LineRow \/ q \in ScheduleRow \/ q \in CompletedRow \/ q = Hold
    BY <2>1, <2>2
  <2>4. QED
    BY <2>1, <2>3 DEF RequestRow, LineRow, ScheduleRow, CompletedRow, Hold
<1>6. QED
  BY <1>1, <1>3, <1>4, <1>5

-----------------------------------------------------------------------------
(* Type correctness, with the numbers.                                     *)

\* A handler outside a transaction has nothing that is not committed.
NothingWritten ==
    \A t \in Tasks :
        t \in Resets \/ (t \in Rejections /\ at[t] \in {0, 1}) => put[t] = {} /\ cut[t] = {}

TypeInv == TablesTyped /\ Numbered /\ NothingWritten

LEMMA Outside ==
    ASSUME TypeInv, NEW t \in Tasks, ~InTransaction(t)
    PROVE  View(t) = db /\ put[t] = {} /\ cut[t] = {}
  BY StepOf DEF InTransaction, TypeInv, NothingWritten, View

LEMMA TypeInitially == TablesInit => TypeInv
<1> SUFFICES ASSUME TablesInit PROVE TypeInv
  OBVIOUS
<1>1. /\ db = {Closure} /\ put = [t \in Tasks |-> {}] /\ cut = [t \in Tasks |-> {}]
      /\ lastId = 0 /\ crossBorder \in BOOLEAN
      /\ found = [t \in Tasks |-> [requests |-> {}, completed |-> {},
                                   schedule |-> {}, held |-> FALSE]]
  BY DEF TablesInit
<1>2. at \in [Tasks -> Nat]
  BY DEF TablesInit, Absent
<1>3. [requests |-> {}, completed |-> {}, schedule |-> {}, held |-> FALSE] \in Found
  BY DEF Found
<1>4. TablesTyped
  BY <1>1, <1>2, <1>3 DEF TablesTyped, Row
<1>5. Requests(db) = {} /\ \A t \in Tasks : Requests(put[t]) = {}
  BY <1>1 DEF Requests, In, Closure
<1>6. QED
  BY <1>1, <1>4, <1>5 DEF TypeInv, Numbered, NothingWritten

LEMMA TypeKept == TypeInv /\ (TablesNext \/ UNCHANGED tablesVars) => TypeInv'
<1> SUFFICES ASSUME TypeInv, TablesNext \/ UNCHANGED tablesVars
             PROVE  TypeInv'
  OBVIOUS
<1> USE DEF TypeInv
<1>1. ASSUME UNCHANGED <<db, lastId, put, cut, crossBorder>>,
             at' \in [Tasks -> Nat], found' \in [Tasks -> Found],
             \A t \in Rejections : at'[t] \in {0, 1} => at[t] \in {0, 1}
      PROVE  TypeInv'
  BY <1>1 DEF TablesTyped, Numbered, Requests, In, NothingWritten
<1>2. CASE UNCHANGED tablesVars
  BY <1>1, <1>2 DEF tablesVars, TablesTyped
<1>3. CASE SendToCrossBorder \/ HoldForCrossBorder
  BY <1>1, <1>3 DEF SendToCrossBorder, HoldForCrossBorder, TablesTyped
<1>4. CASE ProcessPaymentRequest
  <2>1. PICK s \in db :
              /\ s \in ScheduleRow /\ Processable(s)
              /\ db' = (db \ {s}) \cup {Done(s), Completed(s.request, s.by),
                                         Outbox(s.request, s.by)}
              /\ UNCHANGED <<lastId, put, cut, crossBorder, at, found>>
    BY <1>4, ProcessDoes
  <2>2. /\ Done(s) \in ScheduleRow /\ Completed(s.request, s.by) \in CompletedRow
        /\ Outbox(s.request, s.by) \in OutboxRow
    BY <2>1, ProcessedRows
  <2>3. db' \in SUBSET Row
    BY <2>1, <2>2 DEF TablesTyped, Row
  <2>4. Requests(db') \subseteq Requests(db)
    BY <2>1, <2>2 DEF Requests, In, ScheduleRow, CompletedRow, OutboxRow
  <2>5. QED
    BY <2>1, <2>3, <2>4 DEF TablesTyped, Numbered, Requests, In, NothingWritten
<1>5. ASSUME NEW t \in Tasks, NEW i \in Nat, at' = [at EXCEPT ![t] = i]
      PROVE  at' \in [Tasks -> Nat]
  BY <1>5 DEF TablesTyped
<1>6. ASSUME NEW t \in Tasks, Start(t) PROVE TypeInv'
  <2>1. [requests |-> {}, completed |-> {}, schedule |-> {}, held |-> FALSE] \in Found
    BY DEF Found
  <2>2. QED
    BY <1>1, <1>5, <1>6, <2>1 DEF Start, MoveTo, TablesTyped
<1>7. ASSUME NEW t \in Tasks, LookUp(t) PROVE TypeInv'
  <2>1. PICK f \in Found, i \in Nat : Finds(t, f, i) /\ Looked(t, f, i)
    BY <1>7, LookUpDoes
  <2>2. t \in Rejections => at[t] \in Nat /\ at[t] > 0 /\ (i = at[t] + 1 \/ i = 12)
    BY <2>1, RejectionPlace, TablesAssumption
    DEF Looked, Lookups, TablesTyped, TablesAssumption
  <2>3. QED
    BY <1>1, <1>5, <2>1, <2>2 DEF Finds, MoveTo, TablesTyped
<1>8. ASSUME NEW t \in Tasks, RollBack(t) PROVE TypeInv'
  <2>1. PICK i \in Nat :
          /\ put' = [put EXCEPT ![t] = {}] /\ cut' = [cut EXCEPT ![t] = {}]
          /\ at' = [at EXCEPT ![t] = i]
          /\ UNCHANGED <<db, lastId, crossBorder, found>>
    BY <1>8, RollBackDoes
  <2>2. Requests({}) = {}
    BY DEF Requests, In
  <2>3. QED
    BY <1>5, <2>1, <2>2 DEF TablesTyped, Numbered, Requests, In, NothingWritten
<1>9. ASSUME NEW t \in Tasks, Write(t) PROVE TypeInv'
  <2>1. /\ Writes(t) /\ at' = [at EXCEPT ![t] = at[t] + 1]
        /\ UNCHANGED <<lastId, crossBorder, found>>
        /\ Cut(t) \subseteq View(t) /\ Put(t) \in SUBSET Row
        /\ \/ /\ InTransaction(t) /\ db' = db
              /\ cut' = [cut EXCEPT ![t] = cut[t] \cup (Cut(t) \cap db)]
              /\ put' = [put EXCEPT ![t] = (put[t] \ Cut(t)) \cup Put(t)]
           \/ /\ ~InTransaction(t) /\ db' = (db \ Cut(t)) \cup Put(t)
              /\ put' = put /\ cut' = cut
    BY <1>9, WriteDoes
  <2>2. at[t] + 1 \in Nat
    BY DEF TablesTyped
  <2>3. TablesTyped'
    BY <1>5, <2>1, <2>2 DEF TablesTyped
  <2>4. ASSUME NEW q \in Requests(Put(t))
        PROVE  q.id <= lastId + 1
    BY <2>1, <2>4, RequestsPut, NumberedView DEF Requests, In, TablesTyped
  <2>5. CASE InTransaction(t)
    <3>1. \A q \in Requests(put'[t]) : q \in Requests(put[t]) \/ q \in Requests(Put(t))
      BY <2>1, <2>5 DEF Requests, In, TablesTyped
    <3>2. \A u \in Tasks : u # t => put'[u] = put[u]
      BY <2>1, <2>5 DEF TablesTyped
    <3>3. Numbered'
      BY <2>1, <2>3, <2>4, <2>5, <3>1, <3>2 DEF Numbered, Requests, In
    <3>4. t \notin Resets /\ ~(t \in Rejections /\ at'[t] \in {0, 1})
      BY <2>1, <2>2, <2>5, RejectionPlace DEF InTransaction, TablesTyped, Writes
    <3>5. NothingWritten'
      BY <2>1, <2>2, <2>5, <3>4 DEF NothingWritten, TablesTyped
    <3>6. QED
      BY <2>3, <3>3, <3>5
  <2>6. CASE ~InTransaction(t)
    <3>1. ASSUME NEW q \in Requests(Put(t))
          PROVE  q.id <= lastId
      <4>1. \/ t \in Payments
            \/ \E p \in Requests(Cut(t)) : p \in View(t) /\ q.id = p.id
        BY <2>1, <3>1, RequestsPut
      <4>2. t \notin Payments
        BY <2>6, StepOf, TablesAssumption DEF InTransaction, TablesAssumption
      <4>3. View(t) = db
        BY <2>6, Outside
      <4>4. QED
        BY <4>1, <4>2, <4>3 DEF Numbered, Requests, In
    <3>2. \A q \in Requests(db') : q \in Requests(db) \/ q \in Requests(Put(t))
      BY <2>1, <2>6 DEF Requests, In
    <3>3. Numbered'
      BY <2>1, <2>6, <3>1, <3>2 DEF Numbered, Requests, In
    <3>4. NothingWritten'
      BY <2>1, <2>2, <2>6 DEF NothingWritten, TablesTyped
    <3>5. QED
      BY <2>3, <3>3, <3>4
  <2>7. QED
    BY <2>5, <2>6
<1>10. ASSUME NEW t \in Tasks, Commit(t) PROVE TypeInv'
  <2>1. /\ Step(t) = "commit" /\ db' = View(t)
        /\ put' = [put EXCEPT ![t] = {}] /\ cut' = [cut EXCEPT ![t] = {}]
        /\ at' = [at EXCEPT ![t] = at[t] + 1]
        /\ UNCHANGED <<crossBorder, found>>
        /\ lastId' \in {lastId, lastId + 1}
        /\ \A q \in Requests(put[t]) : q.id <= lastId'
    BY <1>10, CommitDoes
  <2>2. at[t] + 1 \in Nat /\ View(t) \in SUBSET Row
    BY ViewType
  <2>3. TablesTyped'
    BY <1>5, <2>1, <2>2 DEF TablesTyped
  <2>4. \A q \in Requests(db') : q.id \in Nat /\ q.id <= lastId'
    <3>1. \A q \in Requests(db') : q \in Requests(db) \/ q \in Requests(put[t])
      BY <2>1 DEF Requests, In, View
    <3>2. \A q \in Requests(db') : q.id \in Nat
      BY <2>3, InTable DEF TablesTyped, RequestRow
    <3>3. QED
      BY <2>1, <3>1, <3>2 DEF Numbered, TablesTyped
  <2>5. ASSUME NEW u \in Tasks, NEW q \in Requests(put'[u])
        PROVE  q.id <= lastId' + 1
    <3>1. u # t /\ put'[u] = put[u]
      BY <2>1, <2>5 DEF TablesTyped, Requests, In
    <3>2. q \in Requests(put[u]) /\ q.id \in Nat
      BY <2>5, <3>1, InTable DEF TablesTyped, RequestRow
    <3>3. QED
      BY <2>1, <3>2 DEF Numbered, TablesTyped
  <2>6. NothingWritten'
    BY <2>1, <2>2 DEF NothingWritten, TablesTyped
  <2>7. QED
    BY <2>3, <2>4, <2>5, <2>6 DEF Numbered, Requests, In
<1>11. ASSUME NEW t \in Tasks, RemoveAutoHold(t) \/ Complete(t) PROVE TypeInv'
  <2>1. at[t] + 1 \in Nat
    BY DEF TablesTyped
  <2>2. t \in Rejections => at[t] = 12
    BY <1>11, StepOf, TablesAssumption DEF RemoveAutoHold, Complete, TablesAssumption
  <2>3. /\ UNCHANGED <<db, lastId, put, cut, crossBorder, found>>
        /\ at' = [at EXCEPT ![t] = at[t] + 1]
    BY <1>11 DEF RemoveAutoHold, Complete, Continue, MoveTo
  <2>4. \A u \in Rejections : at'[u] \in {0, 1} => at[u] \in {0, 1}
    BY <2>1, <2>2, <2>3 DEF TablesTyped, Tasks
  <2>5. QED
    BY <1>1, <1>5, <2>1, <2>3, <2>4 DEF TablesTyped
<1>12. ASSUME NEW t \in Tasks, Handle(t) PROVE TypeInv'
  BY <1>6, <1>7, <1>8, <1>9, <1>10, <1>11, <1>12
  DEF Handle, NotFound, WriteFails, Deadlock, Outage
<1>13. QED
  BY <1>2, <1>3, <1>4, <1>12 DEF TablesNext

\* The steps by what they do to the tables.
LEMMA Steps ==
    ASSUME TablesNext \/ UNCHANGED tablesVars
    PROVE  \/ UNCHANGED <<db, lastId, put, cut, crossBorder, at, found, raced, outages>>
           \/ ProcessPaymentRequest
           \/ \E t \in Tasks :
                 \/ Start(t) \/ LookUp(t) \/ Write(t) \/ Commit(t)
                 \/ RemoveAutoHold(t) \/ Complete(t)
                 \/ NotFound(t) \/ WriteFails(t) \/ Deadlock(t) \/ Outage(t)
  BY DEF TablesNext, Handle, tablesVars, SendToCrossBorder, HoldForCrossBorder

LEMMA ErrorsRollBack ==
    ASSUME NEW t, NotFound(t) \/ WriteFails(t) \/ Deadlock(t) \/ Outage(t)
    PROVE  RollBack(t)
  BY DEF NotFound, WriteFails, Deadlock, Outage

\* A handler only moves on.
LEMMA MovesOn ==
    ASSUME NEW t \in Tasks, RemoveAutoHold(t) \/ Complete(t)
    PROVE  /\ UNCHANGED <<db, lastId, put, cut, crossBorder, found, raced, outages>>
           /\ at' = [at EXCEPT ![t] = at[t] + 1]
           /\ \/ t \in Replies /\ at[t] = 5
              \/ t \in Payments /\ at[t] = 6
              \/ t \in Rejections /\ at[t] = 12
              \/ t \in Replies /\ at[t] = 7
              \/ t \in Retentions /\ at[t] = 10
              \/ t \in Resets /\ at[t] = 7
  BY StepOf DEF RemoveAutoHold, Complete, Continue, MoveTo

-----------------------------------------------------------------------------
(* Locks.  A row that is being replaced is committed, and one transaction  *)
(* replaces it: what it has read of that row stays true until it ends.     *)

Locks ==
    /\ \A t \in Tasks : cut[t] \subseteq db
    /\ \A t, u \in Tasks : cut[t] \cap cut[u] # {} => t = u

LEMMA LocksInitially == TablesInit => Locks
  BY DEF TablesInit, Locks

\* A statement runs when no other transaction has the rows it replaces.
LEMMA WriteIsFree ==
    ASSUME NEW t \in Tasks, Write(t), NEW u \in Tasks, u # t
    PROVE  cut[u] \cap Cut(t) = {}
  BY DEF Write, Blockers

LEMMA LocksKept ==
    TypeInv /\ Locks /\ (TablesNext \/ UNCHANGED tablesVars) => Locks'
<1> SUFFICES ASSUME TypeInv, Locks, TablesNext \/ UNCHANGED tablesVars
             PROVE  Locks'
  OBVIOUS
<1>1. TablesTyped
  BY DEF TypeInv
<1>2. ASSUME UNCHANGED <<db, cut>> PROVE Locks'
  BY <1>2 DEF Locks
<1>3. CASE ProcessPaymentRequest
  <2>1. PICK s \in db :
              /\ s \in ScheduleRow /\ Processable(s)
              /\ db' = (db \ {s}) \cup {Done(s), Completed(s.request, s.by),
                                         Outbox(s.request, s.by)}
              /\ UNCHANGED <<lastId, put, cut, crossBorder, at, found>>
    BY <1>1, <1>3, ProcessDoes
  <2>2. \A t \in Tasks : s \notin cut[t]
    BY <2>1 DEF Processable, Locked
  <2>3. QED
    BY <2>1, <2>2 DEF Locks
<1>4. ASSUME NEW t \in Tasks, Write(t) PROVE Locks'
  <2>1. /\ Cut(t) \subseteq View(t)
        /\ \/ /\ InTransaction(t) /\ db' = db
              /\ cut' = [cut EXCEPT ![t] = cut[t] \cup (Cut(t) \cap db)]
           \/ /\ ~InTransaction(t) /\ db' = (db \ Cut(t)) \cup Put(t)
              /\ cut' = cut
    BY <1>1, <1>4, WriteDoes
  <2>2. \A u \in Tasks : u # t => cut[u] \cap Cut(t) = {}
    BY <1>4, WriteIsFree
  <2>3. CASE InTransaction(t)
    <3>1. \A u \in Tasks : cut'[u] = IF u = t THEN cut[t] \cup (Cut(t) \cap db) ELSE cut[u]
      BY <1>1, <2>1, <2>3 DEF TablesTyped
    <3>2. QED
      BY <2>1, <2>2, <2>3, <3>1 DEF Locks
  <2>4. CASE ~InTransaction(t)
    <3>1. cut[t] = {}
      BY <2>4, Outside
    <3>2. QED
      BY <2>1, <2>2, <2>4, <3>1 DEF Locks
  <2>5. QED
    BY <2>3, <2>4
<1>5. ASSUME NEW t \in Tasks, Commit(t) PROVE Locks'
  <2>1. db' = View(t) /\ cut' = [cut EXCEPT ![t] = {}]
    BY <1>5 DEF Commit
  <2>2. \A u \in Tasks : cut'[u] = IF u = t THEN {} ELSE cut[u]
    BY <1>1, <2>1 DEF TablesTyped
  <2>3. QED
    BY <2>1, <2>2 DEF Locks, View
<1>6. ASSUME NEW t \in Tasks, RollBack(t) PROVE Locks'
  <2>1. db' = db /\ cut' = [cut EXCEPT ![t] = {}]
    BY <1>6 DEF RollBack
  <2>2. \A u \in Tasks : cut'[u] = IF u = t THEN {} ELSE cut[u]
    BY <1>1, <2>1 DEF TablesTyped
  <2>3. QED
    BY <2>1, <2>2 DEF Locks
<1>7. ASSUME NEW t \in Tasks, Start(t) \/ LookUp(t) \/ RemoveAutoHold(t) \/ Complete(t)
      PROVE  Locks'
  <2>1. CASE LookUp(t)
    BY <1>1, <1>2, <2>1, LookUpDoes DEF Finds
  <2>2. QED
    BY <1>2, <1>7, <2>1 DEF Start, RemoveAutoHold, Complete
<1>8. QED
  BY <1>2, <1>3, <1>4, <1>5, <1>6, <1>7, Steps, ErrorsRollBack

-----------------------------------------------------------------------------
(* A rejection and its hold.  No handler removes a hold, and a rejection   *)
(* that has reset a request does not commit before it has looked for one   *)
(* and added it if there was none.                                         *)

HeldInv ==
    /\ \A t \in Tasks : Hold \notin cut[t]
    /\ RejectedIsHeld
    /\ \A t \in Tasks : \A q \in Requests(put[t]) :
          q.ref \in Rejections => \/ Hold \in db \cup put[t]
                                  \/ t \in Rejections /\ at[t] \in 4..8
    /\ \A t \in Rejections : at[t] = 8 /\ found[t].held => Hold \in db \cup put[t]

LEMMA HeldInitially == TablesInit => HeldInv
<1> SUFFICES ASSUME TablesInit PROVE HeldInv
  OBVIOUS
<1>1. /\ db = {Closure} /\ put = [t \in Tasks |-> {}] /\ cut = [t \in Tasks |-> {}]
      /\ \A t \in Tasks : at[t] \in {0, Absent}
  BY DEF TablesInit
<1>2. Requests({}) = {} /\ Requests({Closure}) = {}
  BY DEF Requests, In, Closure
<1>3. QED
  BY <1>1, <1>2 DEF HeldInv, RejectedIsHeld, Requests, Tasks, Absent

LEMMA HoldStays ==
    ASSUME TablesTyped, NEW t \in Tasks, Writes(t)
    PROVE  Hold \notin Cut(t)
<1>1. /\ Hold \notin RequestRow /\ Hold \notin LineRow /\ Hold \notin ScheduleRow
      /\ Hold \notin CompletedRow /\ Hold \notin OutboxRow /\ Hold # Closure
  BY DEF Hold, Closure, RequestRow, LineRow, ScheduleRow, CompletedRow, OutboxRow
<1>2. QED
  BY <1>1, StatementRows, WritingSteps

\* What a statement writes keeps to the hold.
LEMMA HeldWrite ==
    ASSUME TypeInv, HeldInv, NEW t \in Tasks, Write(t), NEW q \in Requests(Put(t)),
           q.ref \in Rejections
    PROVE  \/ t \in Rejections /\ at[t] = 3
           \/ Hold \in db \cup put[t]
<1>1. TablesTyped /\ Writes(t)
  BY DEF TypeInv, Write
<1>2. CASE t \in Payments
  BY <1>1, <1>2, RequestsPut, StepOf, TablesAssumption DEF TablesAssumption
<1>3. CASE Step(t) = "newReference" /\ q.ref = t
  BY <1>3, StepOf
<1>4. ASSUME NEW p \in View(t), Step(t) = "updateRequest", q = p
      PROVE  Hold \in db \cup put[t]
  <2>1. t \in Replies /\ t \notin Rejections
    BY <1>4, StepOf, TablesAssumption DEF TablesAssumption
  <2>2. p \in Requests(db) \/ p \in Requests(put[t])
    BY <1>4 DEF View, Requests, In
  <2>3. QED
    BY <1>4, <2>1, <2>2 DEF HeldInv, RejectedIsHeld, Requests
<1>5. QED
  BY <1>1, <1>2, <1>3, <1>4, RequestsPut

LEMMA HeldKept ==
    TypeInv /\ HeldInv /\ (TablesNext \/ UNCHANGED tablesVars) => HeldInv'
<1> SUFFICES ASSUME TypeInv, HeldInv, TablesNext \/ UNCHANGED tablesVars
             PROVE  HeldInv'
  OBVIOUS
<1>1. TablesTyped
  BY DEF TypeInv
<1>2. /\ \A q \in Requests(db) : q.ref \in Rejections => Hold \in db
      /\ \A t \in Rejections : t \in Tasks /\ at[t] \in Nat
  BY <1>1 DEF HeldInv, RejectedIsHeld, Requests, TablesTyped, Tasks
<1> DEFINE Kept(t) ==
             \A q \in Requests(put[t]) :
                q.ref \in Rejections => \/ Hold \in db \cup put[t]
                                        \/ t \in Rejections /\ at[t] \in 4..8
           Found8(t) ==
             t \in Rejections /\ at[t] = 8 /\ found[t].held => Hold \in db \cup put[t]
<1>3. ASSUME \A t \in Tasks : Hold \notin cut'[t],
             \A q \in Requests(db') : q.ref \in Rejections => Hold \in db',
             \A t \in Tasks : Kept(t)' /\ Found8(t)'
      PROVE  HeldInv'
  BY <1>3 DEF HeldInv, RejectedIsHeld, Requests, Tasks
<1>4. \A t \in Tasks : Kept(t) /\ Found8(t) /\ Hold \notin cut[t]
  BY DEF HeldInv
<1>5. CASE UNCHANGED <<db, lastId, put, cut, crossBorder, at, found, raced, outages>>
  BY <1>5 DEF HeldInv, RejectedIsHeld, Requests, In
\* A handler that does not write: its place decides.
<1>6. ASSUME NEW t \in Tasks, NEW i, UNCHANGED <<db, put, cut>>,
             at' = [at EXCEPT ![t] = i],
             \A u \in Tasks : u # t => found'[u] = found[u],
             t \in Rejections =>
                /\ at[t] \in 4..8 => i \in 4..8
                /\ i = 8 /\ found'[t].held => Hold \in View(t)
      PROVE  HeldInv'
  <2>1. \A u \in Tasks : u # t => at'[u] = at[u]
    BY <1>1, <1>6 DEF TablesTyped
  <2>2. at'[t] = i
    BY <1>1, <1>6 DEF TablesTyped
  <2>3. \A u \in Tasks : Kept(u)'
    BY <1>4, <1>6, <2>1, <2>2
  <2>4. \A u \in Tasks : Found8(u)'
    BY <1>4, <1>6, <2>1, <2>2 DEF View
  <2>5. QED
    BY <1>2, <1>3, <1>4, <1>6, <2>3, <2>4
<1>7. ASSUME NEW t \in Tasks, Start(t) PROVE HeldInv'
  <2>1. /\ at[t] = 0 /\ UNCHANGED <<db, put, cut>> /\ at' = [at EXCEPT ![t] = 1]
        /\ \A u \in Tasks : u # t => found'[u] = found[u]
    BY <1>1, <1>7 DEF Start, MoveTo, TablesTyped
  <2>2. ~(at[t] \in 4..8) /\ 1 # 8
    BY <2>1
  <2>3. QED
    BY <1>6, <2>1, <2>2
<1>8. ASSUME NEW t \in Tasks, LookUp(t) PROVE HeldInv'
  <2>1. PICK f \in Found, i \in Nat : Finds(t, f, i) /\ Looked(t, f, i)
    BY <1>1, <1>8, LookUpDoes
  <2>2. /\ UNCHANGED <<db, put, cut>> /\ at' = [at EXCEPT ![t] = i]
        /\ \A u \in Tasks : found'[u] = IF u = t THEN f ELSE found[u]
    BY <1>1, <2>1 DEF Finds, MoveTo, TablesTyped
  <2>3. ASSUME t \in Rejections
        PROVE  /\ at[t] \in 4..8 => i \in 4..8
               /\ i = 8 /\ f.held => Hold \in View(t)
    <3>1. at[t] \in {2, 5, 7, 9} /\ (at[t] = 7 => Step(t) = "findHold")
      BY <2>1, <2>3, RejectionPlace DEF Looked, Lookups
    <3>2. i = at[t] + 1 \/ (at[t] = 2 /\ i = 12)
      <4>1. t \notin Payments /\ t \notin Retentions
        BY <2>3, TablesAssumption DEF TablesAssumption
      <4>2. Looked(t, f, i)
        BY <2>1
      <4>3. QED
        BY <4>1, <4>2 DEF Looked
    <3>3. QED
      BY <2>1, <3>1, <3>2 DEF Looked
  <2>4. QED
    BY <1>6, <2>2, <2>3
<1>9. ASSUME NEW t \in Tasks, RemoveAutoHold(t) \/ Complete(t) PROVE HeldInv'
  <2>1. /\ UNCHANGED <<db, put, cut, found>> /\ at' = [at EXCEPT ![t] = at[t] + 1]
        /\ t \in Rejections => at[t] = 12
    BY <1>9, MovesOn, TablesAssumption DEF TablesAssumption
  <2>2. PICK i : i = at[t] + 1
    OBVIOUS
  <2>3. t \in Rejections => ~(at[t] \in 4..8) /\ i # 8
    BY <2>1, <2>2
  <2>4. QED
    BY <1>6, <2>1, <2>2, <2>3
<1>10. ASSUME NEW t \in Tasks, RollBack(t) PROVE HeldInv'
  <2>1. PICK i \in Nat :
          /\ put' = [put EXCEPT ![t] = {}] /\ cut' = [cut EXCEPT ![t] = {}]
          /\ at' = [at EXCEPT ![t] = i]
          /\ t \in Rejections => i = 0
          /\ UNCHANGED <<db, found>>
    BY <1>1, <1>10, RollBackDoes
  <2>2. \A u \in Tasks : /\ put'[u] = IF u = t THEN {} ELSE put[u]
                         /\ cut'[u] = IF u = t THEN {} ELSE cut[u]
                         /\ at'[u] = IF u = t THEN i ELSE at[u]
    BY <1>1, <2>1 DEF TablesTyped
  <2>3. \A u \in Tasks : Kept(u)' /\ Found8(u)'
    BY <1>4, <2>1, <2>2 DEF Requests, In
  <2>4. QED
    BY <1>2, <1>3, <1>4, <2>1, <2>2, <2>3
<1>11. CASE ProcessPaymentRequest
  <2>1. PICK s \in db :
              /\ s \in ScheduleRow
              /\ db' = (db \ {s}) \cup {Done(s), Completed(s.request, s.by),
                                         Outbox(s.request, s.by)}
              /\ UNCHANGED <<lastId, put, cut, crossBorder, at, found>>
    BY <1>1, <1>11, ProcessDoes
  <2>2. /\ Done(s) \in ScheduleRow /\ Completed(s.request, s.by) \in CompletedRow
        /\ Outbox(s.request, s.by) \in OutboxRow
    BY <2>1, ProcessedRows
  <2>3. Requests(db') \subseteq Requests(db) /\ (Hold \in db => Hold \in db')
    BY <2>1, <2>2 DEF Requests, In, ScheduleRow, CompletedRow, OutboxRow, Hold
  <2>4. \A u \in Tasks : Kept(u)' /\ Found8(u)'
    BY <1>4, <2>1, <2>3
  <2>5. QED
    BY <1>2, <1>3, <1>4, <2>1, <2>3, <2>4
<1>12. ASSUME NEW t \in Tasks, Commit(t) PROVE HeldInv'
  <2>1. /\ Step(t) = "commit" /\ db' = (db \ cut[t]) \cup put[t] /\ found' = found
        /\ \A u \in Tasks : /\ put'[u] = IF u = t THEN {} ELSE put[u]
                            /\ cut'[u] = IF u = t THEN {} ELSE cut[u]
                            /\ at'[u] = IF u = t THEN at[t] + 1 ELSE at[u]
    BY <1>1, <1>12 DEF Commit, Continue, MoveTo, View, TablesTyped
  <2>2. t \in Rejections => at[t] = 11
    BY <2>1, StepOf, TablesAssumption DEF TablesAssumption
  <2>3. Hold \in db => Hold \in db'
    BY <1>4, <2>1
  <2>4. \A q \in Requests(db') : q \in Requests(db) \/ q \in Requests(put[t])
    BY <2>1 DEF Requests, In
  <2>5. \A q \in Requests(db') : q.ref \in Rejections => Hold \in db'
    BY <1>2, <1>4, <2>1, <2>2, <2>3, <2>4
  <2>6. \A u \in Tasks : Kept(u)' /\ Found8(u)'
    BY <1>2, <1>4, <2>1, <2>2, <2>3 DEF Requests, In
  <2>7. QED
    BY <1>3, <1>4, <2>1, <2>5, <2>6
<1>13. ASSUME NEW t \in Tasks, Write(t) PROVE HeldInv'
  <2>1. /\ Writes(t)
        /\ UNCHANGED <<lastId, crossBorder, found>>
        /\ \A u \in Tasks : at'[u] = IF u = t THEN at[t] + 1 ELSE at[u]
        /\ \/ /\ InTransaction(t) /\ db' = db
              /\ cut' = [cut EXCEPT ![t] = cut[t] \cup (Cut(t) \cap db)]
              /\ put' = [put EXCEPT ![t] = (put[t] \ Cut(t)) \cup Put(t)]
           \/ /\ ~InTransaction(t) /\ db' = (db \ Cut(t)) \cup Put(t)
              /\ put' = put /\ cut' = cut
    BY <1>1, <1>13, WriteDoes DEF TablesTyped
  <2>2. Hold \notin Cut(t)
    BY <1>1, <2>1, HoldStays
  <2>3. \A q \in Requests(Put(t)) :
           q.ref \in Rejections => (t \in Rejections /\ at[t] = 3) \/ Hold \in db \cup put[t]
    BY <1>13, HeldWrite
  <2>4. t \in Rejections => /\ at[t] \in {1, 3, 4, 6, 8, 10}
                            /\ at[t] = 8 => Step(t) = "addHold"
                            /\ at[t] = 1 => Step(t) = "acknowledge"
    BY <2>1, RejectionPlace DEF Writes, Lookups
  <2>5. Step(t) = "addHold" => found[t].held \/ Put(t) = {Hold}
    BY PutIs
  <2>6. CASE InTransaction(t)
    <3>1. \A u \in Tasks : /\ put'[u] = IF u = t THEN (put[t] \ Cut(t)) \cup Put(t) ELSE put[u]
                           /\ cut'[u] = IF u = t THEN cut[t] \cup (Cut(t) \cap db) ELSE cut[u]
      BY <1>1, <2>1, <2>6 DEF TablesTyped
    <3>2. Hold \in db \cup put[t] => Hold \in db' \cup put'[t]
      BY <2>1, <2>2, <2>6, <3>1
    <3>3. ASSUME NEW q \in Requests(put'[t]), q.ref \in Rejections
          PROVE  Hold \in db' \cup put'[t] \/ (t \in Rejections /\ at'[t] \in 4..8)
      <4>1. q \in Requests(put[t]) \/ q \in Requests(Put(t))
        BY <3>1, <3>3 DEF Requests, In
      <4>2. CASE t \in Rejections /\ at[t] = 3
        BY <2>1, <4>2
      <4>3. CASE Hold \in db \cup put[t]
        BY <3>2, <4>3
      <4>4. CASE t \in Rejections /\ at[t] \in 4..8
        <5>1. CASE at[t] = 8
          BY <1>4, <2>4, <2>5, <3>1, <3>2, <4>4, <5>1
        <5>2. CASE at[t] # 8
          BY <2>1, <4>4, <5>2
        <5>3. QED
          BY <5>1, <5>2
      <4>5. QED
        BY <1>4, <2>3, <3>3, <4>1, <4>2, <4>3, <4>4
    <3>4. \A u \in Tasks : u # t => Kept(u)' /\ Found8(u)'
      BY <1>4, <2>1, <2>6, <3>1
    <3>5. Kept(t)'
      BY <3>3
    <3>6. Found8(t)'
      BY <1>2, <2>1, <2>4
    <3>7. QED
      BY <1>2, <1>3, <1>4, <2>1, <2>2, <2>6, <3>1, <3>4, <3>5, <3>6
  <2>7. CASE ~InTransaction(t)
    <3>1. put[t] = {} /\ View(t) = db
      BY <2>7, Outside
    <3>2. Hold \in db => Hold \in db'
      BY <2>1, <2>2, <2>7
    <3>3. ~(t \in Rejections /\ at[t] = 3)
      BY <2>7, RejectionPlace, TablesAssumption DEF InTransaction, TablesAssumption
    <3>4. \A q \in Requests(db') : q \in Requests(db) \/ q \in Requests(Put(t))
      BY <2>1, <2>7 DEF Requests, In
    <3>5. \A q \in Requests(db') : q.ref \in Rejections => Hold \in db'
      BY <1>2, <2>3, <3>1, <3>2, <3>3, <3>4
    <3>6. t \in Rejections => at[t] = 1
      BY <2>7, StepOf, TablesAssumption DEF InTransaction, TablesAssumption
    <3>7. Requests(put'[t]) = {}
      BY <2>1, <2>7, <3>1 DEF Requests, In
    <3>8. \A u \in Tasks : Kept(u)' /\ Found8(u)'
      BY <1>2, <1>4, <2>1, <2>7, <3>2, <3>6, <3>7
    <3>9. QED
      BY <1>3, <1>4, <2>1, <2>7, <3>5, <3>8
  <2>8. QED
    BY <2>6, <2>7
<1>14. QED
  BY <1>5, <1>7, <1>8, <1>9, <1>10, <1>11, <1>12, <1>13, Steps, ErrorsRollBack

-----------------------------------------------------------------------------
(* Retention.  As long as no other handler writes to the agreement, what   *)
(* the removal has yet to delete is not referred to by what is left.       *)

NotRefused(r) ==
    LET Removed(i) == i \in found[r].requests
        CompletedRows == In("completedPaymentRequests", View(r))
    IN  /\ \A c \in CompletedRows : Removed(c.request) => c.id \in found[r].completed
        /\ at[r] \in 5..8 =>
              \A o \in In("outbox", View(r)) : o.completed \notin found[r].completed
        /\ at[r] \in 6..8 => \A c \in CompletedRows : ~Removed(c.request)
        /\ at[r] \in 7..8 => \A s \in Schedules(View(r)) : ~Removed(s.request)
        /\ at[r] = 8 => \A l \in Lines(View(r)) : ~Removed(l.request)

RetentionInv ==
    /\ outages \in Nat
    /\ RetentionFailsOnlyIfRaced
    /\ \A r \in Retentions : put[r] = {}
    /\ \A r \in Retentions : at[r] \in 4..8 /\ r \notin raced => NotRefused(r)

LEMMA RetentionInitially == TablesInit => RetentionInv
<1> SUFFICES ASSUME TablesInit PROVE RetentionInv
  OBVIOUS
<1>1. /\ put = [t \in Tasks |-> {}] /\ outages = 0
      /\ \A t \in Tasks : at[t] \in {0, Absent}
  BY DEF TablesInit
<1>2. QED
  BY <1>1 DEF RetentionInv, RetentionFailsOnlyIfRaced, Tasks, Absent, Failed

\* The statements of the removal.
LEMMA RemovalStep ==
    ASSUME TypeInv, NEW r \in Retentions, Writes(r)
    PROVE  /\ Put(r) = {} /\ r \in Tasks /\ InTransaction(r)
           /\ \/ at[r] = 1 /\ Step(r) = "removeClosure"
              \/ at[r] = 4 /\ Step(r) = "removeOutbox"
              \/ at[r] = 5 /\ Step(r) = "removeCompleted"
              \/ at[r] = 6 /\ Step(r) = "removeSchedules"
              \/ at[r] = 7 /\ Step(r) = "removeLines"
              \/ at[r] = 8 /\ Step(r) = "removeRequests"
<1>1. r \in Tasks /\ r \notin Resets
  BY TablesAssumption DEF Tasks, TablesAssumption
<1>2. \/ at[r] = 1 /\ Step(r) = "removeClosure"
      \/ at[r] = 4 /\ Step(r) = "removeOutbox"
      \/ at[r] = 5 /\ Step(r) = "removeCompleted"
      \/ at[r] = 6 /\ Step(r) = "removeSchedules"
      \/ at[r] = 7 /\ Step(r) = "removeLines"
      \/ at[r] = 8 /\ Step(r) = "removeRequests"
  BY RetentionPlace DEF Writes, Lookups
<1>3. QED
  BY <1>1, <1>2, PutIs DEF InTransaction

\* Nothing that is left refers to what a statement of the removal deletes.
LEMMA RemovalInOrder ==
    ASSUME TypeInv, RetentionInv, NEW r \in Retentions, Writes(r), r \notin raced
    PROVE  ~BreaksReference(r) /\ ~InvoiceNumberTaken(r)
<1>1. /\ Put(r) = {} /\ r \in Tasks
      /\ \/ at[r] = 1 /\ Step(r) = "removeClosure"
         \/ at[r] = 4 /\ Step(r) = "removeOutbox"
         \/ at[r] = 5 /\ Step(r) = "removeCompleted"
         \/ at[r] = 6 /\ Step(r) = "removeSchedules"
         \/ at[r] = 7 /\ Step(r) = "removeLines"
         \/ at[r] = 8 /\ Step(r) = "removeRequests"
  BY RemovalStep
<1>2. TablesTyped /\ (at[r] \in 4..8 => NotRefused(r))
  BY DEF TypeInv, RetentionInv
<1>3. SUFFICES ASSUME NEW p \in Cut(r), NEW c \in View(r), Refers(c, p)
               PROVE  FALSE
  BY <1>1 DEF BreaksReference, InvoiceNumberTaken, Inserts, Gone
<1>4. /\ p.table = "paymentRequests" \/ p.table = "completedPaymentRequests"
      /\ p.table = "paymentRequests" =>
            /\ c.table \in {"invoiceLines", "schedule", "completedPaymentRequests"}
            /\ c.request = p.id
      /\ p.table = "completedPaymentRequests" => c.table = "outbox" /\ c.completed = p.id
  BY <1>3 DEF Refers
<1>5. TablesTyped
  BY DEF TypeInv
<1>6. CASE Step(r) = "removeCompleted"
  <2>1. p.table = "completedPaymentRequests" /\ p.id \in found[r].completed
    BY <1>6, CutIs DEF In
  <2>2. c \in In("outbox", View(r)) /\ c.completed = p.id
    BY <1>4, <2>1 DEF In
  <2>3. at[r] = 5 /\ NotRefused(r)
    BY <1>1, <1>2, <1>6
  <2>4. QED
    BY <2>1, <2>2, <2>3 DEF NotRefused
<1>7. CASE Step(r) = "removeRequests"
  <2>1. p.table = "paymentRequests" /\ p.id \in found[r].requests
    BY <1>7, CutIs DEF RequestRows, In
  <2>2. /\ c.request = p.id
        /\ \/ c \in In("completedPaymentRequests", View(r))
           \/ c \in Schedules(View(r)) \/ c \in Lines(View(r))
    BY <1>4, <2>1 DEF In, Schedules, Lines
  <2>3. at[r] = 8 /\ NotRefused(r)
    BY <1>1, <1>2, <1>7
  <2>4. QED
    BY <2>1, <2>2, <2>3 DEF NotRefused
<1>8. CASE Step(r) \in {"removeClosure", "removeOutbox", "removeSchedules", "removeLines"}
  <2>1. \/ p.table = "frnAgreementClosed" \/ p.table = "outbox"
        \/ p.table = "schedule" \/ p.table = "invoiceLines"
    BY <1>8, CutIs DEF In, Of
  <2>2. QED
    BY <1>4, <2>1
<1>9. QED
  BY <1>1, <1>6, <1>7, <1>8

\* What is left after a statement of the removal.
LEMMA RemovalGoesOn ==
    ASSUME TypeInv, RetentionInv, NEW r \in Retentions, Write(r), r \notin raced,
           at[r] \in 4..7
    PROVE  NotRefused(r)'
<1>1. /\ Put(r) = {} /\ r \in Tasks /\ InTransaction(r)
      /\ \/ at[r] = 4 /\ Step(r) = "removeOutbox"
         \/ at[r] = 5 /\ Step(r) = "removeCompleted"
         \/ at[r] = 6 /\ Step(r) = "removeSchedules"
         \/ at[r] = 7 /\ Step(r) = "removeLines"
  BY RemovalStep DEF Write
<1>2. TablesTyped /\ NotRefused(r) /\ put[r] = {}
  BY DEF TypeInv, RetentionInv
<1>3. View(r)' = View(r) \ Cut(r) /\ at'[r] = at[r] + 1 /\ found' = found
  <2>1. /\ db' = db /\ cut' = [cut EXCEPT ![r] = cut[r] \cup (Cut(r) \cap db)]
        /\ put' = [put EXCEPT ![r] = (put[r] \ Cut(r)) \cup Put(r)]
        /\ at' = [at EXCEPT ![r] = at[r] + 1] /\ found' = found
    BY <1>1, <1>2, WriteDoes
  <2>2. /\ cut'[r] = cut[r] \cup (Cut(r) \cap db) /\ put'[r] = {}
        /\ at'[r] = at[r] + 1
    BY <1>1, <1>2, <2>1 DEF TablesTyped
  <2>3. QED
    BY <1>2, <2>1, <2>2 DEF View
<1>4. /\ In("outbox", View(r))' \subseteq In("outbox", View(r)) \ Cut(r)
      /\ Schedules(View(r))' \subseteq Schedules(View(r)) \ Cut(r)
      /\ Lines(View(r))' \subseteq Lines(View(r)) \ Cut(r)
      /\ In("completedPaymentRequests", View(r))'
            \subseteq In("completedPaymentRequests", View(r)) \ Cut(r)
  BY <1>3 DEF In, Schedules, Lines
<1>5. /\ at[r] = 4 => \A o \in In("outbox", View(r)) :
                        o.completed \in found[r].completed => o \in Cut(r)
      /\ at[r] = 5 => \A c \in In("completedPaymentRequests", View(r)) :
                        c.request \in found[r].requests => c \in Cut(r)
      /\ at[r] = 6 => \A s \in Schedules(View(r)) :
                        s.request \in found[r].requests => s \in Cut(r)
      /\ at[r] = 7 => \A l \in Lines(View(r)) :
                        l.request \in found[r].requests => l \in Cut(r)
  BY <1>1, <1>2, CutIs DEF NotRefused, Of, Schedules, Lines
<1>6. at[r] \in {4, 5, 6, 7} /\ at'[r] = at[r] + 1 /\ found'[r] = found[r]
  BY <1>1, <1>3
<1>7. QED
  BY <1>2, <1>4, <1>5, <1>6 DEF NotRefused

LEMMA RetentionKept ==
    TypeInv /\ RetentionInv /\ (TablesNext \/ UNCHANGED tablesVars) => RetentionInv'
<1> SUFFICES ASSUME TypeInv, RetentionInv, TablesNext \/ UNCHANGED tablesVars
             PROVE  RetentionInv'
  OBVIOUS
<1>1. TablesTyped /\ Retentions \subseteq Tasks
  BY DEF TypeInv, Tasks
<1>2. /\ outages \in Nat
      /\ \A r \in Retentions : /\ put[r] = {}
                               /\ at[r] = Failed => r \in raced \/ outages > 0
                               /\ at[r] \in 4..8 /\ r \notin raced => NotRefused(r)
  BY DEF RetentionInv, RetentionFailsOnlyIfRaced
<1>3. ASSUME outages' \in Nat, outages' >= outages, raced \subseteq raced',
             \A r \in Retentions :
                /\ put'[r] = {}
                /\ at'[r] = Failed => at[r] = Failed \/ r \in raced' \/ outages' > 0
                /\ at'[r] \in 4..8 /\ r \notin raced' => NotRefused(r)'
      PROVE  RetentionInv'
  BY <1>2, <1>3 DEF RetentionInv, RetentionFailsOnlyIfRaced
<1>4. ASSUME NEW r \in Retentions, db' = db, cut'[r] = cut[r], put'[r] = put[r],
             at'[r] = at[r], found'[r] = found[r], raced \subseteq raced'
      PROVE  /\ put'[r] = {}
             /\ at'[r] = Failed => at[r] = Failed
             /\ at'[r] \in 4..8 /\ r \notin raced' => NotRefused(r)'
  BY <1>2, <1>4 DEF NotRefused, View
\* A retention that another handler writes beside.
<1>5. ASSUME NEW r \in Retentions, put'[r] = put[r], at'[r] = at[r],
             raced' = raced \cup {u \in Retentions : Running(u)}
                \/ \E t \in Tasks \ {r} : Touch(t)
      PROVE  /\ put'[r] = {}
             /\ at'[r] = Failed => at[r] = Failed
             /\ at'[r] \in 4..8 /\ r \notin raced' => NotRefused(r)'
  <2>1. at[r] \in 4..8 => Running(r)
    BY RetentionPlace
  <2>2. at'[r] \in 4..8 => r \in raced'
    BY <1>5, <2>1 DEF Touch
  <2>3. QED
    BY <1>2, <1>5, <2>2
<1>6. CASE UNCHANGED <<db, lastId, put, cut, crossBorder, at, found, raced, outages>>
  <2>1. outages' \in Nat /\ outages' >= outages /\ raced \subseteq raced'
    BY <1>2, <1>6
  <2>2. QED
    BY <1>3, <1>4, <1>6, <2>1
<1>7. CASE ProcessPaymentRequest
  <2>1. /\ UNCHANGED <<put, at, outages>>
        /\ raced' = raced \cup {u \in Retentions : Running(u)}
    BY <1>7 DEF ProcessPaymentRequest
  <2>2. outages' \in Nat /\ outages' >= outages /\ raced \subseteq raced'
    BY <1>2, <2>1
  <2>3. QED
    BY <1>3, <1>5, <2>1, <2>2
\* A handler that does not write.
<1>8. ASSUME NEW t \in Tasks, NEW i \in Nat, UNCHANGED <<db, put, cut, raced, outages>>,
             at' = [at EXCEPT ![t] = i],
             \A u \in Tasks : u # t => found'[u] = found[u],
             t \in Retentions => i # Failed /\ (i \in 4..8 => NotRefused(t)')
      PROVE  RetentionInv'
  <2>1. \A u \in Tasks : at'[u] = IF u = t THEN i ELSE at[u]
    BY <1>1, <1>8 DEF TablesTyped
  <2>2. outages' \in Nat /\ outages' >= outages /\ raced \subseteq raced'
    BY <1>2, <1>8
  <2>3. QED
    BY <1>1, <1>2, <1>3, <1>4, <1>8, <2>1, <2>2
<1>9. ASSUME NEW t \in Tasks, Start(t) PROVE RetentionInv'
  <2>1. /\ UNCHANGED <<db, put, cut, raced, outages>> /\ at' = [at EXCEPT ![t] = 1]
        /\ \A u \in Tasks : u # t => found'[u] = found[u]
    BY <1>1, <1>9 DEF Start, MoveTo, TablesTyped
  <2>2. 1 \in Nat /\ 1 # Failed /\ ~(1 \in 4..8)
    BY DEF Failed
  <2>3. QED
    BY <1>8, <2>1, <2>2
<1>10. ASSUME NEW t \in Tasks, LookUp(t) PROVE RetentionInv'
  <2>1. PICK f \in Found, i \in Nat : Finds(t, f, i) /\ Looked(t, f, i)
    BY <1>1, <1>10, LookUpDoes
  <2>2. /\ UNCHANGED <<db, put, cut, raced, outages>> /\ at' = [at EXCEPT ![t] = i]
        /\ \A u \in Tasks : found'[u] = IF u = t THEN f ELSE found[u]
    BY <1>1, <2>1 DEF Finds, MoveTo, TablesTyped
  <2>3. ASSUME t \in Retentions
        PROVE  i # Failed /\ (i \in 4..8 => NotRefused(t)')
    <3>1. \/ at[t] = 2 /\ i \in {3, 9}
          \/ at[t] = 3 /\ i = 4 /\ Step(t) = "findCompleteds"
      <4>1. t \notin Payments /\ t \notin Rejections
        BY <2>3, TablesAssumption DEF TablesAssumption
      <4>2. \/ at[t] = 2
            \/ at[t] = 3 /\ Step(t) = "findCompleteds"
        BY <2>1, <2>3, RetentionPlace DEF Looked, Lookups
      <4>3. QED
        BY <2>1, <4>1, <4>2 DEF Looked
    <3>2. i # Failed
      BY <3>1 DEF Failed
    <3>3. ASSUME i = 4 PROVE NotRefused(t)'
      <4>1. /\ f.completed = Ids({c \in In("completedPaymentRequests", View(t)) :
                                     c.request \in f.requests})
            /\ at'[t] = 4 /\ View(t)' = View(t) /\ found'[t] = f
        BY <1>1, <2>1, <2>2, <3>1, <3>3 DEF Looked, View, TablesTyped
      <4>2. \A c \in In("completedPaymentRequests", View(t)) :
               c.request \in f.requests => c.id \in f.completed
        BY <4>1 DEF Ids
      <4>3. QED
        BY <4>1, <4>2 DEF NotRefused
    <3>4. QED
      BY <3>1, <3>2, <3>3
  <2>4. QED
    BY <1>8, <2>2, <2>3
<1>11. ASSUME NEW t \in Tasks, RemoveAutoHold(t) \/ Complete(t) PROVE RetentionInv'
  <2>1. /\ UNCHANGED <<db, put, cut, raced, outages, found>>
        /\ at' = [at EXCEPT ![t] = at[t] + 1]
        /\ t \in Retentions => at[t] = 10
    BY <1>11, MovesOn, TablesAssumption DEF TablesAssumption
  <2>2. PICK i \in Nat : i = at[t] + 1
    BY <1>1 DEF TablesTyped
  <2>3. t \in Retentions => i # Failed /\ ~(i \in 4..8)
    BY <2>1, <2>2 DEF Failed
  <2>4. QED
    BY <1>8, <2>1, <2>2, <2>3
\* An error: a retention fails on a row it did not expect only if it was raced.
<1>12. ASSUME NEW t \in Tasks,
              NotFound(t) \/ WriteFails(t) \/ Deadlock(t) \/ Outage(t)
       PROVE  RetentionInv'
  <2>1. RollBack(t)
    BY <1>12, ErrorsRollBack
  <2>2. /\ UNCHANGED <<db, found>>
        /\ \A u \in Tasks : u # t => put'[u] = put[u] /\ cut'[u] = cut[u] /\ at'[u] = at[u]
        /\ put'[t] = {}
    BY <1>1, <2>1 DEF RollBack, MoveTo, TablesTyped
  <2>3. outages' \in Nat /\ outages' >= outages /\ raced \subseteq raced'
    BY <1>2, <1>12 DEF NotFound, WriteFails, Deadlock, Outage
  <2>4. ASSUME t \in Retentions
        PROVE  /\ t \in raced' \/ outages' > 0
               /\ ~(at'[t] \in 4..8)
    <3>1. ASSUME NotFound(t) PROVE FALSE
      <4>1. Step(t) \in {"findRequest", "findCompleted"}
        BY <3>1 DEF NotFound
      <4>2. QED
        BY <2>4, <4>1, StepOf, TablesAssumption DEF TablesAssumption
    <3>2. WriteFails(t) => t \in raced'
      BY <2>3, <2>4, RemovalInOrder DEF WriteFails
    <3>3. Deadlock(t) => t \in raced'
      BY <2>4 DEF Deadlock
    <3>4. Outage(t) => outages' > 0
      BY <1>2 DEF Outage
    <3>5. t \notin Payments \cup Rejections /\ t \notin Replies
      BY <2>4, TablesAssumption DEF TablesAssumption
    <3>6. at'[t] = Failed
      BY <1>1, <2>1, <3>5, RollBackDoes DEF TablesTyped
    <3>7. QED
      BY <1>12, <3>1, <3>2, <3>3, <3>4, <3>6 DEF Failed
  <2>5. QED
    BY <1>1, <1>3, <1>4, <2>2, <2>3, <2>4
<1>13. ASSUME NEW t \in Tasks, Write(t) PROVE RetentionInv'
  <2>1. /\ Touch(t) /\ outages' = outages /\ Writes(t)
        /\ \A u \in Tasks : u # t => put'[u] = put[u] /\ at'[u] = at[u]
    BY <1>1, <1>13 DEF Write, Continue, MoveTo, TablesTyped
  <2>2. outages' \in Nat /\ outages' >= outages /\ raced \subseteq raced'
    BY <1>2, <2>1 DEF Touch
  <2>3. ASSUME t \in Retentions
        PROVE  /\ put'[t] = {} /\ at'[t] # Failed
               /\ at'[t] \in 4..8 /\ t \notin raced' => NotRefused(t)'
    <3>1. /\ Put(t) = {} /\ InTransaction(t) /\ at[t] \in {1, 4, 5, 6, 7, 8}
      BY <2>1, <2>3, RemovalStep
    <3>2. put'[t] = {} /\ at'[t] = at[t] + 1
      BY <1>1, <1>2, <1>13, <2>3, <3>1, WriteDoes DEF TablesTyped
    <3>3. at[t] \in 4..7 /\ t \notin raced' => NotRefused(t)'
      BY <1>13, <2>2, <2>3, RemovalGoesOn
    <3>4. QED
      BY <3>1, <3>2, <3>3 DEF Failed
  <2>4. QED
    BY <1>1, <1>3, <1>5, <2>1, <2>2, <2>3
<1>14. ASSUME NEW t \in Tasks, Commit(t) PROVE RetentionInv'
  <2>1. /\ Touch(t) /\ outages' = outages /\ Step(t) = "commit"
        /\ \A u \in Tasks : /\ put'[u] = IF u = t THEN {} ELSE put[u]
                            /\ at'[u] = IF u = t THEN at[t] + 1 ELSE at[u]
    BY <1>1, <1>14 DEF Commit, Continue, MoveTo, TablesTyped
  <2>2. outages' \in Nat /\ outages' >= outages /\ raced \subseteq raced'
    BY <1>2, <2>1 DEF Touch
  <2>3. t \in Retentions => at[t] = 9
    BY <2>1, StepOf, TablesAssumption DEF TablesAssumption
  <2>4. t \in Retentions => put'[t] = {} /\ at'[t] # Failed /\ ~(at'[t] \in 4..8)
    BY <2>1, <2>3 DEF Failed
  <2>5. QED
    BY <1>1, <1>3, <1>5, <2>1, <2>2, <2>4
<1>15. QED
  BY <1>6, <1>7, <1>9, <1>10, <1>11, <1>12, <1>13, <1>14, Steps

-----------------------------------------------------------------------------
(* What a step does to each handler.                                       *)

LEMMA Written ==
    ASSUME TypeInv, NEW t \in Tasks, Write(t)
    PROVE  /\ Writes(t) /\ UNCHANGED <<lastId, found>>
           /\ \A u \in Tasks : at'[u] = IF u = t THEN at[t] + 1 ELSE at[u]
           /\ \A u \in Tasks : u # t => put'[u] = put[u] /\ cut'[u] = cut[u]
           /\ \/ /\ InTransaction(t) /\ db' = db
                 /\ cut'[t] = cut[t] \cup (Cut(t) \cap db)
                 /\ put'[t] = (put[t] \ Cut(t)) \cup Put(t)
                 /\ View(t)' = (View(t) \ Cut(t)) \cup Put(t)
              \/ /\ ~InTransaction(t) /\ db' = (db \ Cut(t)) \cup Put(t)
                 /\ put[t] = {} /\ cut[t] = {} /\ View(t) = db
                 /\ put'[t] = {} /\ cut'[t] = {}
<1>1. TablesTyped
  BY DEF TypeInv
<1>2. /\ Writes(t) /\ UNCHANGED <<lastId, found>>
      /\ \A u \in Tasks : at'[u] = IF u = t THEN at[t] + 1 ELSE at[u]
  BY <1>1, WriteDoes DEF TablesTyped
<1>3. CASE InTransaction(t)
  <2>1. /\ db' = db
        /\ \A u \in Tasks : u # t => put'[u] = put[u] /\ cut'[u] = cut[u]
        /\ cut'[t] = cut[t] \cup (Cut(t) \cap db)
        /\ put'[t] = (put[t] \ Cut(t)) \cup Put(t)
    BY <1>1, <1>3, WriteDoes DEF TablesTyped
  <2>2. View(t)' = (View(t) \ Cut(t)) \cup Put(t)
    BY <2>1 DEF View
  <2>3. QED
    BY <1>2, <1>3, <2>1, <2>2
<1>4. CASE ~InTransaction(t)
  <2>1. put' = put /\ cut' = cut /\ db' = (db \ Cut(t)) \cup Put(t)
    BY <1>1, <1>4, WriteDoes
  <2>2. put[t] = {} /\ cut[t] = {} /\ View(t) = db
    BY <1>4, Outside
  <2>3. QED
    BY <1>2, <1>4, <2>1, <2>2
<1>5. QED
  BY <1>3, <1>4

LEMMA Committed ==
    ASSUME TypeInv, NEW t \in Tasks, Commit(t)
    PROVE  /\ db' = (db \ cut[t]) \cup put[t] /\ found' = found
           /\ \A u \in Tasks : at'[u] = IF u = t THEN at[t] + 1 ELSE at[u]
           /\ \A u \in Tasks : /\ put'[u] = IF u = t THEN {} ELSE put[u]
                               /\ cut'[u] = IF u = t THEN {} ELSE cut[u]
           /\ \/ t \in Payments /\ at[t] = 5
              \/ t \in Rejections /\ at[t] = 11
              \/ t \in Replies /\ at[t] = 6
              \/ t \in Retentions /\ at[t] = 9
           /\ lastId' \in Nat /\ lastId <= lastId' /\ lastId' \in {lastId, lastId + 1}
           /\ \A q \in Requests(put[t]) : q.id <= lastId'
           /\ lastId' # lastId => \E q \in Requests(put[t]) : q.id = lastId + 1
<1>1. TablesTyped /\ Numbered
  BY DEF TypeInv
<1>2. /\ db' = (db \ cut[t]) \cup put[t] /\ found' = found
      /\ \A u \in Tasks : at'[u] = IF u = t THEN at[t] + 1 ELSE at[u]
      /\ \A u \in Tasks : /\ put'[u] = IF u = t THEN {} ELSE put[u]
                          /\ cut'[u] = IF u = t THEN {} ELSE cut[u]
  BY <1>1, CommitDoes DEF TablesTyped, View
<1>3. \/ t \in Payments /\ at[t] = 5
      \/ t \in Rejections /\ at[t] = 11
      \/ t \in Replies /\ at[t] = 6
      \/ t \in Retentions /\ at[t] = 9
  BY StepOf DEF Commit
<1>4. /\ lastId' \in {lastId, lastId + 1} /\ lastId \in Nat
      /\ \A q \in Requests(put[t]) : q.id <= lastId'
      /\ lastId' # lastId => \E q \in Requests(put[t]) : q.id = lastId'
  BY <1>1, CommitDoes DEF TablesTyped
<1>5. QED
  BY <1>2, <1>3, <1>4

\* A step that does not write: a handler moves on, or it rolls back.
Moved(t, i) ==
    /\ UNCHANGED <<db, lastId>>
    /\ \A u \in Tasks : at'[u] = IF u = t THEN i ELSE at[u]
    /\ \A u \in Tasks : u # t => /\ put'[u] = put[u] /\ cut'[u] = cut[u]
                                 /\ found'[u] = found[u]

LEMMA Started ==
    ASSUME TypeInv, NEW t \in Tasks, Start(t)
    PROVE  /\ Moved(t, 1) /\ at[t] = 0 /\ put'[t] = put[t] /\ cut'[t] = cut[t]
           /\ found'[t].requests = {}
<1>1. TablesTyped
  BY DEF TypeInv
<1>2. QED
  BY <1>1 DEF Start, MoveTo, Moved, TablesTyped

LEMMA LookedUp ==
    ASSUME TypeInv, NEW t \in Tasks, LookUp(t)
    PROVE  \E f \in Found, i \in Nat :
              /\ Looked(t, f, i) /\ Moved(t, i) /\ found'[t] = f
              /\ put'[t] = put[t] /\ cut'[t] = cut[t]
<1>1. TablesTyped
  BY DEF TypeInv
<1>2. PICK f \in Found, i \in Nat : Finds(t, f, i) /\ Looked(t, f, i)
  BY <1>1, LookUpDoes
<1>3. /\ Moved(t, i) /\ found'[t] = f /\ put'[t] = put[t] /\ cut'[t] = cut[t]
  BY <1>1, <1>2 DEF Finds, MoveTo, Moved, TablesTyped
<1>4. QED
  BY <1>2, <1>3

LEMMA MovedOn ==
    ASSUME TypeInv, NEW t \in Tasks, RemoveAutoHold(t) \/ Complete(t)
    PROVE  \E i \in Nat :
              /\ Moved(t, i) /\ i = at[t] + 1
              /\ found'[t] = found[t] /\ put'[t] = put[t] /\ cut'[t] = cut[t]
              /\ \/ t \in Replies /\ at[t] = 5
                 \/ t \in Payments /\ at[t] = 6
                 \/ t \in Rejections /\ at[t] = 12
                 \/ t \in Replies /\ at[t] = 7
                 \/ t \in Retentions /\ at[t] = 10
                 \/ t \in Resets /\ at[t] = 7
<1>1. TablesTyped
  BY DEF TypeInv
<1>2. Moved(t, at[t] + 1)
  BY <1>1, MovesOn DEF Moved, TablesTyped
<1>3. at[t] + 1 \in Nat
  BY <1>1 DEF TablesTyped
<1>4. QED
  BY <1>2, <1>3, MovesOn

LEMMA RolledBack ==
    ASSUME TypeInv, NEW t \in Tasks, RollBack(t)
    PROVE  \E i \in Nat :
              /\ Moved(t, i) /\ found'[t] = found[t] /\ put'[t] = {} /\ cut'[t] = {}
              /\ i = IF t \in Payments \cup Rejections THEN 0
                     ELSE IF t \in Replies THEN IF Step(t) = "complete" THEN 0 ELSE 7
                     ELSE Failed
<1>1. TablesTyped
  BY DEF TypeInv
<1>2. PICK i \in Nat :
              /\ put' = [put EXCEPT ![t] = {}] /\ cut' = [cut EXCEPT ![t] = {}]
              /\ at' = [at EXCEPT ![t] = i]
              /\ i = IF t \in Payments \cup Rejections THEN 0
                     ELSE IF t \in Replies THEN IF Step(t) = "complete" THEN 0 ELSE 7
                     ELSE Failed
              /\ UNCHANGED <<db, lastId, crossBorder, found>>
  BY <1>1, RollBackDoes
<1>3. Moved(t, i) /\ found'[t] = found[t] /\ put'[t] = {} /\ cut'[t] = {}
  BY <1>1, <1>2 DEF Moved, TablesTyped
<1>4. QED
  BY <1>2, <1>3

\* The pod replaces a schedule by the same one, done.
LEMMA Processed ==
    ASSUME TypeInv, ProcessPaymentRequest
    PROVE  /\ UNCHANGED <<lastId, put, cut, at, found>>
           /\ Requests(db') = Requests(db) /\ Lines(db') = Lines(db)
           /\ Closure \in db' => Closure \in db
           /\ \E s, z : /\ s \in Schedules(db) /\ z.request = s.request
                        /\ Schedules(db') = (Schedules(db) \ {s}) \cup {z}
<1>1. TablesTyped /\ db \in SUBSET Row
  BY DEF TypeInv, TablesTyped
<1>2. PICK s \in db :
        /\ s \in ScheduleRow
        /\ db' = (db \ {s}) \cup {Done(s), Completed(s.request, s.by),
                                   Outbox(s.request, s.by)}
        /\ UNCHANGED <<lastId, put, cut, at, found>>
  BY <1>1, ProcessDoes
<1> DEFINE c == Completed(s.request, s.by)
           o == Outbox(s.request, s.by)
<1>3. /\ Done(s) \in ScheduleRow /\ c \in CompletedRow /\ o \in OutboxRow
      /\ Done(s).request = s.request
  BY <1>2, ProcessedRows, RewrittenRows
<1> HIDE DEF c, o
<1>4. /\ s.table = "schedule" /\ Done(s).table = "schedule"
      /\ c.table = "completedPaymentRequests" /\ o.table = "outbox"
      /\ Closure.table = "frnAgreementClosed"
  BY <1>2, <1>3 DEF ScheduleRow, CompletedRow, OutboxRow, Closure
<1>5. db' = (db \ {s}) \cup {Done(s), c, o}
  BY <1>2 DEF c, o
<1>6. /\ Requests(db') = Requests(db) /\ Lines(db') = Lines(db)
      /\ Closure \in db' => Closure \in db
  BY <1>4, <1>5 DEF Requests, Lines, In
<1>7. /\ s \in Schedules(db)
      /\ Schedules(db') = (Schedules(db) \ {s}) \cup {Done(s)}
  BY <1>2, <1>4, <1>5 DEF Schedules, In
<1>8. QED
  BY <1>2, <1>3, <1>6, <1>7

-----------------------------------------------------------------------------
(* Requests.  A transaction has inserted the next request, if there was    *)
(* none, or it has written anew one that it has locked; so there is one    *)
(* request at the most.                                                    *)

RequestsInv ==
    /\ \A t \in Tasks : \A q \in Requests(put[t]) :
          \/ t \in Payments /\ q.id = lastId + 1
          \/ \E p \in Requests(cut[t]) : p.id = q.id
    /\ \A t \in Payments : cut[t] = {}
    /\ \A t \in Payments : put[t] # {} =>
          /\ at[t] \in 3..5
          /\ Requests(put[t]) # {} /\ Requests(db) = {}
          /\ \A u \in Payments : put[u] # {} => u = t
    /\ \A t \in Payments : at[t] \in 3..4 => put[t] # {}
    /\ \A t \in Replies \cup Retentions : \A i \in found[t].requests : i <= lastId
    /\ \A t \in Tasks : \A p, q \in Requests(put[t]) : p = q
    /\ \A p, q \in Requests(db) : p = q

LEMMA RequestsInitially == TablesInit => RequestsInv
<1> SUFFICES ASSUME TablesInit PROVE RequestsInv
  OBVIOUS
<1>1. /\ db = {Closure} /\ put = [t \in Tasks |-> {}] /\ cut = [t \in Tasks |-> {}]
      /\ \A t \in Tasks : at[t] \in {0, Absent} /\ found[t].requests = {}
      /\ Payments \cup Replies \cup Retentions \subseteq Tasks
  BY DEF TablesInit, Tasks
<1>2. Requests({}) = {} /\ Requests({Closure}) = {}
  BY DEF Requests, In, Closure
<1>3. QED
  BY <1>1, <1>2 DEF RequestsInv, Absent

\* What a handler sees: it is one request, and it has been numbered unless the
\* handler is the one that inserted it.
LEMMA RequestSeen ==
    ASSUME TypeInv, Locks, RequestsInv, NEW t \in Tasks
    PROVE  /\ \A p, q \in Requests(View(t)) : p = q
           /\ t \notin Payments => \A q \in Requests(View(t)) : q.id <= lastId
           /\ t \notin Payments => \A q \in Requests(View(t)) :
                                     \E p \in Requests(db) : p.id = q.id
<1>1. \A q \in Requests(View(t)) :
         \/ q \in Requests(db) /\ q \notin cut[t]
         \/ q \in Requests(put[t])
  BY DEF Requests, In, View
<1>2. \A q \in Requests(db) : q.id <= lastId
  BY DEF TypeInv, Numbered
<1>3. \A q \in Requests(put[t]) :
         \/ t \in Payments /\ Requests(db) = {}
         \/ \E p \in Requests(db) : p \in cut[t] /\ p.id = q.id
  <2>1. \A p \in Requests(cut[t]) : p \in Requests(db) /\ p \in cut[t]
    BY DEF Locks, Requests, In
  <2>2. \A q \in Requests(put[t]) : put[t] # {}
    BY DEF Requests, In
  <2>3. QED
    BY <2>1, <2>2 DEF RequestsInv
<1>4. QED
  BY <1>1, <1>2, <1>3 DEF RequestsInv

\* What a payment writes.
LEMMA PaymentWrites ==
    ASSUME TypeInv, NEW t \in Payments, Writes(t)
    PROVE  /\ t \in Tasks /\ InTransaction(t) /\ at[t] \in 2..4 /\ Cut(t) = {}
           /\ at[t] = 2 => Put(t) = {Request(lastId + 1, t)} /\ Inserts(t)
           /\ at[t] = 3 => Put(t) = {InvoiceLine(lastId + 1, t, crossBorder)}
           /\ at[t] = 4 => Put(t) = {Schedule(lastId + 1, t)}
           /\ at[t] = 2 <=> Step(t) = "insertRequest"
<1>1. t \in Tasks /\ t \notin Resets
  BY TablesAssumption DEF Tasks, TablesAssumption
<1>2. \/ at[t] = 2 /\ Step(t) = "insertRequest"
      \/ at[t] = 3 /\ Step(t) = "saveLines"
      \/ at[t] = 4 /\ Step(t) = "insertSchedule"
  BY PaymentPlace DEF Writes, Lookups
<1>3. crossBorder \in BOOLEAN
  BY DEF TypeInv, TablesTyped
<1>4. Step(t) = "saveLines" => Put(t) = {InvoiceLine(lastId + 1, t, crossBorder)}
  <2>1. crossBorder = (crossBorder /\ t \in Payments)
    BY <1>3
  <2>2. QED
    BY <2>1, PutIs
<1>5. QED
  BY <1>1, <1>2, <1>4, CutIs, PutIs DEF InTransaction, Inserts

LEMMA RequestsKept ==
    TypeInv /\ Locks /\ RequestsInv /\ (TablesNext \/ UNCHANGED tablesVars) => RequestsInv'
<1> SUFFICES ASSUME TypeInv, Locks, RequestsInv, TablesNext \/ UNCHANGED tablesVars
             PROVE  RequestsInv'
  OBVIOUS
<1> DEFINE Known(t) == \A q \in Requests(put[t]) :
                          \/ t \in Payments /\ q.id = lastId + 1
                          \/ \E p \in Requests(cut[t]) : p.id = q.id
           Saving(t) == /\ cut[t] = {}
                        /\ put[t] # {} => /\ at[t] \in 3..5
                                          /\ Requests(put[t]) # {} /\ Requests(db) = {}
                        /\ at[t] \in 3..4 => put[t] # {}
           OneSaving == \A t, u \in Payments : put[t] # {} /\ put[u] # {} => u = t
           FoundOld(t) == \A i \in found[t].requests : i <= lastId
           One(rows) == \A p, q \in Requests(rows) : p = q
<1>1. /\ TablesTyped /\ Numbered
      /\ \A t \in Payments \cup Replies \cup Retentions : t \in Tasks
      /\ lastId \in Nat /\ \A t \in Tasks : found[t].requests \in SUBSET Nat
  BY ViewType DEF TypeInv, Tasks, TablesTyped
<1>2. /\ \A t \in Tasks : Known(t) /\ One(put[t])
      /\ \A t \in Payments : Saving(t)
      /\ OneSaving /\ One(db)
      /\ \A t \in Replies \cup Retentions : FoundOld(t)
  BY DEF RequestsInv
<1>3. ASSUME \A t \in Tasks : Known(t)' /\ One(put'[t]),
             \A t \in Payments : Saving(t)', OneSaving', One(db'),
             \A t \in Replies \cup Retentions : FoundOld(t)'
      PROVE  RequestsInv'
  BY <1>3 DEF RequestsInv
<1>4. Requests({}) = {}
  BY DEF Requests, In
<1>5. CASE UNCHANGED <<db, lastId, put, cut, at, found>>
  BY <1>5 DEF RequestsInv, Requests, In
<1>6. CASE ProcessPaymentRequest
  <2>1. UNCHANGED <<lastId, put, cut, at, found>> /\ Requests(db') = Requests(db)
    BY <1>6, Processed
  <2>2. QED
    BY <1>2, <1>3, <2>1
\* A handler moves on, with what it has written or without.
<1>7. ASSUME NEW t \in Tasks, NEW i \in Nat, Moved(t, i),
             \/ put'[t] = put[t] /\ cut'[t] = cut[t]
             \/ put'[t] = {} /\ cut'[t] = {},
             t \in Payments => /\ put'[t] # {} => i \in 3..5
                               /\ i \in 3..4 => put'[t] # {},
             t \in Replies \cup Retentions => \A j \in found'[t].requests : j <= lastId
      PROVE  RequestsInv'
  <2>1. \A u \in Tasks : Known(u)' /\ One(put'[u])
    <3>1. ASSUME NEW u \in Tasks, put'[u] = put[u], cut'[u] = cut[u]
          PROVE  Known(u)' /\ One(put'[u])
      BY <1>2, <1>7, <3>1 DEF Moved
    <3>2. ASSUME put'[t] = {} PROVE Known(t)' /\ One(put'[t])
      BY <1>4, <3>2
    <3>3. QED
      BY <1>7, <3>1, <3>2 DEF Moved
  <2>2. \A u \in Payments : Saving(u)'
    BY <1>1, <1>2, <1>7 DEF Moved
  <2>3. OneSaving'
    BY <1>1, <1>2, <1>7 DEF Moved
  <2>4. One(db') /\ \A u \in Replies \cup Retentions : FoundOld(u)'
    BY <1>1, <1>2, <1>7 DEF Moved
  <2>5. QED
    BY <1>3, <2>1, <2>2, <2>3, <2>4
<1>8. ASSUME NEW t \in Tasks, Start(t) PROVE RequestsInv'
  <2>1. /\ Moved(t, 1) /\ at[t] = 0 /\ put'[t] = put[t] /\ cut'[t] = cut[t]
        /\ found'[t].requests = {}
    BY <1>8, Started
  <2>2. t \in Payments => put[t] = {}
    BY <1>2, <2>1
  <2>3. 1 \in Nat /\ ~(1 \in 3..4)
    OBVIOUS
  <2>4. QED
    BY <1>7, <2>1, <2>2, <2>3
<1>9. ASSUME NEW t \in Tasks, LookUp(t) PROVE RequestsInv'
  <2>1. PICK f \in Found, i \in Nat :
              /\ Looked(t, f, i) /\ Moved(t, i) /\ found'[t] = f
              /\ put'[t] = put[t] /\ cut'[t] = cut[t]
    BY <1>9, LookedUp
  <2>2. ASSUME t \in Payments PROVE put'[t] = {} /\ i \in {2, 5}
    <3>1. at[t] = 1 /\ t \notin Rejections /\ t \notin Retentions
      BY <2>1, <2>2, PaymentPlace, TablesAssumption DEF Looked, Lookups, TablesAssumption
    <3>2. put[t] = {}
      BY <1>2, <2>2, <3>1
    <3>3. i = 2 \/ i = 5
      BY <2>1, <3>1 DEF Looked
    <3>4. QED
      BY <2>1, <3>2, <3>3
  <2>3. ASSUME t \in Replies \cup Retentions, NEW j \in f.requests
        PROVE  j <= lastId
    <3>1. t \notin Payments /\ t \notin Rejections
      BY <2>3, TablesAssumption DEF TablesAssumption
    <3>2. CASE Step(t) \in {"findRequest", "findRequests"}
      <4>1. f.requests = Ids(Requests(View(t)))
        BY <2>1, <3>2 DEF Looked
      <4>2. QED
        BY <2>3, <3>1, <4>1, RequestSeen DEF Ids
    <3>3. CASE Step(t) \notin {"findRequest", "findRequests"}
      <4>1. Step(t) # "findRejected"
        BY <3>1, StepOf
      <4>2. f.requests = found[t].requests
        BY <2>1, <3>3, <4>1 DEF Looked
      <4>3. QED
        BY <1>2, <2>3, <4>2
    <3>4. QED
      BY <3>2, <3>3
  <2>4. QED
    BY <1>7, <2>1, <2>2, <2>3
<1>10. ASSUME NEW t \in Tasks, RemoveAutoHold(t) \/ Complete(t) PROVE RequestsInv'
  <2>1. PICK i \in Nat :
              /\ Moved(t, i) /\ i = at[t] + 1
              /\ found'[t] = found[t] /\ put'[t] = put[t] /\ cut'[t] = cut[t]
              /\ \/ t \in Replies \/ t \in Rejections \/ t \in Retentions \/ t \in Resets
                 \/ t \in Payments /\ at[t] = 6
    BY <1>10, MovedOn
  <2>2. t \in Payments => at[t] = 6
    BY <2>1, TablesAssumption DEF TablesAssumption
  <2>3. t \in Payments => put'[t] = {} /\ i = 7
    BY <1>2, <2>1, <2>2
  <2>4. t \in Replies \cup Retentions => FoundOld(t)
    BY <1>2
  <2>5. QED
    BY <1>7, <2>1, <2>3, <2>4
<1>11. ASSUME NEW t \in Tasks, RollBack(t) PROVE RequestsInv'
  <2>1. PICK i \in Nat :
              /\ Moved(t, i) /\ found'[t] = found[t] /\ put'[t] = {} /\ cut'[t] = {}
              /\ t \in Payments => i = 0
    BY <1>11, RolledBack
  <2>2. t \in Replies \cup Retentions => FoundOld(t)
    BY <1>2
  <2>3. QED
    BY <1>7, <2>1, <2>2
<1>12. ASSUME NEW t \in Tasks, Commit(t) PROVE RequestsInv'
  <2>1. /\ db' = (db \ cut[t]) \cup put[t] /\ found' = found
        /\ \A u \in Tasks : at'[u] = IF u = t THEN at[t] + 1 ELSE at[u]
        /\ \A u \in Tasks : /\ put'[u] = IF u = t THEN {} ELSE put[u]
                            /\ cut'[u] = IF u = t THEN {} ELSE cut[u]
        /\ lastId' \in Nat /\ lastId <= lastId'
        /\ lastId' # lastId => \E q \in Requests(put[t]) : q.id = lastId + 1
        /\ t \in Payments => at[t] = 5
    BY <1>12, Committed, TablesAssumption DEF TablesAssumption
  \* Only a payment gives out a number.
  <2>2. ASSUME lastId' # lastId PROVE t \in Payments /\ put[t] # {}
    <3>1. PICK q \in Requests(put[t]) : q.id = lastId + 1
      BY <2>1, <2>2
    <3>2. ~\E p \in Requests(cut[t]) : p.id = q.id
      <4>1. \A p \in Requests(cut[t]) : p \in Requests(db)
        BY DEF Locks, Requests, In
      <4>2. QED
        BY <1>1, <3>1, <4>1 DEF Numbered
    <3>3. q \in put[t]
      BY DEF Requests, In
    <3>4. QED
      BY <1>2, <3>1, <3>2, <3>3
  <2>3. \A u \in Tasks : Known(u)' /\ One(put'[u])
    <3>1. ASSUME NEW u \in Tasks, NEW q \in Requests(put'[u])
          PROVE  \/ u \in Payments /\ q.id = lastId' + 1
                 \/ \E p \in Requests(cut'[u]) : p.id = q.id
      <4>1. u # t /\ q \in Requests(put[u]) /\ q \in put[u] /\ cut'[u] = cut[u]
        BY <1>4, <2>1, <3>1 DEF Requests, In
      <4>2. u \in Payments => lastId' = lastId
        BY <1>2, <2>2, <4>1
      <4>3. QED
        BY <1>2, <4>1, <4>2
    <3>2. QED
      BY <1>2, <1>4, <2>1, <3>1
  <2>4. Requests(db') \subseteq Requests(View(t))
    BY <2>1 DEF View
  <2>5. ASSUME NEW u \in Payments, u # t, put[u] # {} PROVE Requests(db') = {}
    <3>1. Requests(db) = {} /\ (t \in Payments => put[t] = {})
      BY <1>2, <2>5
    <3>2. Requests(View(t)) = {}
      <4>1. CASE t \in Payments
        BY <3>1, <4>1 DEF View, Requests, In
      <4>2. CASE t \notin Payments
        BY <3>1, <4>2, RequestSeen
      <4>3. QED
        BY <4>1, <4>2
    <3>3. QED
      BY <2>4, <3>2
  <2>6. \A u \in Payments : Saving(u)'
    <3>1. ASSUME NEW u \in Payments PROVE Saving(u)'
      <4>1. CASE u = t
        BY <1>1, <2>1, <4>1
      <4>2. CASE u # t
        BY <1>1, <1>2, <2>1, <2>5, <4>2
      <4>3. QED
        BY <4>1, <4>2
    <3>2. QED
      BY <3>1
  <2>7. OneSaving'
    BY <1>1, <1>2, <2>1
  <2>8. One(db')
    BY <2>4, RequestSeen
  <2>9. \A u \in Replies \cup Retentions : FoundOld(u)'
    BY <1>1, <1>2, <2>1
  <2>10. QED
    BY <1>3, <2>3, <2>6, <2>7, <2>8, <2>9
<1>13. ASSUME NEW t \in Tasks, Write(t) PROVE RequestsInv'
  <2>1. /\ Writes(t) /\ UNCHANGED <<lastId, found>>
        /\ \A u \in Tasks : at'[u] = IF u = t THEN at[t] + 1 ELSE at[u]
        /\ \A u \in Tasks : u # t => put'[u] = put[u] /\ cut'[u] = cut[u]
        /\ \/ /\ InTransaction(t) /\ db' = db
              /\ cut'[t] = cut[t] \cup (Cut(t) \cap db)
              /\ put'[t] = (put[t] \ Cut(t)) \cup Put(t)
           \/ /\ ~InTransaction(t) /\ db' = (db \ Cut(t)) \cup Put(t)
              /\ put[t] = {} /\ cut[t] = {} /\ View(t) = db
              /\ put'[t] = {} /\ cut'[t] = {}
    BY <1>13, Written
  <2>2. /\ Blockers(t) = {} /\ ~InvoiceNumberTaken(t)
    BY <1>13 DEF Write
  <2>3. Cut(t) \subseteq View(t)
    BY <1>1, CutType
  <2>4. \A u \in Replies \cup Retentions : FoundOld(u)'
    BY <1>2, <2>1
  <2>5. CASE t \in Payments
    <3>1. /\ InTransaction(t) /\ at[t] \in 2..4 /\ Cut(t) = {}
          /\ at[t] = 2 => Put(t) = {Request(lastId + 1, t)} /\ Inserts(t)
          /\ at[t] = 3 => Put(t) = {InvoiceLine(lastId + 1, t, crossBorder)}
          /\ at[t] = 4 => Put(t) = {Schedule(lastId + 1, t)}
      BY <2>1, <2>5, PaymentWrites
    <3>2. /\ db' = db /\ cut'[t] = {} /\ put'[t] = put[t] \cup Put(t)
      BY <1>2, <2>1, <2>5, <3>1
    <3>3. /\ Request(lastId + 1, t).table = "paymentRequests"
          /\ Request(lastId + 1, t).id = lastId + 1
          /\ InvoiceLine(lastId + 1, t, crossBorder).table = "invoiceLines"
          /\ Schedule(lastId + 1, t).table = "schedule"
      BY DEF Request, InvoiceLine, Schedule
    <3>4. CASE at[t] = 2
      <4>1. put[t] = {} /\ put'[t] = {Request(lastId + 1, t)}
        BY <1>2, <2>5, <3>1, <3>2, <3>4
      <4>2. Requests(put'[t]) = {Request(lastId + 1, t)} /\ put'[t] # {}
        BY <3>3, <4>1 DEF Requests, In
      <4>3. Requests(db) = {}
        <5>1. View(t) = db
          BY <1>2, <2>5, <4>1 DEF View
        <5>2. QED
          BY <2>2, <3>1, <3>4, <5>1 DEF InvoiceNumberTaken, Requests
      <4>4. \A u \in Payments : u # t => put[u] = {}
        <5>1. ASSUME NEW u \in Payments, u # t, put[u] # {} PROVE FALSE
          <6>1. PICK q \in Requests(put[u]) : TRUE
            BY <1>2, <5>1
          <6>2. q \in In("paymentRequests", cut[u] \cup put[u])
            BY <6>1 DEF Requests, In
          <6>3. u \in Blockers(t)
            BY <1>1, <3>1, <3>4, <5>1, <6>2 DEF Blockers
          <6>4. QED
            BY <2>2, <6>3
        <5>2. QED
          BY <5>1
      <4>5. \A u \in Tasks : Known(u)' /\ One(put'[u])
        <5>1. Known(t)' /\ One(put'[t])
          BY <2>1, <2>5, <3>3, <4>2
        <5>2. ASSUME NEW u \in Tasks, u # t PROVE Known(u)' /\ One(put'[u])
          <6>1. Known(u) /\ One(put[u]) /\ put'[u] = put[u] /\ cut'[u] = cut[u]
            BY <1>2, <2>1, <5>2
          <6>2. QED
            BY <2>1, <6>1
        <5>3. QED
          BY <5>1, <5>2
      <4>6. \A u \in Payments : Saving(u)'
        <5>1. Saving(t)'
          BY <2>1, <3>2, <3>4, <4>2, <4>3
        <5>2. \A u \in Payments : u # t => Saving(u)'
          BY <1>1, <1>2, <2>1, <3>2, <4>4
        <5>3. QED
          BY <5>1, <5>2
      <4>7. OneSaving'
        BY <1>1, <2>1, <4>4
      <4>8. QED
        BY <1>2, <1>3, <2>4, <3>2, <4>5, <4>6, <4>7
    <3>5. CASE at[t] \in 3..4
      <4>1. put[t] # {} /\ Requests(put[t]) # {} /\ Requests(db) = {}
        BY <1>2, <2>5, <3>5
      <4>2. Requests(put'[t]) = Requests(put[t]) /\ put'[t] # {}
        BY <3>1, <3>2, <3>3, <3>5, <4>1 DEF Requests, In
      <4>3. \A u \in Tasks : Known(u)' /\ One(put'[u])
        <5>1. Known(t)' /\ One(put'[t])
          <6>1. Known(t) /\ One(put[t]) /\ cut'[t] = cut[t]
            BY <1>2, <2>5, <3>2
          <6>2. QED
            BY <2>1, <4>2, <6>1
        <5>2. ASSUME NEW u \in Tasks, u # t PROVE Known(u)' /\ One(put'[u])
          <6>1. Known(u) /\ One(put[u]) /\ put'[u] = put[u] /\ cut'[u] = cut[u]
            BY <1>2, <2>1, <5>2
          <6>2. QED
            BY <2>1, <6>1
        <5>3. QED
          BY <5>1, <5>2
      <4>4. \A u \in Payments : Saving(u)'
        <5>1. Saving(t)'
          BY <2>1, <3>2, <3>5, <4>1, <4>2
        <5>2. \A u \in Payments : u # t => Saving(u)'
          BY <1>1, <1>2, <2>1, <3>2
        <5>3. QED
          BY <5>1, <5>2
      <4>5. OneSaving'
        BY <1>1, <1>2, <2>1, <2>5, <4>1
      <4>6. QED
        BY <1>2, <1>3, <2>4, <3>2, <4>3, <4>4, <4>5
    <3>6. QED
      BY <3>1, <3>4, <3>5
  <2>6. CASE t \notin Payments
    \* A request that it writes is one that it replaces.
    <3>1. \A q \in Requests(Put(t)) :
             \E p \in Requests(Cut(t)) : p \in Requests(View(t)) /\ q.id = p.id
      BY <1>1, <2>1, <2>3, <2>6, RequestsPut DEF Requests, In
    <3>2. \A p, q \in Requests(View(t)) : p = q
      BY RequestSeen
    <3>3. One(Put(t))
      <4>1. ASSUME NEW p \in Requests(Put(t)), NEW q \in Requests(Put(t)) PROVE p = q
        <5>1. CASE Step(t) = "newReference"
          <6>1. /\ \A r \in Put(t) : \E x \in Cut(t) : r = Referred(x, t)
                /\ Cut(t) \subseteq Requests(View(t))
            BY <5>1, CutIs, PutIs DEF RequestRows, Requests
          <6>2. QED
            BY <3>2, <4>1, <6>1 DEF Requests, In
        <5>2. CASE Step(t) # "newReference"
          <6>1. p \in Requests(View(t)) /\ q \in Requests(View(t))
            BY <1>1, <2>1, <2>3, <2>6, <4>1, <5>2, RequestsPut DEF Requests, In
          <6>2. QED
            BY <3>2, <6>1
        <5>3. QED
          BY <5>1, <5>2
      <4>2. QED
        BY <4>1
    <3>4. CASE InTransaction(t)
      <4>1. /\ db' = db /\ cut'[t] = cut[t] \cup (Cut(t) \cap db)
            /\ put'[t] = (put[t] \ Cut(t)) \cup Put(t)
        BY <2>1, <3>4
      <4>2. ASSUME NEW q \in Requests(put'[t])
            PROVE  \E p \in Requests(cut'[t]) : p.id = q.id
        <5>1. CASE q \in Requests(put[t])
          BY <1>2, <2>6, <4>1, <5>1 DEF Requests, In
        <5>2. CASE q \in Requests(Put(t))
          <6>1. PICK p \in Requests(Cut(t)) : p \in Requests(View(t)) /\ q.id = p.id
            BY <3>1, <5>2
          <6>2. CASE p \in db
            BY <4>1, <6>1, <6>2 DEF Requests, In
          <6>3. CASE p \in Requests(put[t])
            BY <1>2, <2>6, <4>1, <6>1, <6>3 DEF Requests, In
          <6>4. QED
            BY <6>1, <6>2, <6>3 DEF View, Requests, In
        <5>3. QED
          BY <4>1, <4>2, <5>1, <5>2 DEF Requests, In
      <4>3. One(put'[t])
        <5>1. ASSUME NEW p \in Requests(put[t]), p \notin Cut(t), NEW q \in Requests(Put(t))
              PROVE  FALSE
          <6>1. PICK x \in Requests(Cut(t)) : x \in Requests(View(t))
            BY <3>1
          <6>2. p \in Requests(View(t))
            BY DEF Requests, In, View
          <6>3. QED
            BY <3>2, <5>1, <6>1, <6>2 DEF Requests, In
        <5>2. \A p \in Requests(put'[t]) :
                 (p \in Requests(put[t]) /\ p \notin Cut(t)) \/ p \in Requests(Put(t))
          BY <4>1 DEF Requests, In
        <5>3. QED
          BY <1>2, <3>3, <5>1, <5>2
      <4>4. \A u \in Tasks : Known(u)' /\ One(put'[u])
        BY <1>2, <2>1, <4>2, <4>3
      <4>5. (\A u \in Payments : Saving(u)') /\ OneSaving'
        BY <1>1, <1>2, <2>1, <2>6, <4>1
      <4>6. QED
        BY <1>2, <1>3, <2>4, <4>1, <4>4, <4>5
    <3>5. CASE ~InTransaction(t)
      <4>1. /\ db' = (db \ Cut(t)) \cup Put(t) /\ View(t) = db
            /\ put[t] = {} /\ cut[t] = {} /\ put'[t] = {} /\ cut'[t] = {}
        BY <2>1, <3>5
      <4>2. \A u \in Tasks : put'[u] = put[u] /\ cut'[u] = cut[u]
        BY <2>1, <4>1
      <4>3. Requests(db) = {} => Requests(db') = {}
        BY <3>1, <4>1 DEF Requests, In
      <4>4. One(db')
        <5>1. ASSUME NEW p \in Requests(db), p \notin Cut(t), NEW q \in Requests(Put(t))
              PROVE  FALSE
          BY <3>1, <3>2, <4>1, <5>1 DEF Requests, In
        <5>2. \A p \in Requests(db') :
                 (p \in Requests(db) /\ p \notin Cut(t)) \/ p \in Requests(Put(t))
          BY <4>1 DEF Requests, In
        <5>3. QED
          BY <1>2, <3>3, <5>1, <5>2
      <4>5. \A u \in Tasks : Known(u)' /\ One(put'[u])
        BY <1>2, <2>1, <4>2
      <4>6. (\A u \in Payments : Saving(u)') /\ OneSaving'
        BY <1>1, <1>2, <2>1, <2>6, <4>2, <4>3
      <4>7. QED
        BY <1>3, <2>4, <4>4, <4>5, <4>6
    <3>6. QED
      BY <3>4, <3>5
  <2>7. QED
    BY <2>5, <2>6
<1>14. QED
  BY <1>5, <1>6, <1>8, <1>9, <1>10, <1>11, <1>12, <1>13, Steps, ErrorsRollBack

-----------------------------------------------------------------------------
(* Lines.  A reply has locked the request whose lines it replaces, so what *)
(* another handler commits meanwhile does not touch them: when it commits, *)
(* the lines that count are its own.                                       *)

LinesOf(q, rows) == {l \in Lines(rows) : l.request = q.id}

\* The lines of q that count are those of one handler.
OfOne(q, rows) ==
    /\ \E l \in LinesOf(q, rows) : ~l.invalid
    /\ \A l, m \in LinesOf(q, rows) : ~l.invalid /\ ~m.invalid => l.by = m.by

\* A handler that has locked the request it found.
Owns(t) ==
    \/ t \in Replies /\ at[t] \in 3..6
    \/ t \in Retentions /\ at[t] = 9

PaymentLines(t) ==
    /\ \A l \in Lines(put[t]) : l.request = lastId + 1 /\ l.by = t /\ ~l.invalid
    /\ at[t] \in 4..5 /\ put[t] # {} => Lines(put[t]) # {}

HandlerLines(t) ==
    \A l \in Lines(put[t]) \cup Lines(cut[t]) :
        l.request \in found[t].requests /\ t \in Replies \cup Retentions

LocksRequests(t) ==
    Owns(t) => \A q \in Requests(db) : q.id \in found[t].requests => q \in cut[t]

ReplyLines(t) ==
    /\ at[t] \notin 3..6 => put[t] = {} /\ cut[t] = {}
    /\ at[t] \in 4..6 =>
          \A q \in Requests(db) : q.id \in found[t].requests =>
              \A l \in LinesOf(q, View(t)) : ~l.invalid => l.by = t
    /\ at[t] \in 5..6 =>
          \A i \in found[t].requests : \E l \in Lines(put[t]) : l.request = i /\ ~l.invalid

RetentionLines(t) == put[t] = {} /\ (at[t] \in 0..2 => Lines(cut[t]) = {})

LinesInv ==
    /\ \A l \in Lines(db) : l.request <= lastId
    /\ \A q \in Requests(db) : OfOne(q, db)
    /\ \A t \in Payments : PaymentLines(t)
    /\ \A t \in Tasks \ Payments : HandlerLines(t)
    /\ \A t \in Tasks : LocksRequests(t)
    /\ \A t \in Replies : ReplyLines(t)
    /\ \A t \in Retentions : RetentionLines(t)

LEMMA LinesInitially == TablesInit => LinesInv
<1> SUFFICES ASSUME TablesInit PROVE LinesInv
  OBVIOUS
<1>1. /\ db = {Closure} /\ put = [t \in Tasks |-> {}] /\ cut = [t \in Tasks |-> {}]
      /\ \A t \in Tasks : at[t] \in {0, Absent} /\ found[t].requests = {}
      /\ Payments \cup Replies \cup Retentions \subseteq Tasks
  BY DEF TablesInit, Tasks
<1>2. /\ Requests({}) = {} /\ Requests({Closure}) = {}
      /\ Lines({}) = {} /\ Lines({Closure}) = {}
  BY DEF Requests, Lines, In, Closure
<1>3. QED
  BY <1>1, <1>2
  DEF LinesInv, PaymentLines, HandlerLines, LocksRequests, ReplyLines, RetentionLines, Owns,
      Absent

\* What a reply writes.
ReplyLine(i, t) == InvoiceLine(i, t, FALSE)

LEMMA ReplyWrites ==
    ASSUME TypeInv, NEW t \in Replies, Writes(t)
    PROVE  /\ t \in Tasks /\ t \notin Payments /\ InTransaction(t) /\ at[t] \in 2..4
           /\ at[t] = 2 => Cut(t) = RequestRows(t) /\ Put(t) = Cut(t)
           /\ at[t] = 3 => /\ Cut(t) = {l \in Lines(View(t)) : l.request \in found[t].requests}
                           /\ Put(t) = {Invalid(l) : l \in Cut(t)}
           /\ at[t] = 4 => /\ Cut(t) = {}
                           /\ Put(t) = {ReplyLine(i, t) : i \in found[t].requests}
<1>1. t \in Tasks /\ t \notin Payments /\ t \notin Resets
  BY TablesAssumption DEF Tasks, TablesAssumption
<1>2. \/ at[t] = 2 /\ Step(t) = "updateRequest"
      \/ at[t] = 3 /\ Step(t) = "invalidateLines"
      \/ at[t] = 4 /\ Step(t) = "saveLines"
  BY ReplyPlace DEF Writes, Lookups
<1>3. Step(t) = "saveLines" => Put(t) = {ReplyLine(i, t) : i \in found[t].requests}
  <2>1. PICK xb \in BOOLEAN : xb = (crossBorder /\ t \in Payments)
    OBVIOUS
  <2>2. Step(t) = "saveLines" =>
           Put(t) = {InvoiceLine(i, t, xb) : i \in found[t].requests}
    BY <1>1, <2>1, PutIs
  <2>3. xb = FALSE
    BY <1>1, <2>1
  <2>4. QED
    BY <2>2, <2>3 DEF ReplyLine
<1>4. /\ at[t] = 2 => Cut(t) = RequestRows(t) /\ Put(t) = Cut(t)
      /\ at[t] = 3 => /\ Cut(t) = {l \in Lines(View(t)) : l.request \in found[t].requests}
                      /\ Put(t) = {Invalid(l) : l \in Cut(t)}
  BY <1>2, CutIs, PutIs DEF Of, Lines
<1>5. at[t] = 4 => /\ Cut(t) = {}
                   /\ Put(t) = {ReplyLine(i, t) : i \in found[t].requests}
  BY <1>2, <1>3, CutIs
<1>6. QED
  BY <1>1, <1>2, <1>4, <1>5 DEF InTransaction

\* The lines a handler replaces or writes are those of the request it found.
LEMMA LinesWritten ==
    ASSUME TypeInv, NEW t \in Tasks, t \notin Payments, Writes(t)
    PROVE  \A l \in Lines(Put(t)) \cup Lines(Cut(t)) :
              /\ l.request \in found[t].requests
              /\ (t \in Replies /\ at[t] \in 3..4) \/ (t \in Retentions /\ at[t] = 7)
<1>1. TablesTyped
  BY DEF TypeInv
<1> SUFFICES ASSUME NEW l \in Lines(Put(t)) \cup Lines(Cut(t))
             PROVE  /\ l.request \in found[t].requests
                    /\ (t \in Replies /\ at[t] \in 3..4) \/ (t \in Retentions /\ at[t] = 7)
  OBVIOUS
<1>2. l \in Put(t) \cup Cut(t) /\ l.table = "invoiceLines"
  BY DEF Lines, In
<1>3. Step(t) \in {"saveLines", "invalidateLines", "removeLines"}
  <2>1. /\ \A r \in RequestRow : r.table = "paymentRequests"
        /\ \A s \in ScheduleRow : s.table = "schedule"
        /\ \A c \in CompletedRow : c.table = "completedPaymentRequests"
        /\ \A o \in OutboxRow : o.table = "outbox"
        /\ Closure.table = "frnAgreementClosed" /\ Hold.table = "holds"
    BY DEF RequestRow, ScheduleRow, CompletedRow, OutboxRow, Closure, Hold
  <2>2. QED
    BY <1>1, <1>2, <2>1, StatementRows, WritingSteps
<1>4. CASE Step(t) = "removeLines"
  <2>1. t \in Retentions /\ at[t] = 7 /\ Put(t) = {}
    BY <1>4, StepOf, PutIs
  <2>2. Cut(t) = Of("invoiceLines", found[t].requests, View(t))
    BY <1>4, CutIs
  <2>3. QED
    BY <1>2, <2>1, <2>2 DEF Of
<1>5. CASE Step(t) \in {"saveLines", "invalidateLines"}
  <2>1. t \in Replies /\ at[t] \in 3..4
    BY <1>1, <1>5, StepOf
  <2>2. /\ at[t] = 3 => /\ Cut(t) = {x \in Lines(View(t)) : x.request \in found[t].requests}
                        /\ Put(t) = {Invalid(x) : x \in Cut(t)}
        /\ at[t] = 4 => /\ Cut(t) = {}
                        /\ Put(t) = {ReplyLine(i, t) : i \in found[t].requests}
    BY <2>1, ReplyWrites
  <2>3. \A x \in Lines(View(t)) : Invalid(x).request = x.request
    BY <1>1, ViewType, InTable, RewrittenRows
  <2>4. \A i \in found[t].requests : ReplyLine(i, t).request = i
    BY DEF ReplyLine, InvoiceLine
  <2>5. CASE at[t] = 3
    BY <1>2, <2>1, <2>2, <2>3, <2>5
  <2>6. CASE at[t] = 4
    BY <1>2, <2>1, <2>2, <2>4, <2>6
  <2>7. QED
    BY <2>1, <2>5, <2>6
<1>6. QED
  BY <1>3, <1>4, <1>5

\* A request that a handler has locked is not written by another.
LEMMA LockedStays ==
    ASSUME TypeInv, Locks, RequestsInv, NEW t \in Tasks,
           \A p \in Requests(db) : p.id \in found[t].requests => p \in cut[t],
           NEW u \in Tasks, u # t, Write(u) \/ Commit(u),
           NEW q \in Requests(db'), q.id \in found[t].requests, q.id <= lastId
    PROVE  q \in Requests(db)
<1>1. TablesTyped /\ Numbered /\ lastId \in Nat
  BY DEF TypeInv, TablesTyped
<1>2. ASSUME NEW p \in Requests(db), p.id = q.id, p \in cut[u]
      PROVE  FALSE
  BY <1>2 DEF Locks
<1>3. CASE Commit(u)
  <2>1. db' = (db \ cut[u]) \cup put[u]
    BY <1>3, Committed
  <2>2. q \in Requests(db) \/ q \in Requests(put[u])
    BY <2>1 DEF Requests, In
  <2>3. ASSUME q \in Requests(put[u]) PROVE FALSE
    <3>1. q.id # lastId + 1
      BY <1>1, ViewType
    <3>2. PICK p \in Requests(cut[u]) : p.id = q.id
      BY <2>3, <3>1 DEF RequestsInv
    <3>3. p \in Requests(db) /\ p \in cut[u]
      BY DEF Locks, Requests, In
    <3>4. QED
      BY <1>2, <3>2, <3>3
  <2>4. QED
    BY <2>2, <2>3
<1>4. CASE Write(u)
  <2>1. CASE InTransaction(u)
    BY <1>4, <2>1, Written
  <2>2. CASE ~InTransaction(u)
    <3>1. db' = (db \ Cut(u)) \cup Put(u) /\ View(u) = db /\ Writes(u)
      BY <1>4, <2>2, Written
    <3>2. q \in Requests(db) \/ q \in Requests(Put(u))
      BY <3>1 DEF Requests, In
    <3>3. ASSUME q \in Requests(Put(u)) PROVE FALSE
      <4>1. q.id # lastId + 1
        BY <1>1, ViewType
      <4>2. PICK p \in Requests(Cut(u)) : p \in View(u) /\ q.id = p.id
        BY <1>1, <3>1, <3>3, <4>1, RequestsPut
      <4>3. p \in Requests(db) /\ p \in Cut(u)
        BY <3>1, <4>2 DEF Requests, In
      <4>4. p \in cut[t]
        BY <4>2, <4>3
      <4>5. QED
        BY <1>4, <4>3, <4>4, WriteIsFree
    <3>4. QED
      BY <3>2, <3>3
  <2>3. QED
    BY <2>1, <2>2
<1>5. QED
  BY <1>3, <1>4

\* So it is with what a reply or a removal owns.
LEMMA OwnedStays ==
    ASSUME TypeInv, Locks, RequestsInv, LinesInv,
           NEW t \in Tasks, Owns(t), NEW u \in Tasks, u # t, Write(u) \/ Commit(u),
           NEW q \in Requests(db'), q.id \in found[t].requests
    PROVE  q \in Requests(db)
<1>1. \A p \in Requests(db) : p.id \in found[t].requests => p \in cut[t]
  BY DEF LinesInv, LocksRequests
<1>2. q.id <= lastId
  BY DEF Owns, RequestsInv
<1>3. QED
  BY <1>1, <1>2, LockedStays

\* Lines that count the same.
LEMMA SameLines ==
    ASSUME NEW p, NEW q, NEW a, NEW b, LinesOf(q, a) = LinesOf(p, b), OfOne(p, b)
    PROVE  OfOne(q, a)
  BY DEF OfOne

\* Only a payment that has inserted a request gives out a number.
LEMMA NumberGiven ==
    ASSUME TypeInv, Locks, RequestsInv, NEW t \in Tasks, Commit(t), lastId' # lastId
    PROVE  t \in Payments /\ put[t] # {}
<1>1. TablesTyped /\ Numbered /\ lastId \in Nat
  BY DEF TypeInv, TablesTyped
<1>2. PICK q \in Requests(put[t]) : q.id = lastId + 1
  BY Committed
<1>3. \A p \in Requests(cut[t]) : p \in Requests(db)
  BY DEF Locks, Requests, In
<1>4. ~\E p \in Requests(cut[t]) : p.id = q.id
  BY <1>1, <1>2, <1>3 DEF Numbered
<1>5. q \in put[t]
  BY DEF Requests, In
<1>6. QED
  BY <1>2, <1>4, <1>5 DEF RequestsInv

\* What is committed leaves the lines of a request that another has locked alone.
LEMMA LinesApart ==
    ASSUME TypeInv, Locks, RequestsInv, LinesInv,
           NEW t \in Tasks, Commit(t), NEW u \in Tasks, u # t, Owns(u),
           NEW q \in Requests(db), q.id \in found[u].requests,
           NEW l \in Lines(put[t])
    PROVE  l.request # q.id
<1>1. TablesTyped /\ Numbered /\ lastId \in Nat
  BY DEF TypeInv, TablesTyped
<1>2. q.id \in Nat /\ q.id <= lastId
  BY <1>1, InTable DEF TablesTyped, RequestRow, Numbered
<1>3. CASE t \in Payments
  <2>1. l.request = lastId + 1
    BY <1>3 DEF LinesInv, PaymentLines
  <2>2. QED
    BY <1>1, <1>2, <2>1
<1>4. CASE t \notin Payments
  <2>1. l.request \in found[t].requests /\ t \in Replies \cup Retentions
    BY <1>4 DEF LinesInv, HandlerLines
  <2>2. Owns(t)
    BY <2>1, Committed, TablesAssumption DEF Owns, TablesAssumption
  <2>3. ASSUME l.request = q.id PROVE FALSE
    <3>1. q \in cut[t] /\ q \in cut[u]
      BY <2>1, <2>2, <2>3 DEF LinesInv, LocksRequests
    <3>2. QED
      BY <3>1 DEF Locks
  <2>4. QED
    BY <2>3
<1>5. QED
  BY <1>3, <1>4

\* A handler that has written, or not, and moves on.
LEMMA LinesMoved ==
    ASSUME TypeInv, RequestsInv, LinesInv, NEW t \in Tasks, NEW i \in Nat, Moved(t, i),
           \/ put'[t] = put[t] /\ cut'[t] = cut[t]
           \/ put'[t] = {} /\ cut'[t] = {},
           t \in Payments => (i \in 4..5 /\ put'[t] # {} => at[t] \in 4..5),
           t \notin Payments =>
              \/ found'[t].requests = found[t].requests
              \/ Lines(put'[t]) \cup Lines(cut'[t]) = {},
           t \in Replies =>
              /\ i \in 3..6 => /\ found'[t].requests = found[t].requests
                               /\ put'[t] = put[t] /\ cut'[t] = cut[t]
                               /\ at[t] \in 3..6
              /\ i \in 4..6 => at[t] \in 4..6
              /\ i \in 5..6 => at[t] \in 5..6
              /\ i \notin 3..6 => put'[t] = {} /\ cut'[t] = {},
           t \in Retentions =>
              /\ i = 9 => found'[t].requests = {}
              /\ i \in 0..2 => Lines(cut'[t]) = {}
    PROVE  LinesInv'
<1>1. /\ db' = db /\ lastId' = lastId
      /\ \A u \in Tasks : at'[u] = IF u = t THEN i ELSE at[u]
      /\ \A u \in Tasks : u # t => /\ put'[u] = put[u] /\ cut'[u] = cut[u]
                                   /\ found'[u] = found[u]
      /\ Payments \cup Replies \cup Retentions \subseteq Tasks
      /\ Lines({}) = {}
  BY DEF Moved, Tasks, Lines, In
<1>2. /\ \A l \in Lines(db') : l.request <= lastId'
      /\ \A q \in Requests(db') : OfOne(q, db')
  BY <1>1 DEF LinesInv
<1>3. ASSUME NEW u \in Payments PROVE PaymentLines(u)'
  <2>1. PaymentLines(u)
    BY DEF LinesInv
  <2>2. CASE u # t
    BY <1>1, <2>1, <2>2 DEF PaymentLines
  <2>3. CASE u = t
    BY <1>1, <2>1, <2>3 DEF PaymentLines
  <2>4. QED
    BY <2>2, <2>3
<1>4. ASSUME NEW u \in Tasks \ Payments PROVE HandlerLines(u)'
  <2>1. HandlerLines(u)
    BY DEF LinesInv
  <2>2. CASE u # t
    BY <1>1, <2>1, <2>2 DEF HandlerLines
  <2>3. CASE u = t
    BY <1>1, <2>1, <2>3 DEF HandlerLines
  <2>4. QED
    BY <2>2, <2>3
<1>5. ASSUME NEW u \in Tasks PROVE LocksRequests(u)'
  <2>1. LocksRequests(u)
    BY DEF LinesInv
  <2>2. CASE u # t
    BY <1>1, <2>1, <2>2 DEF LocksRequests, Owns
  <2>3. CASE u = t
    BY <1>1, <2>1, <2>3 DEF LocksRequests, Owns
  <2>4. QED
    BY <2>2, <2>3
<1>6. ASSUME NEW u \in Replies PROVE ReplyLines(u)'
  <2>1. ReplyLines(u)
    BY DEF LinesInv
  <2>2. CASE u # t
    BY <1>1, <2>1, <2>2 DEF ReplyLines, View
  <2>3. CASE u = t
    <3>1. CASE i \in 3..6
      <4>1. /\ put'[u] = put[u] /\ cut'[u] = cut[u] /\ found'[u].requests = found[u].requests
            /\ at'[u] = i /\ db' = db
            /\ i \in 4..6 => at[u] \in 4..6
            /\ i \in 5..6 => at[u] \in 5..6
        BY <1>1, <1>6, <2>3, <3>1
      <4>2. View(u)' = View(u)
        BY <4>1 DEF View
      <4>3. at'[u] \in 4..6 =>
               \A q \in Requests(db') : q.id \in found'[u].requests =>
                  \A l \in LinesOf(q, View(u)') : ~l.invalid => l.by = u
        BY <2>1, <4>1, <4>2 DEF ReplyLines
      <4>4. at'[u] \in 5..6 =>
               \A j \in found'[u].requests :
                  \E l \in Lines(put'[u]) : l.request = j /\ ~l.invalid
        BY <2>1, <4>1 DEF ReplyLines
      <4>5. QED
        BY <3>1, <4>1, <4>3, <4>4 DEF ReplyLines
    <3>2. CASE i \notin 3..6
      BY <1>1, <2>1, <2>3, <3>2 DEF ReplyLines
    <3>3. QED
      BY <3>1, <3>2
  <2>4. QED
    BY <2>2, <2>3
<1>7. ASSUME NEW u \in Retentions PROVE RetentionLines(u)'
  <2>1. RetentionLines(u)
    BY DEF LinesInv
  <2>2. QED
    BY <1>1, <2>1 DEF RetentionLines
<1>8. QED
  BY <1>2, <1>3, <1>4, <1>5, <1>6, <1>7 DEF LinesInv

LEMMA LinesCommitted ==
    ASSUME TypeInv, Locks, RequestsInv, LinesInv, NEW t \in Tasks, Commit(t)
    PROVE  LinesInv'
<1>1. /\ db' = (db \ cut[t]) \cup put[t] /\ found' = found
      /\ \A u \in Tasks : at'[u] = IF u = t THEN at[t] + 1 ELSE at[u]
      /\ \A u \in Tasks : /\ put'[u] = IF u = t THEN {} ELSE put[u]
                          /\ cut'[u] = IF u = t THEN {} ELSE cut[u]
      /\ \/ t \in Payments /\ at[t] = 5
         \/ t \in Rejections /\ at[t] = 11
         \/ t \in Replies /\ at[t] = 6
         \/ t \in Retentions /\ at[t] = 9
      /\ lastId' \in Nat /\ lastId <= lastId'
      /\ \A q \in Requests(put[t]) : q.id <= lastId'
  BY Committed
<1>2. /\ TablesTyped /\ Numbered /\ lastId \in Nat
      /\ Payments \cup Replies \cup Retentions \subseteq Tasks
      /\ Lines({}) = {}
  BY DEF TypeInv, TablesTyped, Tasks, Lines, In
<1>3. \A u \in Tasks : found[u].requests \in SUBSET Nat
  BY <1>2, ViewType
<1>4. Lines(db') = (Lines(db) \ cut[t]) \cup Lines(put[t])
  BY <1>1 DEF Lines, In
<1>5. /\ t \in Payments => PaymentLines(t)
      /\ t \notin Payments => HandlerLines(t)
      /\ LocksRequests(t)
      /\ t \in Replies => ReplyLines(t)
      /\ t \in Retentions => RetentionLines(t)
      /\ \A l \in Lines(db) : l.request <= lastId
      /\ \A q \in Requests(db) : OfOne(q, db)
  BY DEF LinesInv
\* A payment has put in the request that its lines belong to.
<1>6. ASSUME t \in Payments, put[t] # {}
      PROVE  /\ \A q \in Requests(put[t]) : q.id = lastId + 1
             /\ lastId + 1 <= lastId'
  <2>1. Requests(put[t]) # {} /\ cut[t] = {} /\ \A q \in Requests(put[t]) : q.id = lastId + 1
    BY <1>6 DEF RequestsInv, Requests, In
  <2>2. PICK q \in Requests(put[t]) : TRUE
    BY <2>1
  <2>3. QED
    BY <1>1, <2>1, <2>2
<1>7. ASSUME NEW l \in Lines(db') PROVE l.request <= lastId'
  <2>1. l \in Lines(db) \/ l \in Lines(put[t])
    BY <1>4
  <2>2. CASE l \in Lines(db)
    <3>1. l.request \in Nat /\ l.request <= lastId
      BY <1>2, <1>5, <2>2, InTable DEF TablesTyped, LineRow
    <3>2. QED
      BY <1>1, <1>2, <3>1
  <2>3. CASE l \in Lines(put[t]) /\ t \in Payments
    <3>1. put[t] # {} /\ l.request = lastId + 1
      BY <1>5, <2>3 DEF PaymentLines, Lines, In
    <3>2. QED
      BY <1>6, <2>3, <3>1
  <2>4. CASE l \in Lines(put[t]) /\ t \notin Payments
    <3>1. l.request \in found[t].requests /\ t \in Replies \cup Retentions
      BY <1>5, <2>4 DEF HandlerLines
    <3>2. l.request \in Nat /\ l.request <= lastId
      BY <1>2, <1>3, <3>1 DEF RequestsInv
    <3>3. QED
      BY <1>1, <1>2, <3>2
  <2>5. QED
    BY <2>1, <2>2, <2>3, <2>4
\* The lines of a request that is there after the commit.
<1>8. ASSUME NEW q \in Requests(db') PROVE OfOne(q, db')
  <2>1. q \in Requests(View(t)) /\ View(t) = db'
    BY <1>1, <1>8 DEF View
  <2>2. CASE t \in Payments /\ put[t] # {}
    <3>1. Requests(db) = {} /\ cut[t] = {} /\ Requests(put[t]) # {}
      BY <2>2 DEF RequestsInv
    <3>2. q \in Requests(put[t])
      BY <1>1, <1>8, <3>1 DEF Requests, In
    <3>3. q.id = lastId + 1
      BY <1>6, <2>2, <3>2
    <3>4. at[t] = 5
      BY <1>1, <2>2, TablesAssumption DEF TablesAssumption
    <3>5. LinesOf(q, db') = Lines(put[t])
      <4>1. \A l \in Lines(db) : l.request # q.id
        <5>1. \A l \in Lines(db) : l.request \in Nat /\ l.request <= lastId
          BY <1>2, <1>5, InTable DEF TablesTyped, LineRow
        <5>2. QED
          BY <1>2, <3>3, <5>1
      <4>2. \A l \in Lines(put[t]) : l.request = q.id
        BY <1>5, <2>2, <3>3 DEF PaymentLines
      <4>3. QED
        BY <1>4, <4>1, <4>2 DEF LinesOf
    <3>6. QED
      BY <1>5, <2>2, <3>4, <3>5 DEF PaymentLines, OfOne
  <2>3. CASE ~(t \in Payments /\ put[t] # {})
    <3>1. PICK p \in Requests(db) : p.id = q.id
      <4>1. CASE t \in Payments
        <5>1. put[t] = {} /\ cut[t] = {}
          BY <2>3, <4>1 DEF RequestsInv
        <5>2. QED
          BY <1>1, <1>8, <5>1
      <4>2. CASE t \notin Payments
        BY <2>1, <4>2, RequestSeen
      <4>3. QED
        BY <4>1, <4>2
    <3>2. OfOne(p, db)
      BY <1>5
    <3>3. CASE \A l \in Lines(put[t]) \cup (Lines(db) \cap cut[t]) : l.request # q.id
      <4>1. LinesOf(q, db') = LinesOf(p, db)
        BY <1>4, <3>1, <3>3 DEF LinesOf
      <4>2. QED
        BY <3>2, <4>1, SameLines
    <3>4. ASSUME NEW l \in Lines(put[t]) \cup (Lines(db) \cap cut[t]), l.request = q.id
          PROVE  OfOne(q, db')
      <4>1. t \notin Payments
        BY <1>2, <2>3, <3>4 DEF RequestsInv
      <4>2. l \in Lines(put[t]) \cup Lines(cut[t])
        BY <3>4 DEF Lines, In
      <4>3. q.id \in found[t].requests /\ t \in Replies \cup Retentions
        BY <1>5, <3>4, <4>1, <4>2 DEF HandlerLines
      <4>4. Owns(t) /\ p \in cut[t]
        <5>1. Owns(t)
          BY <1>1, <4>3, TablesAssumption DEF Owns, TablesAssumption
        <5>2. QED
          BY <1>5, <3>1, <4>3, <5>1 DEF LocksRequests
      <4>5. CASE t \in Retentions
        <5>1. put[t] = {}
          BY <1>5, <4>5 DEF RetentionLines
        <5>2. q \in Requests(db) /\ q \notin cut[t]
          BY <1>1, <1>8, <5>1 DEF Requests, In
        <5>3. q \in cut[t]
          BY <1>5, <4>3, <4>4, <5>2 DEF LocksRequests
        <5>4. QED
          BY <5>2, <5>3
      <4>6. CASE t \in Replies
        <5>1. at[t] = 6
          BY <1>1, <4>6, TablesAssumption DEF TablesAssumption
        <5>2. /\ \A x \in LinesOf(p, View(t)) : ~x.invalid => x.by = t
              /\ \E x \in Lines(put[t]) : x.request = p.id /\ ~x.invalid
          BY <1>5, <3>1, <4>3, <4>6, <5>1 DEF ReplyLines
        <5>3. LinesOf(p, View(t)) = LinesOf(q, db')
          BY <2>1, <3>1 DEF LinesOf
        <5>4. \E x \in LinesOf(q, db') : ~x.invalid
          BY <1>4, <3>1, <5>2 DEF LinesOf
        <5>5. QED
          BY <5>2, <5>3, <5>4 DEF OfOne
      <4>7. QED
        BY <4>3, <4>5, <4>6
    <3>5. QED
      BY <3>3, <3>4
  <2>4. QED
    BY <2>2, <2>3
<1>9. ASSUME NEW u \in Payments PROVE PaymentLines(u)'
  <2>1. CASE u = t
    BY <1>1, <1>2, <2>1 DEF PaymentLines
  <2>2. CASE u # t
    <3>1. PaymentLines(u) /\ u \in Tasks
      BY <1>2 DEF LinesInv
    <3>2. put'[u] = put[u] /\ at'[u] = at[u]
      BY <1>1, <2>2, <3>1
    <3>3. put[u] # {} => lastId' = lastId
      BY <2>2, NumberGiven DEF RequestsInv
    <3>4. \A l \in Lines(put[u]) : put[u] # {}
      BY DEF Lines, In
    <3>5. QED
      BY <3>1, <3>2, <3>3, <3>4 DEF PaymentLines
  <2>3. QED
    BY <2>1, <2>2
<1>10. ASSUME NEW u \in Tasks \ Payments PROVE HandlerLines(u)'
  <2>1. HandlerLines(u)
    BY DEF LinesInv
  <2>2. QED
    BY <1>1, <1>2, <2>1 DEF HandlerLines
<1>11. ASSUME NEW u \in Tasks PROVE LocksRequests(u)'
  <2>1. CASE u = t
    <3>1. ~Owns(u)'
      BY <1>1, <2>1, TablesAssumption DEF Owns, TablesAssumption
    <3>2. QED
      BY <3>1 DEF LocksRequests
  <2>2. CASE u # t
    <3>1. /\ at'[u] = at[u] /\ cut'[u] = cut[u] /\ found' = found
          /\ Owns(u)' <=> Owns(u)
      BY <1>1, <2>2 DEF Owns
    <3>2. LocksRequests(u)
      BY DEF LinesInv
    <3>3. QED
      BY <2>2, <3>1, <3>2, OwnedStays DEF LocksRequests
  <2>3. QED
    BY <2>1, <2>2
<1>12. ASSUME NEW u \in Replies PROVE ReplyLines(u)'
  <2>1. CASE u = t
    <3>1. at'[u] = 7 /\ put'[u] = {} /\ cut'[u] = {}
      BY <1>1, <1>12, <2>1, TablesAssumption DEF TablesAssumption
    <3>2. QED
      BY <3>1 DEF ReplyLines
  <2>2. CASE u # t
    <3>1. /\ u \in Tasks /\ ReplyLines(u)
          /\ at'[u] = at[u] /\ put'[u] = put[u] /\ cut'[u] = cut[u] /\ found' = found
      BY <1>1, <1>2, <2>2 DEF LinesInv
    <3>2. ASSUME at[u] \in 4..6, NEW q \in Requests(db'), q.id \in found[u].requests,
                 NEW l \in LinesOf(q, View(u)'), ~l.invalid
          PROVE  l.by = u
      <4>1. Owns(u)
        BY <3>2 DEF Owns
      <4>2. q \in Requests(db)
        BY <2>2, <3>1, <3>2, <4>1, OwnedStays
      <4>3. l \in Lines(View(u)') /\ l.request = q.id
        BY DEF LinesOf
      <4>4. l \in Lines(View(u)) \/ l \in Lines(put[t])
        <5>1. View(u)' = (db' \ cut[u]) \cup put[u]
          BY <3>1 DEF View
        <5>2. View(u) = (db \ cut[u]) \cup put[u]
          BY DEF View
        <5>3. QED
          BY <1>1, <4>3, <5>1, <5>2 DEF Lines, In
      <4>5. l \notin Lines(put[t])
        BY <2>2, <3>1, <3>2, <4>1, <4>2, <4>3, LinesApart
      <4>6. l \in LinesOf(q, View(u))
        BY <4>3, <4>4, <4>5 DEF LinesOf
      <4>7. QED
        BY <3>1, <3>2, <4>2, <4>6 DEF ReplyLines
    <3>3. QED
      BY <3>1, <3>2 DEF ReplyLines
  <2>3. QED
    BY <2>1, <2>2
<1>13. ASSUME NEW u \in Retentions PROVE RetentionLines(u)'
  <2>1. RetentionLines(u) /\ u \in Tasks
    BY <1>2 DEF LinesInv
  <2>2. QED
    BY <1>1, <1>2, <2>1 DEF RetentionLines
<1>14. QED
  BY <1>7, <1>8, <1>9, <1>10, <1>11, <1>12, <1>13 DEF LinesInv

\* No statement commits a request that was not there.
LEMMA WriteAddsNoRequest ==
    ASSUME TypeInv, NEW t \in Tasks, Write(t), NEW q \in Requests(db')
    PROVE  \E p \in Requests(db) : p.id = q.id
<1>1. TablesTyped
  BY DEF TypeInv
<1>2. CASE InTransaction(t)
  BY <1>2, Written
<1>3. CASE ~InTransaction(t)
  <2>1. db' = (db \ Cut(t)) \cup Put(t) /\ View(t) = db /\ Writes(t)
    BY <1>3, Written
  <2>2. t \notin Payments
    BY <1>3, StepOf, TablesAssumption DEF InTransaction, TablesAssumption
  <2>3. q \in Requests(db) \/ q \in Requests(Put(t))
    BY <2>1 DEF Requests, In
  <2>4. ASSUME q \in Requests(Put(t)) PROVE \E p \in Requests(db) : p.id = q.id
    <3>1. PICK p \in Requests(Cut(t)) : p \in View(t) /\ q.id = p.id
      BY <1>1, <2>1, <2>2, <2>4, RequestsPut
    <3>2. p \in Requests(db)
      BY <2>1, <3>1 DEF Requests, In
    <3>3. QED
      BY <3>1, <3>2
  <2>5. QED
    BY <2>3, <2>4
<1>4. QED
  BY <1>2, <1>3

LEMMA LinesWriteKept ==
    ASSUME TypeInv, Locks, RequestsInv, LinesInv, NEW t \in Tasks, Write(t)
    PROVE  LinesInv'
<1>1. /\ Writes(t) /\ UNCHANGED <<lastId, found>>
      /\ \A u \in Tasks : at'[u] = IF u = t THEN at[t] + 1 ELSE at[u]
      /\ \A u \in Tasks : u # t => put'[u] = put[u] /\ cut'[u] = cut[u]
      /\ \/ /\ InTransaction(t) /\ db' = db
            /\ cut'[t] = cut[t] \cup (Cut(t) \cap db)
            /\ put'[t] = (put[t] \ Cut(t)) \cup Put(t)
            /\ View(t)' = (View(t) \ Cut(t)) \cup Put(t)
         \/ /\ ~InTransaction(t) /\ db' = (db \ Cut(t)) \cup Put(t)
            /\ put[t] = {} /\ cut[t] = {} /\ View(t) = db
            /\ put'[t] = {} /\ cut'[t] = {}
  BY Written
<1>2. /\ TablesTyped /\ Numbered /\ lastId \in Nat /\ at[t] \in Nat
      /\ Payments \cup Replies \cup Retentions \subseteq Tasks
      /\ Lines({}) = {}
  BY ViewType DEF TypeInv, TablesTyped, Tasks, Lines, In
<1>3. ~InTransaction(t) => t \notin Payments /\ t \notin Replies /\ t \notin Retentions
  BY StepOf, TablesAssumption DEF InTransaction, TablesAssumption
\* Outside a transaction no line is written.
<1>4. Lines(db') = Lines(db)
  <2>1. CASE InTransaction(t)
    BY <1>1, <2>1
  <2>2. CASE ~InTransaction(t)
    <3>1. Lines(Put(t)) \cup Lines(Cut(t)) = {}
      BY <1>1, <1>3, <2>2, LinesWritten
    <3>2. QED
      BY <1>1, <2>2, <3>1 DEF Lines, In
  <2>3. QED
    BY <2>1, <2>2
<1>5. ASSUME NEW q \in Requests(db') PROVE \E p \in Requests(db) : p.id = q.id
  BY WriteAddsNoRequest
<1>6. /\ \A l \in Lines(db') : l.request <= lastId'
      /\ \A q \in Requests(db') : OfOne(q, db')
  <2>1. \A l \in Lines(db') : l.request <= lastId'
    BY <1>1, <1>4 DEF LinesInv
  <2>2. ASSUME NEW q \in Requests(db') PROVE OfOne(q, db')
    <3>1. PICK p \in Requests(db) : p.id = q.id
      BY <1>5
    <3>2. OfOne(p, db) /\ LinesOf(q, db') = LinesOf(p, db)
      BY <1>4, <3>1 DEF LinesInv, LinesOf
    <3>3. QED
      BY <3>2, SameLines
  <2>3. QED
    BY <2>1, <2>2
<1>7. ASSUME NEW u \in Tasks, u # t
      PROVE  /\ u \in Payments => PaymentLines(u)'
             /\ u \notin Payments => HandlerLines(u)'
             /\ LocksRequests(u)'
             /\ u \in Replies => ReplyLines(u)'
             /\ u \in Retentions => RetentionLines(u)'
  <2>1. /\ at'[u] = at[u] /\ put'[u] = put[u] /\ cut'[u] = cut[u] /\ found'[u] = found[u]
        /\ lastId' = lastId
        /\ Owns(u)' <=> Owns(u)
    BY <1>1, <1>7 DEF Owns
  <2>2. /\ u \in Payments => PaymentLines(u)
        /\ u \notin Payments => HandlerLines(u)
        /\ LocksRequests(u)
        /\ u \in Replies => ReplyLines(u)
        /\ u \in Retentions => RetentionLines(u)
    BY DEF LinesInv
  <2>3. u \in Payments => PaymentLines(u)'
    BY <2>1, <2>2 DEF PaymentLines
  <2>4. u \notin Payments => HandlerLines(u)'
    BY <2>1, <2>2 DEF HandlerLines
  <2>5. LocksRequests(u)'
    BY <1>7, <2>1, <2>2, OwnedStays DEF LocksRequests
  <2>6. ASSUME u \in Replies PROVE ReplyLines(u)'
    <3>1. Lines(View(u)') = Lines(View(u))
      BY <1>4, <2>1 DEF View, Lines, In
    <3>2. ASSUME at[u] \in 4..6, NEW q \in Requests(db'), q.id \in found[u].requests,
                 NEW l \in LinesOf(q, View(u)'), ~l.invalid
          PROVE  l.by = u
      <4>1. q \in Requests(db)
        BY <1>7, <2>6, <3>2, OwnedStays DEF Owns
      <4>2. l \in LinesOf(q, View(u))
        BY <3>1 DEF LinesOf
      <4>3. QED
        BY <2>2, <2>6, <3>2, <4>1, <4>2 DEF ReplyLines
    <3>3. QED
      BY <2>1, <2>2, <2>6, <3>2 DEF ReplyLines
  <2>7. u \in Retentions => RetentionLines(u)'
    BY <2>1, <2>2 DEF RetentionLines
  <2>8. QED
    BY <2>3, <2>4, <2>5, <2>6, <2>7
<1>8. ASSUME t \in Payments PROVE PaymentLines(t)'
  <2>1. /\ InTransaction(t) /\ at[t] \in 2..4 /\ Cut(t) = {}
        /\ at[t] = 2 => Put(t) = {Request(lastId + 1, t)}
        /\ at[t] = 3 => Put(t) = {InvoiceLine(lastId + 1, t, crossBorder)}
        /\ at[t] = 4 => Put(t) = {Schedule(lastId + 1, t)}
    BY <1>1, <1>8, PaymentWrites
  <2>2. put'[t] = put[t] \cup Put(t) /\ lastId' = lastId /\ at'[t] = at[t] + 1
    BY <1>1, <2>1
  <2>3. PaymentLines(t) /\ (at[t] = 2 => put[t] = {}) /\ (at[t] = 4 => put[t] # {})
    BY <1>8 DEF LinesInv, RequestsInv
  <2>4. crossBorder \in BOOLEAN
    BY <1>2 DEF TablesTyped
  <2> DEFINE l == InvoiceLine(lastId + 1, t, crossBorder)
  <2>5. /\ Request(lastId + 1, t).table = "paymentRequests"
        /\ Schedule(lastId + 1, t).table = "schedule"
        /\ l.table = "invoiceLines" /\ l.request = lastId + 1 /\ l.by = t /\ l.invalid = FALSE
    BY DEF Request, Schedule, InvoiceLine
  <2> HIDE DEF l
  <2>6. CASE at[t] = 3
    <3>1. Lines(put'[t]) = Lines(put[t]) \cup {l}
      BY <2>1, <2>2, <2>5, <2>6 DEF Lines, In, l
    <3>2. QED
      BY <2>2, <2>3, <2>5, <3>1 DEF PaymentLines
  <2>7. CASE at[t] # 3
    <3>1. Lines(put'[t]) = Lines(put[t])
      BY <2>1, <2>2, <2>5, <2>7 DEF Lines, In
    <3>2. at'[t] \in 4..5 => at[t] = 4
      BY <2>1, <2>2, <2>7
    <3>3. at[t] = 4 => Lines(put[t]) # {}
      BY <2>3 DEF PaymentLines
    <3>4. \A x \in Lines(put'[t]) : x.request = lastId' + 1 /\ x.by = t /\ ~x.invalid
      BY <2>2, <2>3, <3>1 DEF PaymentLines
    <3>5. QED
      BY <3>1, <3>2, <3>3, <3>4 DEF PaymentLines
  <2>8. QED
    BY <2>6, <2>7
<1>9. ASSUME t \notin Payments PROVE HandlerLines(t)'
  <2>1. HandlerLines(t)
    BY <1>9 DEF LinesInv
  <2>2. \A l \in Lines(put'[t]) \cup Lines(cut'[t]) :
           l \in Lines(put[t]) \cup Lines(cut[t]) \cup Lines(Put(t)) \cup Lines(Cut(t))
    BY <1>1, <1>2 DEF Lines, In
  <2>3. \A l \in Lines(Put(t)) \cup Lines(Cut(t)) :
           l.request \in found[t].requests /\ t \in Replies \cup Retentions
    BY <1>1, <1>9, LinesWritten
  <2>4. QED
    BY <1>1, <2>1, <2>2, <2>3 DEF HandlerLines
<1>10. ASSUME t \in Replies PROVE LocksRequests(t)' /\ ReplyLines(t)'
  <2>1. /\ t \notin Payments /\ InTransaction(t) /\ at[t] \in 2..4
        /\ at[t] = 2 => Cut(t) = RequestRows(t) /\ Put(t) = Cut(t)
        /\ at[t] = 3 => /\ Cut(t) = {l \in Lines(View(t)) : l.request \in found[t].requests}
                        /\ Put(t) = {Invalid(l) : l \in Cut(t)}
        /\ at[t] = 4 => /\ Cut(t) = {}
                        /\ Put(t) = {ReplyLine(i, t) : i \in found[t].requests}
    BY <1>1, <1>10, ReplyWrites
  <2>2. /\ db' = db /\ cut'[t] = cut[t] \cup (Cut(t) \cap db)
        /\ put'[t] = (put[t] \ Cut(t)) \cup Put(t)
        /\ View(t)' = (View(t) \ Cut(t)) \cup Put(t)
        /\ at'[t] = at[t] + 1 /\ found'[t] = found[t]
    BY <1>1, <2>1
  <2>3. ReplyLines(t) /\ LocksRequests(t)
    BY <1>10 DEF LinesInv
  <2>4. LocksRequests(t)'
    <3>1. CASE at[t] = 2
      <4>1. put[t] = {} /\ cut[t] = {}
        BY <2>3, <3>1 DEF ReplyLines
      <4>2. \A q \in Requests(db) : q.id \in found[t].requests => q \in Cut(t) \cap db
        BY <2>1, <3>1, <4>1 DEF RequestRows, View, Requests, In
      <4>3. QED
        BY <2>2, <4>2 DEF LocksRequests
    <3>2. CASE at[t] # 2
      <4>1. Owns(t)
        BY <1>10, <2>1, <3>2 DEF Owns
      <4>2. QED
        BY <2>2, <2>3, <4>1 DEF LocksRequests
    <3>3. QED
      BY <3>1, <3>2
  <2>5. at'[t] \in 3..5
    BY <2>1, <2>2
  \* The lines that it saw are invalid once it has been at place 3.
  <2>6. ASSUME at'[t] \in 4..6, NEW q \in Requests(db), q.id \in found[t].requests,
               NEW l \in Lines(View(t)'), l.request = q.id, ~l.invalid
        PROVE  l.by = t
    <3>1. CASE at[t] = 3
      <4>1. l \in Put(t) \/ (l \in Lines(View(t)) /\ l \notin Cut(t))
        BY <2>2, <2>6 DEF Lines, In
      <4>2. \A x \in Put(t) : x.invalid
        <5>1. \A x \in Cut(t) : x \in LineRow
          BY <1>2, <2>1, <3>1, ViewType, InTable
        <5>2. QED
          BY <2>1, <3>1, <5>1, RewrittenRows
      <4>3. QED
        BY <2>1, <2>6, <3>1, <4>1, <4>2
    <3>2. CASE at[t] = 4
      <4>1. l \in Put(t) \/ l \in Lines(View(t))
        BY <2>2, <2>6 DEF Lines, In
      <4>2. \A x \in Put(t) : x.by = t
        BY <2>1, <3>2 DEF ReplyLine, InvoiceLine
      <4>3. ASSUME l \in Lines(View(t)) PROVE l.by = t
        BY <2>3, <2>6, <3>2, <4>3 DEF ReplyLines, LinesOf
      <4>4. QED
        BY <4>1, <4>2, <4>3
    <3>3. QED
      BY <2>1, <2>2, <2>6, <3>1, <3>2
  <2>7. ASSUME at'[t] \in 5..6, NEW i \in found[t].requests
        PROVE  \E l \in Lines(put'[t]) : l.request = i /\ ~l.invalid
    <3>1. at[t] = 4
      BY <2>1, <2>2, <2>7
    <3>2. ReplyLine(i, t) \in put'[t]
      BY <2>1, <2>2, <3>1
    <3>3. /\ ReplyLine(i, t).table = "invoiceLines" /\ ReplyLine(i, t).request = i
          /\ ReplyLine(i, t).invalid = FALSE
      BY DEF ReplyLine, InvoiceLine
    <3>4. QED
      BY <3>2, <3>3 DEF Lines, In
  <2>8. ReplyLines(t)'
    <3>1. at'[t] \in 4..6 =>
             \A q \in Requests(db') : q.id \in found'[t].requests =>
                \A l \in LinesOf(q, View(t)') : ~l.invalid => l.by = t
      BY <2>2, <2>6 DEF LinesOf
    <3>2. at'[t] \in 5..6 =>
             \A i \in found'[t].requests :
                \E l \in Lines(put'[t]) : l.request = i /\ ~l.invalid
      BY <2>2, <2>7
    <3>3. at'[t] \in 3..6
      BY <2>5
    <3>4. QED
      BY <3>1, <3>2, <3>3 DEF ReplyLines
  <2>9. QED
    BY <2>4, <2>8
<1>11. ASSUME t \in Retentions PROVE LocksRequests(t)' /\ RetentionLines(t)'
  <2>1. /\ t \notin Payments /\ t \notin Replies /\ t \notin Resets /\ InTransaction(t)
    BY <1>3, <1>11, TablesAssumption DEF TablesAssumption
  <2>2. /\ at[t] \in 1..8 /\ (at[t] = 8 => Step(t) = "removeRequests")
        /\ Step(t) \in {"removeClosure", "removeOutbox", "removeCompleted",
                        "removeSchedules", "removeLines", "removeRequests"}
    BY <1>1, <1>11, RetentionPlace DEF Writes, Lookups
  <2>3. Put(t) = {} /\ (at[t] = 8 => Cut(t) = RequestRows(t))
    BY <2>2, PutIs, CutIs
  <2>4. /\ db' = db /\ cut'[t] = cut[t] \cup (Cut(t) \cap db)
        /\ put'[t] = (put[t] \ Cut(t)) \cup Put(t)
        /\ at'[t] = at[t] + 1 /\ found'[t] = found[t]
    BY <1>1, <2>1
  <2>5. RetentionLines(t) /\ put'[t] = {}
    BY <1>11, <2>3, <2>4 DEF LinesInv, RetentionLines
  <2>6. LocksRequests(t)'
    <3>1. CASE at[t] = 8
      <4>1. put[t] = {}
        BY <2>5 DEF RetentionLines
      <4>2. \A q \in Requests(db) : q.id \in found[t].requests => q \in cut'[t]
        BY <2>3, <2>4, <3>1, <4>1 DEF RequestRows, View, Requests, In
      <4>3. QED
        BY <2>4, <4>2 DEF LocksRequests
    <3>2. CASE at[t] # 8
      <4>1. ~Owns(t)'
        BY <2>1, <2>2, <2>4, <3>2 DEF Owns
      <4>2. QED
        BY <4>1 DEF LocksRequests
    <3>3. QED
      BY <3>1, <3>2
  <2>7. ASSUME at'[t] \in 0..2 PROVE Lines(cut'[t]) = {}
    <3>1. at[t] = 1
      BY <2>2, <2>4, <2>7
    <3>2. Lines(Cut(t)) = {}
      BY <1>1, <2>1, <3>1, LinesWritten
    <3>3. Lines(cut[t]) = {}
      BY <2>5, <3>1 DEF RetentionLines
    <3>4. QED
      BY <2>4, <3>2, <3>3 DEF Lines, In
  <2>8. QED
    BY <2>5, <2>6, <2>7 DEF RetentionLines
<1>12. LocksRequests(t)'
  <2>1. t \notin Replies \cup Retentions => ~Owns(t)'
    BY DEF Owns
  <2>2. QED
    BY <1>10, <1>11, <2>1 DEF LocksRequests
<1>13. QED
  <2>1. ASSUME NEW u \in Tasks
        PROVE  /\ u \in Payments => PaymentLines(u)'
               /\ u \notin Payments => HandlerLines(u)'
               /\ LocksRequests(u)'
               /\ u \in Replies => ReplyLines(u)'
               /\ u \in Retentions => RetentionLines(u)'
    <3>1. CASE u = t
      BY <1>8, <1>9, <1>10, <1>11, <1>12, <3>1
    <3>2. CASE u # t
      BY <1>7, <3>2
    <3>3. QED
      BY <3>1, <3>2
  <2>2. QED
    BY <1>2, <1>6, <2>1 DEF LinesInv

LEMMA LinesKept ==
    TypeInv /\ Locks /\ RequestsInv /\ LinesInv
        /\ (TablesNext \/ UNCHANGED tablesVars) => LinesInv'
<1> SUFFICES ASSUME TypeInv, Locks, RequestsInv, LinesInv,
                    TablesNext \/ UNCHANGED tablesVars
             PROVE  LinesInv'
  OBVIOUS
<1>1. /\ TablesTyped /\ Lines({}) = {}
      /\ \A t \in Tasks : at[t] \in Nat
      /\ Payments \cup Replies \cup Retentions \subseteq Tasks
  BY DEF TypeInv, TablesTyped, Lines, In, Tasks
<1>2. /\ \A t \in Payments : PaymentLines(t)
      /\ \A t \in Tasks \ Payments : HandlerLines(t)
      /\ \A t \in Replies : ReplyLines(t)
      /\ \A t \in Retentions : RetentionLines(t)
      /\ \A t \in Payments : put[t] # {} => at[t] \in 3..5
  BY DEF LinesInv, RequestsInv
<1>3. ASSUME UNCHANGED <<lastId, put, cut, at, found>>,
             Requests(db') = Requests(db), Lines(db') = Lines(db)
      PROVE  LinesInv'
  <2>1. \A t \in Tasks : Lines(View(t)') = Lines(View(t))
    BY <1>3 DEF View, Lines, In
  <2>2. \A t \in Replies : ReplyLines(t)'
    <3>1. ASSUME NEW t \in Replies,
                 NEW q \in Requests(db)
          PROVE  LinesOf(q, View(t)') = LinesOf(q, View(t))
      BY <1>1, <2>1, <3>1 DEF LinesOf
    <3>2. QED
      BY <1>2, <1>3, <3>1 DEF ReplyLines
  <2>3. \A q \in Requests(db') : OfOne(q, db')
    BY <1>3 DEF LinesInv, OfOne, LinesOf
  <2>4. \A t \in Tasks : LocksRequests(t)'
    BY <1>3 DEF LinesInv, LocksRequests, Owns
  <2>5. QED
    BY <1>2, <1>3, <2>2, <2>3, <2>4
    DEF LinesInv, PaymentLines, HandlerLines, RetentionLines
<1>4. CASE UNCHANGED <<db, lastId, put, cut, at, found>>
  BY <1>3, <1>4
<1>5. CASE ProcessPaymentRequest
  BY <1>3, <1>5, Processed
<1>6. ASSUME NEW t \in Tasks, Start(t) PROVE LinesInv'
  <2>1. /\ Moved(t, 1) /\ at[t] = 0 /\ put'[t] = put[t] /\ cut'[t] = cut[t]
        /\ found'[t].requests = {}
    BY <1>6, Started
  <2>2. 1 \in Nat /\ 1 \notin 3..6 /\ 1 \notin 4..5 /\ 1 # 9
    OBVIOUS
  <2>3. t \in Replies => put[t] = {} /\ cut[t] = {}
    BY <1>2, <2>1 DEF ReplyLines
  <2>4. t \in Retentions => put[t] = {} /\ Lines(cut[t]) = {}
    BY <1>2, <2>1 DEF RetentionLines
  <2>5. t \notin Payments => Lines(put[t]) \cup Lines(cut[t]) = {}
    BY <1>1, <1>2, <2>3, <2>4 DEF HandlerLines
  <2>6. QED
    BY <2>1, <2>2, <2>3, <2>4, <2>5, LinesMoved
<1>7. ASSUME NEW t \in Tasks, LookUp(t) PROVE LinesInv'
  <2>1. PICK f \in Found, i \in Nat :
              /\ Looked(t, f, i) /\ Moved(t, i) /\ found'[t] = f
              /\ put'[t] = put[t] /\ cut'[t] = cut[t]
    BY <1>7, LookedUp
  <2>2. ASSUME t \in Payments PROVE put'[t] = {}
    <3>1. at[t] = 1
      BY <2>1, <2>2, PaymentPlace DEF Looked, Lookups
    <3>2. QED
      BY <1>2, <2>1, <2>2, <3>1
  <2>3. ASSUME t \in Replies
        PROVE  /\ i \notin 3..6 /\ put'[t] = {} /\ cut'[t] = {}
    <3>1. at[t] = 1 /\ t \notin Payments /\ t \notin Rejections /\ t \notin Retentions
      BY <2>1, <2>3, ReplyPlace, TablesAssumption DEF Looked, Lookups, TablesAssumption
    <3>2. i = 2
      BY <2>1, <3>1 DEF Looked
    <3>3. QED
      BY <1>2, <2>1, <2>3, <3>1, <3>2 DEF ReplyLines
  <2>4. ASSUME t \in Retentions
        PROVE  /\ i \notin 0..2 /\ (i = 9 => f.requests = {})
               /\ f.requests = found[t].requests \/ Lines(put[t]) \cup Lines(cut[t]) = {}
    <3>1. /\ \/ at[t] = 2 /\ Step(t) = "findRequests"
             \/ at[t] = 3 /\ Step(t) = "findCompleteds"
          /\ t \notin Payments /\ t \notin Rejections
      <4>1. t \notin Payments /\ t \notin Rejections
        BY <2>4, TablesAssumption DEF TablesAssumption
      <4>2. Step(t) \in Lookups
        BY <2>1 DEF Looked
      <4>3. QED
        BY <2>4, <4>1, <4>2, RetentionPlace DEF Lookups
    <3>2. /\ i \notin 0..2 /\ (i = 9 => f.requests = {})
          /\ at[t] = 3 => f.requests = found[t].requests
      BY <2>1, <3>1 DEF Looked
    <3>3. at[t] = 2 => Lines(put[t]) \cup Lines(cut[t]) = {}
      <4>1. RetentionLines(t) /\ 2 \in 0..2
        BY <1>2, <2>4
      <4>2. QED
        BY <1>1, <4>1 DEF RetentionLines
    <3>4. QED
      BY <3>1, <3>2, <3>3
  <2>5. t \notin Payments /\ t \notin Replies /\ t \notin Retentions =>
           Lines(put[t]) \cup Lines(cut[t]) = {}
    BY <1>2 DEF HandlerLines
  <2>6. t \in Replies => i \notin 4..6 /\ i \notin 5..6
    BY <2>1, <2>3
  <2>7. t \notin Payments =>
           \/ found'[t].requests = found[t].requests
           \/ Lines(put'[t]) \cup Lines(cut'[t]) = {}
    BY <1>1, <2>1, <2>3, <2>4, <2>5
  <2>8. QED
    BY <2>1, <2>2, <2>3, <2>4, <2>6, <2>7, LinesMoved
<1>8. ASSUME NEW t \in Tasks, RemoveAutoHold(t) \/ Complete(t) PROVE LinesInv'
  <2>1. PICK i \in Nat :
              /\ Moved(t, i) /\ i = at[t] + 1
              /\ found'[t] = found[t] /\ put'[t] = put[t] /\ cut'[t] = cut[t]
              /\ \/ t \in Replies /\ at[t] = 5
                 \/ t \in Payments /\ at[t] = 6
                 \/ t \in Rejections /\ at[t] = 12
                 \/ t \in Replies /\ at[t] = 7
                 \/ t \in Retentions /\ at[t] = 10
                 \/ t \in Resets /\ at[t] = 7
    BY <1>8, MovedOn
  <2>2. /\ t \in Payments => at[t] = 6
        /\ t \in Replies => at[t] = 5 \/ at[t] = 7
        /\ t \in Retentions => at[t] = 10
    BY <2>1, TablesAssumption DEF TablesAssumption
  <2>3. t \in Payments => i \notin 4..5
    BY <2>1, <2>2
  <2>4. t \in Replies /\ at[t] = 7 => i \notin 3..6 /\ put'[t] = {} /\ cut'[t] = {}
    BY <1>2, <2>1 DEF ReplyLines
  <2>5. t \in Replies /\ at[t] = 5 => i = 6
    BY <2>1
  <2>6. t \in Retentions => i = 11
    BY <2>1, <2>2
  <2>7. QED
    BY <2>1, <2>2, <2>3, <2>4, <2>5, <2>6, LinesMoved
<1>9. ASSUME NEW t \in Tasks, RollBack(t) PROVE LinesInv'
  <2>1. PICK i \in Nat :
              /\ Moved(t, i) /\ found'[t] = found[t] /\ put'[t] = {} /\ cut'[t] = {}
              /\ i = IF t \in Payments \cup Rejections THEN 0
                     ELSE IF t \in Replies THEN IF Step(t) = "complete" THEN 0 ELSE 7
                     ELSE Failed
    BY <1>9, RolledBack
  <2>2. i \in {0, 7, 101}
    BY <2>1 DEF Failed
  <2>3. i \notin 3..6 /\ i \notin 4..6 /\ i \notin 5..6 /\ i \notin 4..5 /\ i # 9
    BY <2>2
  <2>4. Lines(cut'[t]) = {}
    BY <1>1, <2>1
  <2>5. QED
    BY <2>1, <2>3, <2>4, LinesMoved
<1>10. QED
  BY <1>4, <1>5, <1>6, <1>7, <1>8, <1>9, LinesWriteKept, LinesCommitted, Steps, ErrorsRollBack

\* The lines of a request that count are of one handler.
LEMMA OneReply ==
    LinesInv => LinesOfOneReply
<1> SUFFICES ASSUME LinesInv, NEW q \in Requests(db)
             PROVE  Cardinality({l.by : l \in {x \in Of("invoiceLines", {q.id}, db) :
                                                   ~x.invalid}}) = 1
  BY DEF LinesOfOneReply, Requests
<1>1. OfOne(q, db)
  BY DEF LinesInv
<1>2. PICK m \in LinesOf(q, db) : ~m.invalid
  BY <1>1 DEF OfOne
<1>3. {l.by : l \in {x \in Of("invoiceLines", {q.id}, db) : ~x.invalid}} = {m.by}
  BY <1>1, <1>2 DEF OfOne, LinesOf, Lines, Of
<1>4. QED
  BY <1>3, FS_Singleton

-----------------------------------------------------------------------------
(* Schedules.  A handler that replaces a request or a schedule writes it   *)
(* anew, all but the removal, which takes the schedules with the requests  *)
(* and the closure of the agreement with both.                             *)

\* A payment that is off its queue, or found the request there.
PaymentSaved(t) ==
    /\ at[t] \in 6..99 \/ (at[t] = 5 /\ put[t] = {}) => (Closure \in db => Requests(db) # {})
    /\ at[t] = 5 /\ put[t] # {} => \E s \in Schedules(put[t]) : s.request = lastId + 1

Rewrites(t) ==
    /\ \A s \in Schedules(cut[t]) : \E z \in Schedules(put[t]) : z.request = s.request
    /\ \A q \in Requests(cut[t]) : \E p \in Requests(put[t]) : p.id = q.id

Removes(t) ==
    /\ at[t] \in 2..9 => (Closure \in db => Closure \in cut[t])
    /\ \A s \in Schedules(cut[t]) : s.request \in found[t].requests
    /\ at[t] \in 0..2 => Schedules(cut[t]) = {}

Scheduled(q, rows) == \E s \in Schedules(rows) : s.request = q.id

SavedInv ==
    /\ \A q \in Requests(db) : Scheduled(q, db)
    /\ \A t \in Tasks : Closure \notin put[t]
    /\ \A t \in Payments : PaymentSaved(t)
    /\ \A t \in Tasks \ Retentions : Rewrites(t)
    /\ \A t \in Retentions : Removes(t)

LEMMA SavedInitially == TablesInit => SavedInv
<1> SUFFICES ASSUME TablesInit PROVE SavedInv
  OBVIOUS
<1>1. /\ db = {Closure} /\ put = [t \in Tasks |-> {}] /\ cut = [t \in Tasks |-> {}]
      /\ \A t \in Tasks : at[t] \in {0, 100}
      /\ Payments \cup Replies \cup Retentions \subseteq Tasks
  BY DEF TablesInit, Tasks, Absent
<1>2. /\ Requests({}) = {} /\ Requests({Closure}) = {} /\ Schedules({}) = {}
  BY DEF Requests, Schedules, In, Closure
<1>3. /\ \A t \in Payments : PaymentSaved(t)
      /\ \A t \in Retentions : Removes(t)
      /\ \A t \in Tasks \ Retentions : Rewrites(t)
  BY <1>1, <1>2 DEF PaymentSaved, Removes, Rewrites
<1>4. QED
  BY <1>1, <1>2, <1>3 DEF SavedInv

\* A schedule that is replaced is the one that is written, and a request that
\* is replaced keeps its number.
LEMMA WrittenAnew ==
    ASSUME TypeInv, NEW t \in Tasks, Writes(t)
    PROVE  /\ Closure \notin Put(t)
           /\ t \notin Retentions => \A s \in Schedules(Cut(t)) : s \in Schedules(Put(t))
           /\ t \notin Retentions =>
                 \A q \in Requests(Cut(t)) : \E p \in Requests(Put(t)) : p.id = q.id
           /\ t \in Retentions => Put(t) = {}
<1>1. TablesTyped
  BY DEF TypeInv
<1>2. /\ \A r \in RequestRow : r.table = "paymentRequests"
      /\ \A l \in LineRow : l.table = "invoiceLines"
      /\ \A s \in ScheduleRow : s.table = "schedule"
      /\ \A c \in CompletedRow : c.table = "completedPaymentRequests"
      /\ \A o \in OutboxRow : o.table = "outbox"
      /\ Closure.table = "frnAgreementClosed" /\ Hold.table = "holds"
  BY DEF RequestRow, LineRow, ScheduleRow, CompletedRow, OutboxRow, Closure, Hold
<1>3. /\ Step(t) \notin {"insertSchedule", "schedule", "removeSchedules"} =>
            Schedules(Cut(t)) = {}
      /\ Step(t) \notin {"insertRequest", "newReference", "updateRequest",
                         "removeRequests"} => Requests(Cut(t)) = {}
      /\ Closure \notin Put(t)
  BY <1>1, <1>2, StatementRows, WritingSteps DEF Schedules, Requests, In
<1>4. t \in Retentions => Put(t) = {}
  BY RetentionPlace, PutIs DEF Writes, Lookups
<1>5. t \notin Retentions => Step(t) \notin {"removeSchedules", "removeRequests"}
  BY StepOf
<1>6. /\ Step(t) = "insertSchedule" => Cut(t) = {}
      /\ Step(t) = "insertRequest" => Cut(t) = {}
      /\ Step(t) = "schedule" => Cut(t) \subseteq Put(t)
      /\ Step(t) = "updateRequest" => Put(t) = Cut(t)
      /\ Step(t) = "newReference" => Put(t) = {Referred(r, t) : r \in Cut(t)}
  BY CutIs, PutIs DEF AbandonSchedule
<1>7. ASSUME Step(t) = "newReference", NEW q \in Requests(Cut(t))
      PROVE  \E p \in Requests(Put(t)) : p.id = q.id
  <2>1. q \in Cut(t) /\ q \in RequestRow
    BY <1>1, <1>7, StatementRows DEF Requests, In
  <2>2. /\ Referred(q, t) \in Put(t) /\ Referred(q, t).table = "paymentRequests"
        /\ Referred(q, t).id = q.id
    BY <1>2, <1>6, <1>7, <2>1, RewrittenRows
  <2>3. QED
    BY <2>2 DEF Requests, In
<1>8. t \notin Retentions => \A s \in Schedules(Cut(t)) : s \in Schedules(Put(t))
  BY <1>3, <1>5, <1>6 DEF Schedules, In
<1>9. t \notin Retentions =>
         \A q \in Requests(Cut(t)) : \E p \in Requests(Put(t)) : p.id = q.id
  BY <1>3, <1>5, <1>6, <1>7 DEF Requests, In
<1>10. QED
  BY <1>3, <1>4, <1>8, <1>9

\* The schedules that a removal deletes are those of the requests it found.
LEMMA RemovalWrites ==
    ASSUME TypeInv, NEW t \in Retentions, Writes(t), put[t] = {}
    PROVE  /\ t \in Tasks /\ InTransaction(t) /\ at[t] \in 1..8
           /\ \A s \in Schedules(Cut(t)) : s.request \in found[t].requests
           /\ at[t] = 1 => Schedules(Cut(t)) = {}
           /\ at[t] = 1 /\ Closure \in db => Closure \in cut[t] \cup (Cut(t) \cap db)
<1>1. t \in Tasks /\ t \notin Resets
  BY TablesAssumption DEF TablesAssumption, Tasks
<1>2. /\ at[t] \in 1..8 /\ Step(t) # "acknowledge"
      /\ at[t] = 1 <=> Step(t) = "removeClosure"
      /\ Step(t) \in {"removeClosure", "removeOutbox", "removeCompleted",
                      "removeSchedules", "removeLines", "removeRequests"}
  BY RetentionPlace DEF Writes, Lookups
<1>3. TablesTyped
  BY DEF TypeInv
<1>4. /\ \A r \in RequestRow : r.table = "paymentRequests"
      /\ \A l \in LineRow : l.table = "invoiceLines"
      /\ \A c \in CompletedRow : c.table = "completedPaymentRequests"
      /\ \A o \in OutboxRow : o.table = "outbox"
      /\ Closure.table = "frnAgreementClosed"
  BY DEF RequestRow, LineRow, CompletedRow, OutboxRow, Closure
<1>5. Step(t) # "removeSchedules" => Schedules(Cut(t)) = {}
  BY <1>1, <1>2, <1>3, <1>4, StatementRows DEF Schedules, In
<1>6. Step(t) = "removeSchedules" =>
         \A s \in Schedules(Cut(t)) : s.request \in found[t].requests
  BY CutIs DEF Of, Schedules, In
<1>7. at[t] = 1 /\ Closure \in db => Closure \in cut[t] \cup (Cut(t) \cap db)
  BY <1>2, <1>4, CutIs DEF View, In
<1>8. QED
  BY <1>1, <1>2, <1>5, <1>6, <1>7 DEF InTransaction

\* A handler that has written, or not, and moves on.
LEMMA SavedMoved ==
    ASSUME TypeInv, SavedInv, NEW t \in Tasks, NEW i \in Nat, Moved(t, i),
           \/ put'[t] = put[t] /\ cut'[t] = cut[t]
           \/ put'[t] = {} /\ cut'[t] = {},
           t \in Payments =>
              /\ i \in 6..99 \/ (i = 5 /\ put'[t] = {}) =>
                    (Closure \in db => Requests(db) # {})
              /\ i = 5 => put'[t] = {},
           t \in Retentions =>
              /\ i \in 2..9 => at[t] \in 2..9 /\ cut'[t] = cut[t]
              /\ found'[t].requests = found[t].requests \/ Schedules(cut'[t]) = {}
              /\ i \in 0..2 => Schedules(cut'[t]) = {}
    PROVE  SavedInv'
<1>1. /\ db' = db /\ lastId' = lastId
      /\ \A u \in Tasks : at'[u] = IF u = t THEN i ELSE at[u]
      /\ \A u \in Tasks : u # t => /\ put'[u] = put[u] /\ cut'[u] = cut[u]
                                   /\ found'[u] = found[u]
      /\ Payments \cup Retentions \subseteq Tasks
      /\ Schedules({}) = {} /\ Requests({}) = {}
  BY DEF Moved, Tasks, Schedules, Requests, In
<1>2. /\ \A q \in Requests(db') : Scheduled(q, db')
      /\ \A u \in Tasks : Closure \notin put'[u]
  BY <1>1 DEF SavedInv, Scheduled
<1>3. ASSUME NEW u \in Payments PROVE PaymentSaved(u)'
  <2>1. PaymentSaved(u)
    BY DEF SavedInv
  <2>2. CASE u # t
    BY <1>1, <2>1, <2>2 DEF PaymentSaved
  <2>3. CASE u = t
    BY <1>1, <2>1, <2>3 DEF PaymentSaved
  <2>4. QED
    BY <2>2, <2>3
<1>4. ASSUME NEW u \in Tasks \ Retentions PROVE Rewrites(u)'
  <2>1. Rewrites(u)
    BY DEF SavedInv
  <2>2. QED
    BY <1>1, <2>1 DEF Rewrites
<1>5. ASSUME NEW u \in Retentions PROVE Removes(u)'
  <2>1. Removes(u)
    BY DEF SavedInv
  <2>2. CASE u # t
    BY <1>1, <2>1, <2>2 DEF Removes
  <2>3. CASE u = t
    <3>1. at'[u] = i /\ db' = db
      BY <1>1, <2>3
    <3>2. at'[u] \in 2..9 => (Closure \in db' => Closure \in cut'[u])
      BY <2>1, <2>3, <3>1 DEF Removes
    <3>3. \A s \in Schedules(cut'[u]) : s.request \in found'[u].requests
      BY <1>1, <2>1, <2>3 DEF Removes
    <3>4. QED
      BY <2>3, <3>1, <3>2, <3>3 DEF Removes
  <2>4. QED
    BY <2>2, <2>3
<1>6. QED
  BY <1>2, <1>3, <1>4, <1>5 DEF SavedInv

\* Other handlers when the tables change.
LEMMA OthersSaved ==
    ASSUME TypeInv, SavedInv, NEW t \in Tasks,
           \A u \in Tasks : u # t =>
              /\ at'[u] = at[u] /\ put'[u] = put[u] /\ cut'[u] = cut[u]
              /\ found'[u] = found[u],
           Closure \in db' => Closure \in db,
           Requests(db) # {} /\ Closure \in db' => Requests(db') # {},
           \A u \in Payments : u # t /\ put[u] # {} => lastId' = lastId,
           NEW u \in Tasks, u # t
    PROVE  /\ Closure \notin put'[u]
           /\ u \in Payments => PaymentSaved(u)'
           /\ u \notin Retentions => Rewrites(u)'
           /\ u \in Retentions => Removes(u)'
<1>1. /\ at'[u] = at[u] /\ put'[u] = put[u] /\ cut'[u] = cut[u] /\ found'[u] = found[u]
  OBVIOUS
<1>2. /\ Closure \notin put[u]
      /\ u \in Payments => PaymentSaved(u)
      /\ u \notin Retentions => Rewrites(u)
      /\ u \in Retentions => Removes(u)
  BY DEF SavedInv
<1>3. u \in Payments => PaymentSaved(u)'
  BY <1>1, <1>2 DEF PaymentSaved
<1>4. u \notin Retentions => Rewrites(u)'
  BY <1>1, <1>2 DEF Rewrites
<1>5. u \in Retentions => Removes(u)'
  BY <1>1, <1>2 DEF Removes
<1>6. QED
  BY <1>1, <1>2, <1>3, <1>4, <1>5

LEMMA SavedCommitted ==
    ASSUME TypeInv, Locks, RequestsInv, LinesInv, SavedInv, NEW t \in Tasks, Commit(t)
    PROVE  SavedInv'
<1>1. /\ db' = (db \ cut[t]) \cup put[t] /\ found' = found
      /\ \A u \in Tasks : at'[u] = IF u = t THEN at[t] + 1 ELSE at[u]
      /\ \A u \in Tasks : /\ put'[u] = IF u = t THEN {} ELSE put[u]
                          /\ cut'[u] = IF u = t THEN {} ELSE cut[u]
      /\ \/ t \in Payments /\ at[t] = 5
         \/ t \in Rejections /\ at[t] = 11
         \/ t \in Replies /\ at[t] = 6
         \/ t \in Retentions /\ at[t] = 9
  BY Committed
<1>2. /\ Payments \cup Retentions \subseteq Tasks
      /\ Schedules({}) = {} /\ Requests({}) = {}
      /\ t \in Payments => at[t] = 5
      /\ t \in Retentions => at[t] = 9
  BY <1>1, TablesAssumption DEF TablesAssumption, Tasks, Schedules, Requests, In
<1>3. /\ Closure \notin put[t]
      /\ t \in Payments => PaymentSaved(t)
      /\ t \notin Retentions => Rewrites(t)
      /\ t \in Retentions => Removes(t) /\ put[t] = {}
      /\ LocksRequests(t)
  BY DEF SavedInv, LinesInv, RetentionLines
<1>4. Closure \in db' => Closure \in db /\ Closure \notin cut[t]
  BY <1>1, <1>3
<1>5. t \in Retentions => Closure \notin db'
  BY <1>2, <1>3, <1>4 DEF Removes
<1>6. ASSUME Requests(db) # {}, Closure \in db' PROVE Requests(db') # {}
  <2>1. PICK q \in Requests(db) : TRUE
    BY <1>6
  <2>2. CASE q \in cut[t]
    <3>1. PICK p \in Requests(put[t]) : p.id = q.id
      BY <1>3, <1>5, <1>6, <2>2 DEF Rewrites, Requests, In
    <3>2. QED
      BY <1>1, <3>1 DEF Requests, In
  <2>3. CASE q \notin cut[t]
    BY <1>1, <2>3 DEF Requests, In
  <2>4. QED
    BY <2>2, <2>3
<1>7. ASSUME NEW q \in Requests(db') PROVE Scheduled(q, db')
  <2>1. q \in Requests(View(t)) /\ View(t) = db'
    BY <1>1, <1>7 DEF View
  <2>2. CASE t \in Payments /\ put[t] # {}
    <3>1. Requests(db) = {} /\ cut[t] = {} /\ at[t] = 5
      BY <1>2, <2>2 DEF RequestsInv
    <3>2. q \in Requests(put[t])
      BY <1>1, <1>7, <3>1 DEF Requests, In
    <3>3. q.id = lastId + 1
      <4>1. Requests(cut[t]) = {}
        BY <1>2, <3>1
      <4>2. QED
        BY <3>2, <4>1 DEF RequestsInv
    <3>4. QED
      BY <1>1, <1>3, <2>2, <3>1, <3>3 DEF PaymentSaved, Scheduled, Schedules, In
  <2>3. CASE t \in Payments /\ put[t] = {}
    <3>1. db' = db
      BY <1>1, <2>3 DEF RequestsInv
    <3>2. QED
      BY <1>7, <3>1 DEF SavedInv
  <2>4. CASE t \notin Payments
    <3>1. PICK p \in Requests(db) : p.id = q.id
      BY <2>1, <2>4, RequestSeen
    <3>2. PICK s \in Schedules(db) : s.request = q.id
      BY <3>1 DEF SavedInv, Scheduled
    <3>3. CASE s \notin cut[t]
      BY <1>1, <3>2, <3>3 DEF Scheduled, Schedules, In
    <3>4. CASE s \in cut[t] /\ t \notin Retentions
      <4>1. PICK z \in Schedules(put[t]) : z.request = s.request
        BY <1>3, <3>4 DEF Rewrites, Schedules, In
      <4>2. QED
        BY <1>1, <3>2, <4>1 DEF Scheduled, Schedules, In
    <3>5. CASE s \in cut[t] /\ t \in Retentions
      <4>1. s \in Schedules(cut[t])
        BY <3>5 DEF Schedules, In
      <4>2. q.id \in found[t].requests
        BY <1>3, <3>2, <3>5, <4>1 DEF Removes
      <4>3. q \in Requests(db) /\ q \notin cut[t]
        BY <1>1, <1>3, <1>7, <3>5 DEF Requests, In
      <4>4. Owns(t)
        BY <1>2, <3>5 DEF Owns
      <4>5. QED
        BY <1>3, <4>2, <4>3, <4>4 DEF LocksRequests
    <3>6. QED
      BY <3>3, <3>4, <3>5
  <2>5. QED
    BY <2>2, <2>3, <2>4
<1>8. \A u \in Payments : u # t /\ put[u] # {} => lastId' = lastId
  BY NumberGiven DEF RequestsInv
<1>9. /\ put'[t] = {} /\ cut'[t] = {} /\ at'[t] = at[t] + 1
      /\ \A u \in Tasks : u # t =>
            /\ at'[u] = at[u] /\ put'[u] = put[u] /\ cut'[u] = cut[u]
            /\ found'[u] = found[u]
  BY <1>1
<1>10. ASSUME t \in Payments PROVE PaymentSaved(t)'
  <2>1. at'[t] = 6
    BY <1>2, <1>9, <1>10
  <2>2. ASSUME Closure \in db' PROVE Requests(db') # {}
    <3>1. CASE put[t] = {}
      BY <1>2, <1>3, <1>4, <1>6, <1>10, <2>2, <3>1 DEF PaymentSaved
    <3>2. CASE put[t] # {}
      <4>1. Requests(put[t]) # {}
        BY <1>10, <3>2 DEF RequestsInv
      <4>2. QED
        BY <1>1, <4>1 DEF Requests, In
    <3>3. QED
      BY <3>1, <3>2
  <2>3. QED
    BY <2>1, <2>2 DEF PaymentSaved
<1>11. t \notin Retentions => Rewrites(t)'
  BY <1>2, <1>9 DEF Rewrites
<1>12. t \in Retentions => Removes(t)'
  BY <1>2, <1>5, <1>9 DEF Removes
<1>13. ASSUME NEW u \in Tasks
       PROVE  /\ Closure \notin put'[u]
              /\ u \in Payments => PaymentSaved(u)'
              /\ u \notin Retentions => Rewrites(u)'
              /\ u \in Retentions => Removes(u)'
  <2>1. CASE u = t
    BY <1>9, <1>10, <1>11, <1>12, <2>1
  <2>2. CASE u # t
    BY <1>4, <1>6, <1>8, <1>9, <2>2, OthersSaved
  <2>3. QED
    BY <2>1, <2>2
<1>14. QED
  BY <1>2, <1>7, <1>13 DEF SavedInv

LEMMA SavedWritten ==
    ASSUME TypeInv, Locks, RequestsInv, LinesInv, SavedInv, NEW t \in Tasks, Write(t)
    PROVE  SavedInv'
<1>1. /\ Writes(t) /\ UNCHANGED <<lastId, found>>
      /\ \A u \in Tasks : at'[u] = IF u = t THEN at[t] + 1 ELSE at[u]
      /\ \A u \in Tasks : u # t => put'[u] = put[u] /\ cut'[u] = cut[u]
      /\ \/ /\ InTransaction(t) /\ db' = db
            /\ cut'[t] = cut[t] \cup (Cut(t) \cap db)
            /\ put'[t] = (put[t] \ Cut(t)) \cup Put(t)
         \/ /\ ~InTransaction(t) /\ db' = (db \ Cut(t)) \cup Put(t)
            /\ put[t] = {} /\ cut[t] = {}
            /\ put'[t] = {} /\ cut'[t] = {}
  BY Written
<1>2. /\ Payments \cup Retentions \subseteq Tasks
      /\ Schedules({}) = {} /\ Requests({}) = {}
  BY DEF Tasks, Schedules, Requests, In
<1>3. /\ Closure \notin put[t]
      /\ t \in Payments => PaymentSaved(t)
      /\ t \notin Retentions => Rewrites(t)
      /\ t \in Retentions => Removes(t) /\ put[t] = {}
      /\ t \in Retentions => InTransaction(t)
  BY StepOf, TablesAssumption
  DEF SavedInv, LinesInv, RetentionLines, InTransaction, TablesAssumption
<1>4. /\ Closure \notin Put(t)
      /\ t \notin Retentions => \A s \in Schedules(Cut(t)) : s \in Schedules(Put(t))
      /\ t \notin Retentions =>
            \A q \in Requests(Cut(t)) : \E p \in Requests(Put(t)) : p.id = q.id
      /\ t \in Retentions => Put(t) = {}
  BY <1>1, WrittenAnew
<1>5. Closure \in db' => Closure \in db
  BY <1>1, <1>4
<1>6. ASSUME Requests(db) # {} PROVE Requests(db') # {}
  <2>1. CASE InTransaction(t)
    BY <1>1, <1>6, <2>1
  <2>2. CASE ~InTransaction(t)
    <3>1. PICK q \in Requests(db) : TRUE
      BY <1>6
    <3>2. CASE q \in Cut(t)
      <4>1. PICK p \in Requests(Put(t)) : p.id = q.id
        BY <1>3, <1>4, <2>2, <3>2 DEF Requests, In
      <4>2. QED
        BY <1>1, <2>2, <4>1 DEF Requests, In
    <3>3. CASE q \notin Cut(t)
      BY <1>1, <2>2, <3>3 DEF Requests, In
    <3>4. QED
      BY <3>2, <3>3
  <2>3. QED
    BY <2>1, <2>2
<1>7. ASSUME NEW q \in Requests(db') PROVE Scheduled(q, db')
  <2>1. PICK p \in Requests(db) : p.id = q.id
    BY WriteAddsNoRequest
  <2>2. PICK s \in Schedules(db) : s.request = q.id
    BY <2>1 DEF SavedInv, Scheduled
  <2>3. s \in Schedules(db')
    <3>1. CASE InTransaction(t)
      BY <1>1, <3>1
    <3>2. CASE ~InTransaction(t)
      BY <1>1, <1>3, <1>4, <3>2 DEF Schedules, In
    <3>3. QED
      BY <3>1, <3>2
  <2>4. QED
    BY <2>2, <2>3 DEF Scheduled
<1>8. ASSUME t \in Payments PROVE PaymentSaved(t)'
  <2>1. /\ InTransaction(t) /\ at[t] \in 2..4 /\ Cut(t) = {}
        /\ at[t] = 4 => Put(t) = {Schedule(lastId + 1, t)}
    BY <1>1, <1>8, PaymentWrites
  <2>2. at'[t] = at[t] + 1 /\ put'[t] = put[t] \cup Put(t) /\ lastId' = lastId
    BY <1>1, <2>1
  <2>3. at'[t] \notin 6..99 /\ (at'[t] = 5 => at[t] = 4)
    BY <2>1, <2>2
  <2>4. /\ Schedule(lastId + 1, t).table = "schedule"
        /\ Schedule(lastId + 1, t).request = lastId + 1
    BY DEF Schedule
  <2>5. at'[t] = 5 => \E s \in Schedules(put'[t]) : s.request = lastId' + 1
    BY <2>1, <2>2, <2>3, <2>4 DEF Schedules, In
  <2>6. at'[t] = 5 => put'[t] # {}
    BY <2>1, <2>2, <2>3
  <2>7. QED
    BY <2>3, <2>5, <2>6 DEF PaymentSaved
<1>9. ASSUME t \notin Retentions PROVE Rewrites(t)'
  <2>1. CASE ~InTransaction(t)
    BY <1>1, <1>2, <2>1 DEF Rewrites
  <2>2. CASE InTransaction(t)
    <3>1. /\ cut'[t] = cut[t] \cup (Cut(t) \cap db)
          /\ put'[t] = (put[t] \ Cut(t)) \cup Put(t)
      BY <1>1, <2>2
    <3>2. ASSUME NEW s \in Schedules(cut'[t])
          PROVE  \E z \in Schedules(put'[t]) : z.request = s.request
      <4>1. CASE s \in Cut(t)
        <5>1. s \in Schedules(Cut(t))
          BY <3>2, <4>1 DEF Schedules, In
        <5>2. s \in Schedules(Put(t))
          BY <1>4, <1>9, <5>1
        <5>3. s \in Schedules(put'[t])
          BY <3>1, <5>2 DEF Schedules, In
        <5>4. QED
          BY <5>3
      <4>2. CASE s \notin Cut(t)
        <5>1. PICK z \in Schedules(put[t]) : z.request = s.request
          BY <1>3, <1>9, <3>1, <3>2, <4>2 DEF Rewrites, Schedules, In
        <5>2. z \in Schedules(put'[t])
          BY <1>4, <1>9, <3>1, <5>1 DEF Schedules, In
        <5>3. QED
          BY <5>1, <5>2
      <4>3. QED
        BY <4>1, <4>2
    <3>3. ASSUME NEW q \in Requests(cut'[t])
          PROVE  \E p \in Requests(put'[t]) : p.id = q.id
      <4>1. ASSUME NEW x \in Requests(Cut(t)), x.id = q.id
            PROVE  \E p \in Requests(put'[t]) : p.id = q.id
        <5>1. PICK p \in Requests(Put(t)) : p.id = x.id
          BY <1>4, <1>9, <4>1
        <5>2. p \in Requests(put'[t])
          BY <3>1, <5>1 DEF Requests, In
        <5>3. QED
          BY <4>1, <5>1, <5>2
      <4>2. CASE q \in Cut(t)
        <5>1. q \in Requests(Cut(t))
          BY <3>3, <4>2 DEF Requests, In
        <5>2. QED
          BY <4>1, <5>1
      <4>3. CASE q \notin Cut(t)
        <5>1. q \in Requests(cut[t])
          BY <3>1, <3>3, <4>3 DEF Requests, In
        <5>2. PICK p \in Requests(put[t]) : p.id = q.id
          BY <1>3, <1>9, <5>1 DEF Rewrites
        <5>3. CASE p \in Cut(t)
          <6>1. p \in Requests(Cut(t))
            BY <5>2, <5>3 DEF Requests, In
          <6>2. QED
            BY <4>1, <5>2, <6>1
        <5>4. CASE p \notin Cut(t)
          BY <3>1, <5>2, <5>4 DEF Requests, In
        <5>5. QED
          BY <5>3, <5>4
      <4>4. QED
        BY <4>2, <4>3
    <3>4. QED
      BY <3>2, <3>3 DEF Rewrites
  <2>3. QED
    BY <2>1, <2>2
<1>10. ASSUME t \in Retentions PROVE Removes(t)'
  <2>1. /\ at[t] \in 1..8
        /\ \A s \in Schedules(Cut(t)) : s.request \in found[t].requests
        /\ at[t] = 1 => Schedules(Cut(t)) = {}
        /\ at[t] = 1 /\ Closure \in db => Closure \in cut[t] \cup (Cut(t) \cap db)
    BY <1>1, <1>3, <1>10, RemovalWrites
  <2>2. /\ db' = db /\ cut'[t] = cut[t] \cup (Cut(t) \cap db)
        /\ at'[t] = at[t] + 1 /\ found'[t] = found[t]
    BY <1>1, <1>3, <1>10
  <2>3. Removes(t)
    BY <1>3, <1>10
  <2>4. Closure \in db' => Closure \in cut'[t]
    <3>1. CASE at[t] = 1
      BY <2>1, <2>2, <3>1
    <3>2. CASE at[t] # 1
      <4>1. at[t] \in 2..9
        BY <2>1, <3>2
      <4>2. QED
        BY <2>2, <2>3, <4>1 DEF Removes
    <3>3. QED
      BY <3>1, <3>2
  <2>5. \A s \in Schedules(cut'[t]) :
           s \in Schedules(cut[t]) \/ s \in Schedules(Cut(t))
    BY <2>2 DEF Schedules, In
  <2>6. \A s \in Schedules(cut'[t]) : s.request \in found'[t].requests
    BY <2>1, <2>2, <2>3, <2>5 DEF Removes
  <2>7. ASSUME at'[t] \in 0..2 PROVE Schedules(cut'[t]) = {}
    <3>1. at[t] = 1 /\ 1 \in 0..2
      BY <2>1, <2>2, <2>7
    <3>2. Schedules(cut[t]) = {} /\ Schedules(Cut(t)) = {}
      BY <2>1, <2>3, <3>1 DEF Removes
    <3>3. QED
      BY <2>5, <3>2
  <2>8. QED
    BY <2>4, <2>6, <2>7 DEF Removes
<1>11. Closure \notin put'[t]
  BY <1>1, <1>3, <1>4
<1>12. ASSUME NEW u \in Tasks
       PROVE  /\ Closure \notin put'[u]
              /\ u \in Payments => PaymentSaved(u)'
              /\ u \notin Retentions => Rewrites(u)'
              /\ u \in Retentions => Removes(u)'
  <2>1. CASE u = t
    BY <1>8, <1>9, <1>10, <1>11, <2>1
  <2>2. CASE u # t
    BY <1>1, <1>5, <1>6, <2>2, OthersSaved
  <2>3. QED
    BY <2>1, <2>2
<1>13. QED
  BY <1>2, <1>7, <1>12 DEF SavedInv

LEMMA SavedKept ==
    TypeInv /\ Locks /\ RequestsInv /\ LinesInv /\ SavedInv
        /\ (TablesNext \/ UNCHANGED tablesVars) => SavedInv'
<1> SUFFICES ASSUME TypeInv, Locks, RequestsInv, LinesInv, SavedInv,
                    TablesNext \/ UNCHANGED tablesVars
             PROVE  SavedInv'
  OBVIOUS
<1>1. /\ Schedules({}) = {} /\ Requests({}) = {}
      /\ \A t \in Tasks : at[t] \in Nat
      /\ Payments \cup Retentions \subseteq Tasks
  BY DEF TypeInv, TablesTyped, Tasks, Schedules, Requests, In
<1>2. /\ \A t \in Payments : PaymentSaved(t)
      /\ \A t \in Retentions : Removes(t)
      /\ \A t \in Payments : /\ put[t] # {} => at[t] \in 3..5
                             /\ cut[t] = {}
  BY DEF SavedInv, RequestsInv
<1>3. ASSUME UNCHANGED <<lastId, put, cut, at, found>>,
             Requests(db') = Requests(db), Closure \in db' => Closure \in db,
             \A q \in Requests(db) : Scheduled(q, db) => Scheduled(q, db')
      PROVE  SavedInv'
  BY <1>3 DEF SavedInv, PaymentSaved, Rewrites, Removes
<1>4. CASE UNCHANGED <<db, lastId, put, cut, at, found>>
  BY <1>3, <1>4
<1>5. CASE ProcessPaymentRequest
  <2>1. PICK s, z : /\ s \in Schedules(db) /\ z.request = s.request
                    /\ Schedules(db') = (Schedules(db) \ {s}) \cup {z}
    BY <1>5, Processed
  <2>2. \A q \in Requests(db) : Scheduled(q, db) => Scheduled(q, db')
    BY <2>1 DEF Scheduled
  <2>3. QED
    BY <1>3, <1>5, <2>2, Processed
<1>6. ASSUME NEW t \in Tasks, Start(t) PROVE SavedInv'
  <2>1. /\ Moved(t, 1) /\ at[t] = 0 /\ put'[t] = put[t] /\ cut'[t] = cut[t]
    BY <1>6, Started
  <2>2. 1 \in Nat /\ 1 \notin 6..99 /\ 1 # 5 /\ 1 \notin 2..9 /\ 0 \in 0..2
    OBVIOUS
  <2>3. t \in Retentions => Schedules(cut'[t]) = {}
    BY <1>2, <2>1, <2>2 DEF Removes
  <2>4. QED
    BY <2>1, <2>2, <2>3, SavedMoved
<1>7. ASSUME NEW t \in Tasks, LookUp(t) PROVE SavedInv'
  <2>1. PICK f \in Found, i \in Nat :
              /\ Looked(t, f, i) /\ Moved(t, i) /\ found'[t] = f
              /\ put'[t] = put[t] /\ cut'[t] = cut[t]
    BY <1>7, LookedUp
  <2>2. ASSUME t \in Payments
        PROVE  /\ i \notin 6..99 /\ put'[t] = {}
               /\ i = 5 => (Closure \in db => Requests(db) # {})
    <3>1. at[t] = 1 /\ t \notin Rejections /\ t \notin Retentions
      BY <2>1, <2>2, PaymentPlace, TablesAssumption DEF Looked, Lookups, TablesAssumption
    <3>2. put[t] = {} /\ cut[t] = {}
      BY <1>2, <2>2, <3>1
    <3>3. View(t) = db
      BY <3>2 DEF View
    <3>4. i = 2 \/ (i = 5 /\ Requests(View(t)) # {})
      BY <2>1, <3>1 DEF Looked
    <3>5. QED
      BY <2>1, <3>2, <3>3, <3>4
  <2>3. ASSUME t \in Retentions
        PROVE  /\ i \notin 0..2 /\ at[t] \in 2..9
               /\ f.requests = found[t].requests \/ Schedules(cut[t]) = {}
    <3>1. /\ \/ at[t] = 2 /\ Step(t) = "findRequests"
             \/ at[t] = 3 /\ Step(t) = "findCompleteds"
          /\ t \notin Payments /\ t \notin Rejections
      <4>1. t \notin Payments /\ t \notin Rejections
        BY <2>3, TablesAssumption DEF TablesAssumption
      <4>2. Step(t) \in Lookups
        BY <2>1 DEF Looked
      <4>3. QED
        BY <2>3, <4>1, <4>2, RetentionPlace DEF Lookups
    <3>2. /\ i \notin 0..2
          /\ at[t] = 3 => f.requests = found[t].requests
      BY <2>1, <3>1 DEF Looked
    <3>3. at[t] = 2 => Schedules(cut[t]) = {}
      <4>1. Removes(t) /\ 2 \in 0..2
        BY <1>2, <2>3
      <4>2. QED
        BY <4>1 DEF Removes
    <3>4. QED
      BY <3>1, <3>2, <3>3
  <2>4. QED
    BY <2>1, <2>2, <2>3, SavedMoved
<1>8. ASSUME NEW t \in Tasks, RemoveAutoHold(t) \/ Complete(t) PROVE SavedInv'
  <2>1. PICK i \in Nat :
              /\ Moved(t, i) /\ i = at[t] + 1
              /\ found'[t] = found[t] /\ put'[t] = put[t] /\ cut'[t] = cut[t]
              /\ \/ t \in Replies /\ at[t] = 5
                 \/ t \in Payments /\ at[t] = 6
                 \/ t \in Rejections /\ at[t] = 12
                 \/ t \in Replies /\ at[t] = 7
                 \/ t \in Retentions /\ at[t] = 10
                 \/ t \in Resets /\ at[t] = 7
    BY <1>8, MovedOn
  <2>2. /\ t \in Payments => at[t] = 6 /\ i = 7 /\ 6 \in 6..99
        /\ t \in Retentions => i = 11
    BY <2>1, TablesAssumption DEF TablesAssumption
  <2>3. t \in Payments => (Closure \in db => Requests(db) # {})
    BY <1>2, <2>2 DEF PaymentSaved
  <2>4. t \in Retentions => i \notin 2..9 /\ i \notin 0..2
    BY <2>2
  <2>5. t \in Payments => i # 5
    BY <2>2
  <2>6. QED
    BY <2>1, <2>3, <2>4, <2>5, SavedMoved
<1>9. ASSUME NEW t \in Tasks, RollBack(t) PROVE SavedInv'
  <2>1. PICK i \in Nat :
              /\ Moved(t, i) /\ found'[t] = found[t] /\ put'[t] = {} /\ cut'[t] = {}
              /\ i = IF t \in Payments \cup Rejections THEN 0
                     ELSE IF t \in Replies THEN IF Step(t) = "complete" THEN 0 ELSE 7
                     ELSE Failed
    BY <1>9, RolledBack
  <2>2. t \in Payments => i = 0
    BY <2>1
  <2>3. t \in Retentions => i = 101
    BY <2>1, TablesAssumption DEF TablesAssumption, Failed
  <2>4. /\ t \in Payments => i \notin 6..99 /\ i # 5
        /\ t \in Retentions => i \notin 2..9
    BY <2>2, <2>3
  <2>5. Schedules(cut'[t]) = {}
    BY <1>1, <2>1
  <2>6. QED
    BY <2>1, <2>4, <2>5, SavedMoved
<1>10. QED
  BY <1>4, <1>5, <1>6, <1>7, <1>8, <1>9, SavedWritten, SavedCommitted, Steps, ErrorsRollBack

\* A payment that is off its queue has its request, with lines and a schedule.
LEMMA Accepted ==
    TypeInv /\ RequestsInv /\ LinesInv /\ SavedInv => AcceptedIsSaved
<1> SUFFICES ASSUME TypeInv, RequestsInv, LinesInv, SavedInv,
                    NEW t \in Payments, Finished(t), Closure \in db
             PROVE  /\ Cardinality(Requests(db)) = 1
                    /\ \A q \in Requests(db) : /\ Of("schedule", {q.id}, db) # {}
                                               /\ Of("invoiceLines", {q.id}, db) # {}
  BY DEF AcceptedIsSaved, AgreementRemoved, Requests
<1>1. at[t] \in 6..99
  <2>1. at[t] \in Nat /\ at[t] > 6 /\ at[t] < 100
    BY PaymentPlace DEF TypeInv, TablesTyped, Tasks, Finished, Absent
  <2>2. QED
    BY <2>1
<1>2. PICK q \in Requests(db) : TRUE
  BY <1>1 DEF SavedInv, PaymentSaved
<1>3. Requests(db) = {q}
  BY <1>2 DEF RequestsInv
<1>4. Cardinality(Requests(db)) = 1
  BY <1>3, FS_Singleton
<1>5. Of("schedule", {q.id}, db) # {} /\ Of("invoiceLines", {q.id}, db) # {}
  BY <1>2 DEF SavedInv, Scheduled, LinesInv, OfOne, LinesOf, Lines, Schedules, Of
<1>6. QED
  BY <1>3, <1>4, <1>5

-----------------------------------------------------------------------------
(* Payments.  A payment is voided and scheduled again by two statements,   *)
(* and the pod completes schedules in between.  So a request is scheduled  *)
(* or paid, or a reset is on its way to schedule it.                       *)

Completeds(rows) == In("completedPaymentRequests", rows)

\* Payment i will be paid, or it is paid.
Settled(i, rows) ==
    \/ \E s \in Schedules(rows) : s.request = i /\ ~s.done
    \/ \E c \in Completeds(rows) : c.request = i /\ ~c.invalid

\* A reset of i has voided the payment and is to schedule it.
Resetting(i) ==
    \E x \in Resets :
        /\ i \in found[x].requests
        /\ at[x] = 5 \/ (at[x] = 6 /\ found[x].schedule = {})

\* Why payment i may not be settled: a reset failed half-way, or is at it.
Excused(i) == halfReset # {} \/ Resetting(i)

\* What a transaction has written to schedules and payments.
OwnSchedules(t) ==
    \A s \in Schedules(put[t]) :
        \/ s \in cut[t]
        \/ t \in Rejections /\ s.by = t
        \/ t \in Payments /\ s = Schedule(lastId + 1, t)

\* Completed rows are marked, never renamed, and only a rejection or a removal
\* replaces any in a transaction.
OwnPayments(t) ==
    /\ \A c \in Completeds(put[t]) : \E d \in Completeds(cut[t]) :
          d.id = c.id /\ d.request = c.request
    /\ \A r \in Schedules(cut[t]) \cup Completeds(cut[t]) :
          r.request \in found[t].requests /\ t \in Rejections \cup Retentions

\* A rejection rewrites schedules and deletes none; it knows one request, which it
\* has locked before it voids the payment, and it has a hold before it schedules
\* the payment the second time.
RejectionRows(t) ==
    /\ Schedules(cut[t]) \subseteq put[t]
    /\ at[t] \in 2..3 => put[t] = {} /\ cut[t] = {}
    /\ at[t] \in 3..11 => \E i \in 0..lastId : found[t].requests = {i}
    /\ at[t] \in 4..11 =>
          \A q \in Requests(db) : q.id \in found[t].requests => q \in cut[t]
    /\ at[t] \in 9..11 => Hold \in db \cup put[t]
    /\ at[t] \in {6, 10} => \A s \in found[t].schedule : s.request \in found[t].requests

\* A removal replaces no payment before it has read the requests, and then only
\* theirs.
RetentionRows(t) ==
    /\ at[t] \in 0..2 => Schedules(cut[t]) = {} /\ Completeds(cut[t]) = {}
    /\ at[t] \in 4..8 => \A k \in found[t].completed : k[1] \in found[t].requests

\* A completed row is of the schedule of its name, so that the pod never writes a
\* payment that is there already: an open schedule has one only if a rejection
\* made it, and then there is a hold and the pod waits.
PaidRows ==
    /\ \A c \in Completeds(db) : c.id[1] = c.request /\ c.request <= lastId
    /\ \A s \in Schedules(db) : s.by \in Rejections => Hold \in db
    /\ \A s \in Schedules(db) : s.by \in Resets => at[s.by] > 6
    /\ \A c \in Completeds(db) : c.id[2] \in Resets => at[c.id[2]] > 6
    /\ \A s \in Schedules(db), c \in Completeds(db) :
          ~s.done /\ c.id = <<s.request, s.by>> => s.by \in Rejections

\* The schedules and completed rows of the handlers together.
RowsInv ==
    /\ PaidRows
    /\ \A t \in Tasks : OwnSchedules(t) /\ OwnPayments(t)
    /\ \A t \in Rejections : RejectionRows(t)
    /\ \A t \in Retentions : RetentionRows(t)
    /\ \A x \in Resets : at[x] \in 2..6 => \E i \in 0..lastId : found[x].requests = {i}

\* A rejection has ensured that the payment it voided is scheduled.
Ensured(t) == (at[t] = 6 /\ found[t].schedule # {}) \/ at[t] \in 7..11

\* So the payment is not lost.
Provided(i, rows) == Settled(i, rows) \/ Excused(i)

\* It is so in what is committed, and in what a rejection will commit.
SettledInv ==
    /\ \A q \in Requests(db) : Provided(q.id, db)
    /\ \A t \in Rejections : Ensured(t) =>
          \A q \in Requests(db) : q.id \in found[t].requests => Provided(q.id, View(t))

\* A row of a table, by how the set of rows was made.
LEMMA RowsOf ==
    ASSUME NEW a, NEW b, NEW c
    PROVE  /\ Schedules((a \ b) \cup c) = (Schedules(a) \ b) \cup Schedules(c)
           /\ Completeds((a \ b) \cup c) = (Completeds(a) \ b) \cup Completeds(c)
           /\ Schedules(a \cup b) = Schedules(a) \cup Schedules(b)
           /\ Completeds(a \cup b) = Completeds(a) \cup Completeds(b)
           /\ Schedules(a) \subseteq a /\ Completeds(a) \subseteq a
           /\ Schedules({}) = {} /\ Completeds({}) = {} /\ Requests({}) = {}
  BY DEF Schedules, Completeds, Requests, In

\* A new schedule is open.
LEMMA NewSchedule ==
    ASSUME NEW i, NEW t
    PROVE  /\ Schedule(i, t).table = "schedule" /\ Schedule(i, t).request = i
           /\ Schedule(i, t).by = t /\ Schedule(i, t).done = FALSE
           /\ Schedule(i, t) \in Schedules({Schedule(i, t)})
  BY DEF Schedule, Schedules, In

\* The statements that write schedules or completed rows.
LEMMA ScheduleStatements ==
    ASSUME TypeInv, NEW t \in Tasks, Writes(t)
    PROVE  /\ Step(t) \notin {"insertSchedule", "schedule", "removeSchedules"} =>
                 Schedules(Cut(t)) = {} /\ Schedules(Put(t)) = {}
           /\ Step(t) \notin {"acknowledge", "invalidate", "removeCompleted"} =>
                 Completeds(Cut(t)) = {} /\ Completeds(Put(t)) = {}
           /\ Hold \notin Cut(t)
<1>1. TablesTyped
  BY DEF TypeInv
<1>2. /\ \A r \in RequestRow : r.table = "paymentRequests"
      /\ \A l \in LineRow : l.table = "invoiceLines"
      /\ \A s \in ScheduleRow : s.table = "schedule"
      /\ \A c \in CompletedRow : c.table = "completedPaymentRequests"
      /\ \A o \in OutboxRow : o.table = "outbox"
      /\ Closure.table = "frnAgreementClosed" /\ Hold.table = "holds"
  BY DEF RequestRow, LineRow, ScheduleRow, CompletedRow, OutboxRow, Closure, Hold
<1>3. QED
  BY <1>1, <1>2, StatementRows, WritingSteps DEF Schedules, Completeds, In

\* What is written to completed rows: they are acknowledged or voided.
LEMMA PaymentStatements ==
    ASSUME TypeInv, NEW t \in Tasks, Writes(t)
    PROVE  /\ \A c \in Completeds(Put(t)) :
                 \E d \in Completeds(Cut(t)) : d.id = c.id /\ d.request = c.request
           /\ Step(t) = "acknowledge" =>
                 \A d \in Completeds(Cut(t)) : \E c \in Completeds(Put(t)) :
                    c.request = d.request /\ c.invalid = d.invalid
<1>1. TablesTyped
  BY DEF TypeInv
<1>2. \A c \in CompletedRow : /\ c.table = "completedPaymentRequests"
                              /\ Acknowledged(c).table = "completedPaymentRequests"
                              /\ Acknowledged(c).id = c.id /\ Invalid(c).id = c.id
                              /\ Acknowledged(c).request = c.request
                              /\ Invalid(c).request = c.request
                              /\ Acknowledged(c).invalid = c.invalid
  BY DEF CompletedRow, Acknowledged, Invalid
<1>3. CASE Step(t) \in {"acknowledge", "invalidate"}
  <2>1. Cut(t) \subseteq CompletedRow
    BY <1>1, <1>3, StatementRows
  <2>2. \A d \in Cut(t) : d \in Completeds(Cut(t))
    BY <1>2, <2>1 DEF Completeds, In
  <2>3. \A c \in Put(t) : \E d \in Cut(t) : d.id = c.id /\ d.request = c.request
    BY <1>2, <1>3, <2>1, PutIs
  <2>4. ASSUME Step(t) = "acknowledge", NEW d \in Completeds(Cut(t))
        PROVE  \E c \in Completeds(Put(t)) : c.request = d.request /\ c.invalid = d.invalid
    <3>1. d \in Cut(t)
      BY <2>4 DEF Completeds, In
    <3>5. Acknowledged(d) \in Put(t)
      BY <2>4, <3>1, PutIs
    <3>2. Acknowledged(d) \in Completeds(Put(t))
      BY <1>2, <2>1, <3>1, <3>5 DEF Completeds, In
    <3>3. QED
      BY <1>2, <2>1, <3>1, <3>2
  <2>5. QED
    BY <2>2, <2>3, <2>4, RowsOf
<1>4. CASE Step(t) = "removeCompleted"
  BY <1>4, PutIs, RowsOf
<1>5. CASE Step(t) \notin {"acknowledge", "invalidate", "removeCompleted"}
  BY <1>5, ScheduleStatements
<1>6. QED
  BY <1>3, <1>4, <1>5

\* What is written to schedules: a new one, or the one that was found.
LEMMA EnsureWrites ==
    ASSUME TypeInv, NEW t \in Tasks, Step(t) = "schedule"
    PROVE  /\ Cut(t) \subseteq Put(t) /\ Cut(t) \subseteq found[t].schedule
           /\ found[t].schedule # {} => Put(t) = Cut(t)
           /\ found[t].schedule = {} =>
                 Cut(t) = {} /\ Put(t) = {Schedule(i, t) : i \in found[t].requests}
           /\ \A s \in Schedules(Put(t)) :
                 \/ s \in Cut(t)
                 \/ \E i \in found[t].requests : s = Schedule(i, t) /\ found[t].schedule = {}
           /\ \/ t \in Resets /\ at[t] = 6
              \/ t \in Rejections /\ at[t] \in {6, 10}
<1>1. /\ Cut(t) = found[t].schedule \cap View(t)
      /\ Put(t) = IF found[t].schedule = {}
                  THEN {Schedule(i, t) : i \in found[t].requests} ELSE Cut(t)
  BY CutIs, PutIs DEF AbandonSchedule
<1>2. QED
  BY <1>1, StepOf, RowsOf

\* At first there are no payments.
LEMMA RowsInitially == TablesInit => RowsInv /\ SettledInv
<1> SUFFICES ASSUME TablesInit PROVE RowsInv /\ SettledInv
  OBVIOUS
<1>1. /\ db = {Closure} /\ put = [t \in Tasks |-> {}] /\ cut = [t \in Tasks |-> {}]
      /\ \A t \in Tasks : at[t] \in {0, 100}
      /\ Rejections \cup Retentions \cup Resets \subseteq Tasks
  BY DEF TablesInit, Tasks, Absent
<1>2. /\ Requests({}) = {} /\ Requests({Closure}) = {}
      /\ Schedules({}) = {} /\ Schedules({Closure}) = {}
      /\ Completeds({}) = {} /\ Completeds({Closure}) = {}
  BY DEF Requests, Schedules, Completeds, In, Closure
<1>3. PaidRows
  BY <1>1, <1>2 DEF PaidRows
<1>4. \A t \in Tasks : OwnSchedules(t) /\ OwnPayments(t)
  BY <1>1, <1>2 DEF OwnSchedules, OwnPayments
<1>5. \A t \in Rejections : RejectionRows(t)
  BY <1>1, <1>2 DEF RejectionRows
<1>6. \A t \in Retentions : RetentionRows(t)
  BY <1>1, <1>2 DEF RetentionRows
<1>7. QED
  BY <1>1, <1>2, <1>3, <1>4, <1>5, <1>6 DEF RowsInv, SettledInv, Ensured

\* The pod completes an open schedule that no one has locked, of a request that
\* is there and not on hold.
LEMMA Pays ==
    ASSUME TypeInv, ProcessPaymentRequest
    PROVE  /\ UNCHANGED <<lastId, put, cut, at, found, halfReset>> /\ Hold \notin db
           /\ Requests(db') = Requests(db)
           /\ \E s, z, c :
                 /\ s \in Schedules(db)
                 /\ z.request = s.request /\ z.by = s.by /\ z.done
                 /\ c.request = s.request /\ c.id = <<s.request, s.by>> /\ ~c.invalid
                 /\ Schedules(db') = (Schedules(db) \ {s}) \cup {z}
                 /\ Completeds(db') = Completeds(db) \cup {c}
                 /\ s.request <= lastId /\ ~s.done /\ \A t \in Tasks : s \notin cut[t]
                 /\ \A y \in Schedules(db) :
                       y.request = s.request /\ y.by = s.by /\ ~y.done => y = s
<1>1. TablesTyped /\ db \in SUBSET Row
  BY DEF TypeInv, TablesTyped
<1>2. PICK s \in db :
        /\ s \in ScheduleRow /\ Processable(s)
        /\ db' = (db \ {s}) \cup {Done(s), Completed(s.request, s.by),
                                   Outbox(s.request, s.by)}
        /\ UNCHANGED <<lastId, put, cut, at, found>>
  BY <1>1, ProcessDoes
<1> DEFINE z == Done(s)
           c == Completed(s.request, s.by)
           o == Outbox(s.request, s.by)
<1>3. /\ z \in ScheduleRow /\ c \in CompletedRow /\ o \in OutboxRow
  BY <1>2, ProcessedRows
<1>4. /\ z.request = s.request /\ z.by = s.by /\ z.done = TRUE
      /\ c.request = s.request /\ c.id = <<s.request, s.by>> /\ c.invalid = FALSE
  BY <1>2 DEF Done, Completed, ScheduleRow
<1>5. db' = (db \ {s}) \cup {z, c, o}
  BY <1>2
<1> HIDE DEF z, c, o
<1>6. /\ s.table = "schedule" /\ z.table = "schedule"
      /\ c.table = "completedPaymentRequests" /\ o.table = "outbox"
  BY <1>2, <1>3 DEF ScheduleRow, CompletedRow, OutboxRow
<1>7. /\ Requests(db') = Requests(db) /\ s \in Schedules(db)
      /\ Schedules(db') = (Schedules(db) \ {s}) \cup {z}
      /\ Completeds(db') = Completeds(db) \cup {c}
  BY <1>2, <1>5, <1>6 DEF Requests, Schedules, Completeds, In
<1>8. s.request <= lastId
  <2>1. PICK p \in db : Refers(s, p)
    BY <1>2 DEF Processable
  <2>2. p \in Requests(db) /\ p.id = s.request
    BY <1>6, <2>1 DEF Refers, Requests, In
  <2>3. QED
    BY <2>2 DEF TypeInv, Numbered
<1>9. ~s.done /\ Hold \notin db /\ \A t \in Tasks : s \notin cut[t]
  BY <1>2 DEF Processable, Locked
<1>10. \A y \in Schedules(db) : y.request = s.request /\ y.by = s.by /\ ~y.done => y = s
  <2>1. \A y \in Schedules(db) : y \in ScheduleRow
    BY <1>1, InTable
  <2>2. \A y \in ScheduleRow :
           y.request = s.request /\ y.by = s.by /\ ~y.done => y = s
    BY <1>2, <1>9 DEF ScheduleRow
  <2>3. QED
    BY <2>1, <2>2
<1>11. halfReset' = halfReset
  BY DEF ProcessPaymentRequest
<1>12. QED
  BY <1>2, <1>4, <1>7, <1>8, <1>9, <1>10, <1>11

\* The pod completes a row that no handler is at.
LEMMA RowsProcessed ==
    ASSUME TypeInv, RowsInv, ProcessPaymentRequest
    PROVE  RowsInv'
<1>1. /\ UNCHANGED <<lastId, put, cut, at, found>> /\ Hold \notin db
      /\ Requests(db') = Requests(db)
  BY Pays
<1>2. PICK s, z, c :
         /\ s \in Schedules(db)
         /\ z.request = s.request /\ z.by = s.by /\ z.done
         /\ c.request = s.request /\ c.id = <<s.request, s.by>> /\ ~c.invalid
         /\ Schedules(db') = (Schedules(db) \ {s}) \cup {z}
         /\ Completeds(db') = Completeds(db) \cup {c}
         /\ s.request <= lastId /\ ~s.done /\ \A t \in Tasks : s \notin cut[t]
         /\ \A y \in Schedules(db) :
               y.request = s.request /\ y.by = s.by /\ ~y.done => y = s
  BY Pays
<1>3. PaidRows /\ s.by \notin Rejections /\ c.id[1] = s.request /\ c.id[2] = s.by
  BY <1>1, <1>2 DEF RowsInv, PaidRows
<1>4. \A x \in Completeds(db') : x.id[1] = x.request /\ x.request <= lastId
  BY <1>2, <1>3 DEF PaidRows
<1>5. \A y \in Schedules(db') : y.by \notin Rejections
  BY <1>1, <1>2, <1>3 DEF PaidRows
<1>6. \A y \in Schedules(db') : y.by \in Resets => at[y.by] > 6
  BY <1>2, <1>3 DEF PaidRows
<1>7. \A x \in Completeds(db') : x.id[2] \in Resets => at[x.id[2]] > 6
  BY <1>2, <1>3 DEF PaidRows
<1>8. ASSUME NEW y \in Schedules(db'), NEW x \in Completeds(db'),
             ~y.done, x.id = <<y.request, y.by>>
      PROVE  y.by \in Rejections
  <2>1. y \in Schedules(db) /\ y # s
    BY <1>2, <1>8
  <2>2. x \in Completeds(db)
    <3>1. ASSUME x = c PROVE FALSE
      <4>1. y.request = s.request /\ y.by = s.by
        BY <1>2, <1>8, <3>1
      <4>2. QED
        BY <1>2, <1>8, <2>1, <4>1
    <3>2. QED
      BY <1>2, <3>1
  <2>3. QED
    BY <1>3, <1>8, <2>1, <2>2 DEF PaidRows
<1>9. PaidRows'
  BY <1>1, <1>4, <1>5, <1>6, <1>7, <1>8 DEF PaidRows
<1>10. ASSUME NEW t \in Rejections PROVE RejectionRows(t)'
  <2>1. RejectionRows(t)
    BY DEF RowsInv
  <2>2. QED
    BY <1>1, <2>1 DEF RejectionRows
<1>11. QED
  BY <1>1, <1>9, <1>10 DEF RowsInv, OwnSchedules, OwnPayments, RetentionRows

\* The schedule that is found is an open one of the request.
LEMMA ScheduleFound ==
    ASSUME TypeInv, NEW t \in Tasks, LookUp(t), Step(t) = "findSchedule"
    PROVE  /\ found'[t].requests = found[t].requests /\ at'[t] = at[t] + 1
           /\ \/ found'[t].schedule = {}
              \/ \E s \in Schedules(View(t)) :
                    /\ s.request \in found[t].requests /\ ~s.done
                    /\ found'[t].schedule = {s}
<1> DEFINE f == found[t]
           open == {s \in Of("schedule", f.requests, View(t)) : ~s.done}
<1>1. TablesTyped /\ f \in Found
  BY ViewType DEF TypeInv
<1>2. \/ Finds(t, [f EXCEPT !.schedule = {}], at[t] + 1)
      \/ \E s \in open : Finds(t, [f EXCEPT !.schedule = {s}], at[t] + 1)
  BY DEF LookUp
<1>3. \A x : /\ [f EXCEPT !.schedule = x].requests = f.requests
             /\ [f EXCEPT !.schedule = x].schedule = x
  BY <1>1 DEF Found
<1>4. ASSUME NEW g, Finds(t, g, at[t] + 1)
      PROVE  found'[t] = g /\ at'[t] = at[t] + 1
  BY <1>1, <1>4 DEF Finds, MoveTo, TablesTyped
<1>5. \A s \in open : s \in Schedules(View(t)) /\ s.request \in f.requests /\ ~s.done
  BY DEF Of, Schedules, In
<1> HIDE DEF open
<1>6. CASE Finds(t, [f EXCEPT !.schedule = {}], at[t] + 1)
  BY <1>3, <1>4, <1>6
<1>7. ASSUME NEW s \in open, Finds(t, [f EXCEPT !.schedule = {s}], at[t] + 1)
      PROVE  /\ found'[t].requests = f.requests /\ at'[t] = at[t] + 1
             /\ found'[t].schedule = {s}
  BY <1>3, <1>4, <1>7
<1>8. QED
  BY <1>2, <1>5, <1>6, <1>7

\* The request of a rejection is that of a completed row.
LEMMA RejectedFound ==
    ASSUME TypeInv, NEW t \in Tasks, LookUp(t), Step(t) = "findRejected"
    PROVE  \/ found'[t] = found[t] /\ at'[t] = 12
           \/ /\ at'[t] = 3
              /\ \E c \in Completeds(View(t)) : found'[t].requests = {c.request}
<1> DEFINE f == found[t]
           done == Completeds(View(t))
<1>1. TablesTyped /\ f \in Found
  BY ViewType DEF TypeInv
<1>2. t \in Rejections /\ at[t] = 2 /\ PlaceOf(t, "complete") = 12
  BY StepOf, RejectionPlace
<1>3. \/ Finds(t, f, 12)
      \/ \E c \in done : Finds(t, [f EXCEPT !.requests = {c.request}], 3)
  BY <1>2 DEF LookUp, Completeds
<1>4. \A x : [f EXCEPT !.requests = x].requests = x
  BY <1>1 DEF Found
<1>5. ASSUME NEW g, NEW i, Finds(t, g, i)
      PROVE  found'[t] = g /\ at'[t] = i
  BY <1>1, <1>5 DEF Finds, MoveTo, TablesTyped
<1> HIDE DEF done
<1>6. CASE Finds(t, f, 12)
  BY <1>5, <1>6
<1>7. ASSUME NEW c \in done, Finds(t, [f EXCEPT !.requests = {c.request}], 3)
      PROVE  at'[t] = 3 /\ found'[t].requests = {c.request}
  BY <1>4, <1>5, <1>7
<1>8. QED
  BY <1>3, <1>6, <1>7 DEF done

\* A handler that has written, or not, and moves on.
LEMMA RowsMoved ==
    ASSUME TypeInv, RowsInv, NEW t \in Tasks, NEW i \in Nat, Moved(t, i),
           \/ put'[t] = put[t] /\ cut'[t] = cut[t]
           \/ put'[t] = {} /\ cut'[t] = {},
           \/ found'[t].requests = found[t].requests
           \/ Schedules(cut'[t]) = {} /\ Completeds(cut'[t]) = {},
           t \in Rejections => RejectionRows(t)',
           t \in Retentions => RetentionRows(t)',
           t \in Resets =>
              /\ i \in 2..6 => \E j \in 0..lastId : found'[t].requests = {j}
              /\ at[t] > 6 => i > 6
    PROVE  RowsInv'
<1>1. /\ db' = db /\ lastId' = lastId
      /\ \A u \in Tasks : at'[u] = IF u = t THEN i ELSE at[u]
      /\ \A u \in Tasks : u # t => /\ put'[u] = put[u] /\ cut'[u] = cut[u]
                                   /\ found'[u] = found[u]
      /\ Rejections \cup Retentions \cup Resets \subseteq Tasks
      /\ Schedules({}) = {} /\ Completeds({}) = {}
  BY RowsOf DEF Moved, Tasks
<1>2. PaidRows'
  <2>1. \A x \in Resets : at[x] > 6 => at'[x] > 6
    BY <1>1
  <2>2. PaidRows
    BY DEF RowsInv
  <2>3. QED
    BY <1>1, <2>1, <2>2 DEF PaidRows
<1>3. ASSUME NEW u \in Tasks PROVE OwnSchedules(u)' /\ OwnPayments(u)'
  <2>1. OwnSchedules(u) /\ OwnPayments(u)
    BY DEF RowsInv
  <2>2. CASE u # t
    BY <1>1, <2>1, <2>2 DEF OwnSchedules, OwnPayments
  <2>3. CASE u = t
    <3>1. OwnSchedules(u)'
      BY <1>1, <2>1, <2>3 DEF OwnSchedules
    <3>2. OwnPayments(u)'
      BY <1>1, <2>1, <2>3 DEF OwnPayments
    <3>3. QED
      BY <3>1, <3>2
  <2>4. QED
    BY <2>2, <2>3
<1>4. ASSUME NEW u \in Rejections PROVE RejectionRows(u)'
  <2>1. RejectionRows(u)
    BY DEF RowsInv
  <2>2. QED
    BY <1>1, <2>1 DEF RejectionRows
<1>5. ASSUME NEW u \in Retentions PROVE RetentionRows(u)'
  <2>1. RetentionRows(u)
    BY DEF RowsInv
  <2>2. QED
    BY <1>1, <2>1 DEF RetentionRows
<1>6. ASSUME NEW x \in Resets, at'[x] \in 2..6
      PROVE  \E j \in 0..lastId' : found'[x].requests = {j}
  BY <1>1, <1>6 DEF RowsInv
<1>7. QED
  BY <1>2, <1>3, <1>4, <1>5, <1>6 DEF RowsInv

\* The request that is seen is one that has been numbered.
LEMMA IdsSeen ==
    ASSUME TypeInv, Locks, RequestsInv, NEW t \in Tasks, t \notin Payments,
           Requests(View(t)) # {}
    PROVE  \E j \in 0..lastId : Ids(Requests(View(t))) = {j}
<1>1. PICK q \in Requests(View(t)) : TRUE
  OBVIOUS
<1>2. \A p \in Requests(View(t)) : p = q
  BY RequestSeen
<1>3. q.id <= lastId /\ q.id \in Nat /\ lastId \in Nat
  BY RequestSeen, ViewType, InTable DEF TypeInv, TablesTyped, RequestRow
<1>4. Ids(Requests(View(t))) = {q.id}
  BY <1>1, <1>2 DEF Ids
<1>5. QED
  BY <1>3, <1>4

\* A completed row that is seen is named after its request.
LEMMA CompletedSeen ==
    ASSUME Locks, RowsInv, NEW t \in Tasks
    PROVE  \A c \in Completeds(View(t)) :
              c.id[1] = c.request /\ \E d \in Completeds(db) : d.id = c.id
<1>1. ASSUME NEW c \in Completeds(View(t))
      PROVE  \E d \in Completeds(db) : d.id = c.id /\ d.request = c.request
  <2>1. c \in Completeds(db) \/ c \in Completeds(put[t])
    BY <1>1 DEF View, Completeds, In
  <2>2. ASSUME c \in Completeds(put[t])
        PROVE  \E d \in Completeds(db) : d.id = c.id /\ d.request = c.request
    <3>1. PICK d \in Completeds(cut[t]) : d.id = c.id /\ d.request = c.request
      BY <2>2 DEF RowsInv, OwnPayments
    <3>2. d \in Completeds(db)
      BY <3>1 DEF Locks, Completeds, In
    <3>3. QED
      BY <3>1, <3>2
  <2>3. QED
    BY <2>1, <2>2
<1>2. QED
  BY <1>1 DEF RowsInv, PaidRows

\* A look-up writes nothing, and what it finds is of a request that is there.
LEMMA RowsLookedUp ==
    ASSUME TypeInv, Locks, RequestsInv, RowsInv, NEW t \in Tasks, LookUp(t)
    PROVE  RowsInv'
<1>1. PICK f \in Found, i \in Nat :
              /\ Looked(t, f, i) /\ Moved(t, i) /\ found'[t] = f
              /\ put'[t] = put[t] /\ cut'[t] = cut[t]
  BY LookedUp
<1>2. /\ UNCHANGED <<db, lastId>> /\ at'[t] = i /\ Step(t) \in Lookups
      /\ t \notin Payments /\ t \notin Rejections /\ t \notin Retentions => i = at[t] + 1
      /\ t \in Rejections => i = at[t] + 1 \/ (i = 12 /\ at[t] = 2)
      /\ t \in Retentions => i = at[t] + 1 \/ (i = 9 /\ at[t] = 2 /\ f.requests = {})
  BY <1>1, TablesAssumption DEF Looked, Moved, TablesAssumption
<1>3. TablesTyped /\ lastId \in Nat /\ at[t] \in Nat
  BY DEF TypeInv, TablesTyped
<1>4. ASSUME t \in Rejections
      PROVE  /\ RejectionRows(t)'
             /\ \/ f.requests = found[t].requests
                \/ Schedules(cut[t]) = {} /\ Completeds(cut[t]) = {}
  <2>1. /\ \/ at[t] = 2 /\ Step(t) = "findRejected"
           \/ at[t] \in {5, 9} /\ Step(t) = "findSchedule"
           \/ at[t] = 7 /\ Step(t) = "findHold"
    BY <1>2, <1>4, RejectionPlace DEF Lookups
  <2>2. RejectionRows(t)
    BY <1>4 DEF RowsInv
  <2>3. CASE Step(t) = "findRejected"
    <3>1. at[t] = 2 /\ put[t] = {} /\ cut[t] = {}
      <4>1. at[t] = 2 /\ 2 \in 2..3
        BY <2>1, <2>3
      <4>2. QED
        BY <2>2, <4>1 DEF RejectionRows
    <3>2. \/ i = 12
          \/ i = 3 /\ \E c \in Completeds(View(t)) : f.requests = {c.request}
      BY <1>1, <1>2, <2>3, RejectedFound
    <3>3. View(t) = db
      BY <3>1 DEF View
    <3>4. \A c \in Completeds(db) : c.request \in 0..lastId
      <4>1. \A c \in Completeds(db) : c.request \in Nat
        BY <1>3, InTable DEF TablesTyped, CompletedRow, Completeds
      <4>2. QED
        BY <1>3, <4>1 DEF RowsInv, PaidRows
    <3>5. i = 3 => \E j \in 0..lastId : f.requests = {j}
      BY <3>2, <3>3, <3>4
    <3>6. RejectionRows(t)'
      BY <1>1, <1>2, <3>1, <3>2, <3>5, RowsOf DEF RejectionRows
    <3>7. QED
      BY <3>1, <3>6, RowsOf
  <2>4. CASE Step(t) = "findSchedule"
    <3>1. at[t] \in {5, 9} /\ i = at[t] + 1 /\ f.requests = found[t].requests
      BY <1>1, <1>2, <2>1, <2>4, ScheduleFound
    <3>2. \A s \in f.schedule : s.request \in f.requests
      BY <1>1, <2>4, <3>1, ScheduleFound
    <3>3. RejectionRows(t)'
      BY <1>1, <1>2, <2>2, <3>1, <3>2 DEF RejectionRows
    <3>4. QED
      BY <3>1, <3>3
  <2>5. CASE Step(t) = "findHold"
    <3>1. at[t] = 7 /\ i = 8 /\ f.requests = found[t].requests
      BY <1>1, <1>2, <1>4, <2>1, <2>5 DEF Looked
    <3>2. RejectionRows(t)'
      BY <1>1, <1>2, <2>2, <3>1 DEF RejectionRows
    <3>3. QED
      BY <3>1, <3>2
  <2>6. QED
    BY <2>1, <2>3, <2>4, <2>5
<1>5. ASSUME t \in Retentions
      PROVE  /\ RetentionRows(t)'
             /\ \/ f.requests = found[t].requests
                \/ Schedules(cut[t]) = {} /\ Completeds(cut[t]) = {}
  <2>1. /\ \/ at[t] = 2 /\ Step(t) = "findRequests"
           \/ at[t] = 3 /\ Step(t) = "findCompleteds"
    BY <1>2, <1>5, RetentionPlace DEF Lookups
  <2>2. RetentionRows(t)
    BY <1>5 DEF RowsInv
  <2>3. CASE at[t] = 2
    <3>1. /\ 2 \in 0..2 /\ i \in {3, 9} /\ i \notin 0..2 /\ i \notin 4..8
      BY <1>2, <1>5, <2>3
    <3>2. Schedules(cut[t]) = {} /\ Completeds(cut[t]) = {}
      BY <2>2, <2>3, <3>1 DEF RetentionRows
    <3>3. QED
      BY <1>2, <3>1, <3>2 DEF RetentionRows
  <2>4. CASE at[t] = 3
    <3>1. /\ i = 4 /\ i \notin 0..2 /\ f.requests = found[t].requests
          /\ f.completed = Ids({c \in Completeds(View(t)) : c.request \in f.requests})
      BY <1>1, <1>2, <1>5, <2>1, <2>4 DEF Looked, Completeds
    <3>2. \A c \in Completeds(View(t)) : c.id[1] = c.request
      BY <1>5, CompletedSeen
    <3>3. \A k \in f.completed : k[1] \in f.requests
      BY <3>1, <3>2 DEF Ids
    <3>4. QED
      BY <1>1, <1>2, <3>1, <3>3 DEF RetentionRows
  <2>5. QED
    BY <2>1, <2>3, <2>4
<1>6. ASSUME t \in Resets
      PROVE  /\ i \in 2..6 => \E j \in 0..lastId : f.requests = {j}
             /\ at[t] > 6 => i > 6
             /\ \/ f.requests = found[t].requests
                \/ Schedules(cut[t]) = {} /\ Completeds(cut[t]) = {}
  <2>1. /\ \/ at[t] = 1 /\ Step(t) = "findRequest"
           \/ at[t] = 2 /\ Step(t) = "findCompleted"
           \/ at[t] = 5 /\ Step(t) = "findSchedule"
        /\ t \notin Payments /\ t \notin Rejections /\ t \notin Retentions
    BY <1>2, <1>6, ResetPlace, TablesAssumption DEF Lookups, TablesAssumption
  <2>2. i = at[t] + 1 /\ put[t] = {} /\ cut[t] = {}
    BY <1>2, <1>6, <2>1 DEF TypeInv, NothingWritten
  <2>3. CASE Step(t) = "findRequest"
    <3>1. f.requests = Ids(Requests(View(t))) /\ Requests(View(t)) # {}
      <4>1. In("paymentRequests", View(t)) # {}
        BY <2>3 DEF LookUp, Ids
      <4>2. QED
        BY <1>1, <2>3, <4>1 DEF Looked, Requests
    <3>2. \E j \in 0..lastId : f.requests = {j}
      BY <2>1, <3>1, IdsSeen
    <3>3. Schedules(cut[t]) = {} /\ Completeds(cut[t]) = {}
      BY <2>2, RowsOf
    <3>4. at[t] = 1
      BY <1>6, <2>3, ResetPlace
    <3>5. QED
      BY <3>2, <3>3, <3>4
  <2>4. CASE Step(t) # "findRequest"
    <3>1. f.requests = found[t].requests /\ at[t] \in 2..6
      BY <1>1, <2>1, <2>4 DEF Looked
    <3>2. \E j \in 0..lastId : f.requests = {j}
      BY <1>6, <3>1 DEF RowsInv
    <3>3. QED
      BY <1>3, <2>1, <2>2, <2>4, <3>1, <3>2
  <2>5. QED
    BY <2>3, <2>4
<1>7. ASSUME t \in Payments \cup Replies
      PROVE  \/ f.requests = found[t].requests
             \/ Schedules(cut[t]) = {} /\ Completeds(cut[t]) = {}
  <2>1. \A r \in Schedules(cut[t]) \cup Completeds(cut[t]) :
           t \in Rejections \cup Retentions
    BY DEF RowsInv, OwnPayments
  <2>2. t \notin Rejections \cup Retentions
    BY <1>7, TablesAssumption DEF TablesAssumption
  <2>3. QED
    BY <2>1, <2>2
<1>8. /\ t \in Rejections => RejectionRows(t)'
      /\ t \in Retentions => RetentionRows(t)'
      /\ t \in Resets => /\ i \in 2..6 => \E j \in 0..lastId : found'[t].requests = {j}
                         /\ at[t] > 6 => i > 6
      /\ \/ found'[t].requests = found[t].requests
         \/ Schedules(cut'[t]) = {} /\ Completeds(cut'[t]) = {}
  BY <1>1, <1>4, <1>5, <1>6, <1>7 DEF Tasks
<1>9. QED
  BY <1>1, <1>8, RowsMoved

\* A handler that starts has written nothing.
LEMMA RowsStarted ==
    ASSUME TypeInv, RowsInv, NEW t \in Tasks, Start(t)
    PROVE  RowsInv'
<1>1. /\ Moved(t, 1) /\ at[t] = 0 /\ put'[t] = put[t] /\ cut'[t] = cut[t] /\ 1 \in Nat
      /\ found'[t].requests = {}
  BY Started
<1>2. /\ db' = db /\ lastId' = lastId /\ at'[t] = 1 /\ 0 \in 0..2
      /\ 1 \notin 2..6 /\ ~(0 > 6) /\ 1 \notin 2..3 /\ 1 \notin 3..11 /\ 1 \notin 4..11
      /\ 1 \notin 9..11 /\ 1 \notin {6, 10} /\ 1 \notin 4..8
  BY <1>1 DEF Moved
<1>3. ASSUME t \in Rejections PROVE cut[t] = {} /\ RejectionRows(t)'
  <2>1. cut[t] = {}
    BY <1>1, <1>3 DEF TypeInv, NothingWritten
  <2>2. Schedules(cut'[t]) = {}
    BY <1>1, <2>1, RowsOf
  <2>3. QED
    BY <1>2, <2>1, <2>2 DEF RejectionRows
<1>4. ASSUME t \in Retentions
      PROVE  Schedules(cut[t]) = {} /\ Completeds(cut[t]) = {} /\ RetentionRows(t)'
  <2>1. RetentionRows(t)
    BY <1>4 DEF RowsInv
  <2>2. QED
    BY <1>1, <1>2, <2>1 DEF RetentionRows
<1>5. Schedules(cut[t]) = {} /\ Completeds(cut[t]) = {}
  <2>1. \A r \in Schedules(cut[t]) \cup Completeds(cut[t]) : t \in Rejections \cup Retentions
    BY DEF RowsInv, OwnPayments
  <2>2. Schedules({}) = {} /\ Completeds({}) = {}
    BY RowsOf
  <2>3. CASE t \in Rejections
    BY <1>3, <2>2, <2>3
  <2>4. CASE t \notin Rejections
    BY <1>4, <2>1, <2>4
  <2>5. QED
    BY <2>3, <2>4
<1>6. QED
  BY <1>1, <1>2, <1>3, <1>4, <1>5, RowsMoved

\* Closing the hold and ending leave the rows alone.
LEMMA RowsMovedOn ==
    ASSUME TypeInv, RowsInv, NEW t \in Tasks, RemoveAutoHold(t) \/ Complete(t)
    PROVE  RowsInv'
<1>1. PICK i \in Nat :
              /\ Moved(t, i) /\ i = at[t] + 1
              /\ found'[t] = found[t] /\ put'[t] = put[t] /\ cut'[t] = cut[t]
              /\ \/ t \in Replies /\ at[t] = 5
                 \/ t \in Payments /\ at[t] = 6
                 \/ t \in Rejections /\ at[t] = 12
                 \/ t \in Replies /\ at[t] = 7
                 \/ t \in Retentions /\ at[t] = 10
                 \/ t \in Resets /\ at[t] = 7
  BY MovedOn
<1>2. /\ db' = db /\ lastId' = lastId /\ at'[t] = i
      /\ t \in Rejections => i = 13
      /\ t \in Retentions => i = 11
      /\ t \in Resets => i = 8
  BY <1>1, TablesAssumption DEF Moved, TablesAssumption
<1>3. ASSUME t \in Rejections PROVE RejectionRows(t)'
  <2>1. RejectionRows(t)
    BY <1>3 DEF RowsInv
  <2>2. /\ i \notin 2..3 /\ i \notin 3..11 /\ i \notin 4..11 /\ i \notin 9..11
        /\ i \notin {6, 10}
    BY <1>2, <1>3
  <2>3. QED
    BY <1>1, <1>2, <2>1, <2>2 DEF RejectionRows
<1>4. ASSUME t \in Retentions PROVE RetentionRows(t)'
  <2>1. i \notin 0..2 /\ i \notin 4..8
    BY <1>2, <1>4
  <2>2. QED
    BY <1>2, <2>1 DEF RetentionRows
<1>5. t \in Resets => i \notin 2..6 /\ i > 6
  BY <1>2
<1>6. QED
  BY <1>1, <1>3, <1>4, <1>5, RowsMoved

\* A transaction that is rolled back has written nothing.
LEMMA RowsRolledBack ==
    ASSUME TypeInv, RowsInv, NEW t \in Tasks, RollBack(t)
    PROVE  RowsInv'
<1>1. PICK i \in Nat :
              /\ Moved(t, i) /\ found'[t] = found[t] /\ put'[t] = {} /\ cut'[t] = {}
              /\ i = IF t \in Payments \cup Rejections THEN 0
                     ELSE IF t \in Replies THEN IF Step(t) = "complete" THEN 0 ELSE 7
                     ELSE Failed
  BY RolledBack
<1>2. /\ db' = db /\ lastId' = lastId /\ at'[t] = i
      /\ t \in Rejections => i = 0
      /\ t \in Retentions \cup Resets => i = 101
  BY <1>1, TablesAssumption DEF Moved, TablesAssumption, Failed
<1>3. Schedules(cut'[t]) = {} /\ Completeds(cut'[t]) = {}
  BY <1>1, RowsOf
<1>4. ASSUME t \in Rejections PROVE RejectionRows(t)'
  <2>1. /\ i \notin 2..3 /\ i \notin 3..11 /\ i \notin 4..11 /\ i \notin 9..11
        /\ i \notin {6, 10}
    BY <1>2, <1>4
  <2>2. QED
    BY <1>2, <1>3, <2>1 DEF RejectionRows
<1>5. ASSUME t \in Retentions PROVE RetentionRows(t)'
  <2>1. i \notin 4..8
    BY <1>2, <1>5
  <2>2. QED
    BY <1>2, <1>3, <2>1 DEF RetentionRows
<1>6. t \in Resets => i \notin 2..6 /\ i > 6
  BY <1>2
<1>7. QED
  BY <1>1, <1>3, <1>4, <1>5, <1>6, RowsMoved

\* The rows of the others when a statement is committed, or a transaction.
LEMMA OthersRows ==
    ASSUME TypeInv, Locks, RequestsInv, RowsInv, NEW t \in Tasks, Write(t) \/ Commit(t),
           lastId <= lastId', lastId' \in Nat, Hold \in db => Hold \in db',
           NEW u \in Tasks, u # t,
           /\ at'[u] = at[u] /\ put'[u] = put[u] /\ cut'[u] = cut[u]
           /\ found'[u] = found[u],
           u \in Payments /\ put[u] # {} => lastId' = lastId
    PROVE  /\ OwnSchedules(u)' /\ OwnPayments(u)'
           /\ u \in Rejections => RejectionRows(u)'
           /\ u \in Retentions => RetentionRows(u)'
<1>1. OwnSchedules(u) /\ OwnPayments(u)
  BY DEF RowsInv
<1>2. put[u] = {} => Schedules(put[u]) = {}
  BY RowsOf
<1>3. OwnSchedules(u)'
  BY <1>1, <1>2 DEF OwnSchedules
<1>4. OwnPayments(u)'
  BY <1>1 DEF OwnPayments
<1>5. ASSUME u \in Rejections PROVE RejectionRows(u)'
  <2>1. RejectionRows(u)
    BY <1>5 DEF RowsInv
  <2>2. ASSUME at[u] \in 4..11, NEW q \in Requests(db'), q.id \in found[u].requests
        PROVE  q \in cut[u]
    <3>1. PICK i \in 0..lastId : found[u].requests = {i}
      <4>1. at[u] \in 3..11
        BY <2>2
      <4>2. QED
        BY <2>1, <4>1 DEF RejectionRows
    <3>2. q.id <= lastId
      BY <2>2, <3>1 DEF TypeInv, TablesTyped
    <3>3. \A p \in Requests(db) : p.id \in found[u].requests => p \in cut[u]
      BY <2>1, <2>2 DEF RejectionRows
    <3>4. q \in Requests(db)
      BY <2>2, <3>2, <3>3, LockedStays
    <3>5. QED
      BY <2>2, <3>3, <3>4
  <2>3. \A i \in 0..lastId : i \in 0..lastId'
    BY DEF TypeInv, TablesTyped
  <2>4. QED
    BY <2>1, <2>2, <2>3 DEF RejectionRows
<1>6. u \in Retentions => RetentionRows(u)'
  BY DEF RowsInv, RetentionRows
<1>7. QED
  BY <1>3, <1>4, <1>5, <1>6

\* A statement outside a transaction: the completed rows stay the same but for
\* being acknowledged or void, and a reset may add its schedule.
LEMMA WrittenOutside ==
    ASSUME TypeInv, Locks, RowsInv, NEW t \in Tasks, Write(t), ~InTransaction(t)
    PROVE  /\ \A c \in Completeds(db') : \E d \in Completeds(db) :
                 d.id = c.id /\ d.request = c.request
           /\ \A s \in Schedules(db') :
                 \/ s \in Schedules(db)
                 \/ /\ t \in Resets /\ at[t] = 6 /\ Step(t) = "schedule"
                    /\ \E i \in found[t].requests : s = Schedule(i, t)
           /\ Schedules(db) \subseteq Schedules(db')
           /\ Hold \in db => Hold \in db'
<1>1. /\ Writes(t) /\ db' = (db \ Cut(t)) \cup Put(t) /\ View(t) = db
      /\ put[t] = {} /\ cut[t] = {}
  BY Written
<1>2. t \in Resets \/ (t \in Rejections /\ Step(t) = "acknowledge")
  BY StepOf DEF InTransaction
<1>3. /\ Schedules(db') = (Schedules(db) \ Cut(t)) \cup Schedules(Put(t))
      /\ Completeds(db') = (Completeds(db) \ Cut(t)) \cup Completeds(Put(t))
  BY <1>1 DEF Schedules, Completeds, In
<1>4. Cut(t) \subseteq db
  BY <1>1, CutType DEF TypeInv
<1>5. ASSUME NEW c \in Completeds(db')
      PROVE  \E d \in Completeds(db) : d.id = c.id /\ d.request = c.request
  <2>1. CASE c \in Completeds(Put(t))
    <3>1. PICK d \in Completeds(Cut(t)) : d.id = c.id /\ d.request = c.request
      BY <1>1, <2>1, PaymentStatements
    <3>2. d \in Completeds(db)
      BY <1>4, <3>1 DEF Completeds, In
    <3>3. QED
      BY <3>1, <3>2
  <2>2. QED
    BY <1>3, <1>5, <2>1
<1>6. CASE Step(t) = "schedule"
  <2>1. t \in Resets /\ at[t] = 6
    BY <1>2, <1>6, StepOf, TablesAssumption DEF TablesAssumption
  <2>2. /\ Cut(t) \subseteq Put(t)
        /\ \A s \in Schedules(Put(t)) :
              s \in Cut(t) \/ \E i \in found[t].requests : s = Schedule(i, t)
    BY <1>6, EnsureWrites
  <2>3. \A s \in Schedules(Put(t)) :
           s \in Schedules(db) \/ \E i \in found[t].requests : s = Schedule(i, t)
    BY <1>4, <2>2 DEF Schedules, In
  <2>4. Schedules(db) \subseteq Schedules(db')
    BY <1>1, <2>2 DEF Schedules, In
  <2>5. Hold \in db => Hold \in db'
    BY <1>1, ScheduleStatements
  <2>6. QED
    BY <1>3, <1>5, <1>6, <2>1, <2>3, <2>4, <2>5
<1>7. CASE Step(t) # "schedule"
  <2>1. Step(t) \notin {"insertSchedule", "schedule", "removeSchedules"}
    BY <1>2, <1>7, StepOf, TablesAssumption DEF TablesAssumption
  <2>2. Schedules(Cut(t)) = {} /\ Schedules(Put(t)) = {}
    BY <1>1, <2>1, ScheduleStatements
  <2>3. \A s \in Schedules(db) : s \notin Cut(t)
    BY <2>2 DEF Schedules, In
  <2>4. Schedules(db') = Schedules(db)
    BY <1>3, <2>2, <2>3
  <2>5. QED
    BY <1>1, <1>5, <2>4, ScheduleStatements
<1>8. QED
  BY <1>6, <1>7

\* A statement outside a transaction leaves no completed row for an open schedule.
LEMMA PaidRowsWritten ==
    ASSUME TypeInv, Locks, RowsInv, NEW t \in Tasks, Write(t)
    PROVE  PaidRows'
<1>1. /\ lastId' = lastId /\ found' = found
      /\ \A u \in Tasks : at'[u] = IF u = t THEN at[t] + 1 ELSE at[u]
      /\ InTransaction(t) => db' = db
      /\ at[t] \in Nat /\ Resets \subseteq Tasks
  BY Written DEF TypeInv, TablesTyped, Tasks
<1>2. \A x \in Resets : at[x] > 6 => at'[x] > 6
  BY <1>1
<1>3. PaidRows
  BY DEF RowsInv
<1>4. CASE InTransaction(t)
  BY <1>1, <1>2, <1>3, <1>4 DEF PaidRows
<1>5. CASE ~InTransaction(t)
  <2>1. /\ \A c \in Completeds(db') : \E d \in Completeds(db) :
              d.id = c.id /\ d.request = c.request
        /\ \A s \in Schedules(db') :
              \/ s \in Schedules(db)
              \/ /\ t \in Resets /\ at[t] = 6
                 /\ \E i \in found[t].requests : s = Schedule(i, t)
        /\ Hold \in db => Hold \in db'
    BY <1>5, WrittenOutside
  <2>2. \A c \in Completeds(db') : /\ c.id[1] = c.request /\ c.request <= lastId
                                   /\ c.id[2] \in Resets => at'[c.id[2]] > 6
    BY <1>2, <1>3, <2>1 DEF PaidRows
  <2>3. ASSUME NEW s \in Schedules(db')
        PROVE  /\ s.by \in Rejections => Hold \in db'
               /\ s.by \in Resets => at'[s.by] > 6
               /\ \A c \in Completeds(db') :
                     ~s.done /\ c.id = <<s.request, s.by>> => s.by \in Rejections
    <3>1. CASE s \in Schedules(db)
      BY <1>2, <1>3, <2>1, <3>1 DEF PaidRows
    <3>2. CASE s \notin Schedules(db)
      <4>1. PICK i \in found[t].requests : s = Schedule(i, t)
        BY <2>1, <2>3, <3>2
      <4>2. t \in Resets /\ at[t] = 6 /\ s.by = t /\ s.request = i
        <5>1. s.by = t /\ s.request = i
          BY <4>1, NewSchedule
        <5>2. QED
          BY <2>1, <2>3, <3>2, <5>1
      <4>3. t \notin Rejections /\ at'[t] = 7
        BY <1>1, <4>2, TablesAssumption DEF TablesAssumption
      <4>4. ASSUME NEW c \in Completeds(db'), c.id = <<s.request, s.by>> PROVE FALSE
        <5>1. PICK d \in Completeds(db) : d.id = c.id
          BY <2>1, <4>4
        <5>2. d.id[2] = t
          BY <4>2, <4>4, <5>1
        <5>3. at[t] > 6
          BY <1>3, <4>2, <5>1, <5>2 DEF PaidRows
        <5>4. QED
          BY <4>2, <5>3
      <4>5. QED
        BY <4>2, <4>3, <4>4
    <3>3. QED
      BY <3>1, <3>2
  <2>4. QED
    BY <1>1, <2>2, <2>3 DEF PaidRows
<1>6. QED
  BY <1>4, <1>5

\* The handler that writes.
LEMMA OwnRowsWritten ==
    ASSUME TypeInv, Locks, RowsInv, NEW t \in Tasks, Write(t)
    PROVE  OwnSchedules(t)' /\ OwnPayments(t)'
<1>1. /\ Writes(t) /\ lastId' = lastId /\ found' = found
      /\ \/ /\ InTransaction(t) /\ db' = db
            /\ cut'[t] = cut[t] \cup (Cut(t) \cap db)
            /\ put'[t] = (put[t] \ Cut(t)) \cup Put(t)
         \/ ~InTransaction(t) /\ put'[t] = {} /\ cut'[t] = {}
  BY Written
<1>2. OwnSchedules(t) /\ OwnPayments(t)
  BY DEF RowsInv
<1>3. CASE ~InTransaction(t)
  BY <1>1, <1>3, RowsOf DEF OwnSchedules, OwnPayments
<1>4. CASE InTransaction(t)
  <2>1. /\ cut'[t] = cut[t] \cup (Cut(t) \cap db)
        /\ put'[t] = (put[t] \ Cut(t)) \cup Put(t)
    BY <1>1, <1>4
  <2>2. Cut(t) \subseteq db \cup put[t]
    BY CutType DEF TypeInv, View
  <2>3. t \notin Resets /\ Step(t) # "acknowledge"
    BY <1>4 DEF InTransaction
  <2>4. ASSUME NEW s \in Schedules(Put(t))
        PROVE  \/ s \in Cut(t)
               \/ t \in Rejections /\ s.by = t
               \/ t \in Payments /\ s = Schedule(lastId + 1, t)
    <3>1. CASE Step(t) = "schedule"
      <4>1. /\ s \in Cut(t) \/ \E i \in found[t].requests : s = Schedule(i, t)
            /\ t \in Rejections
        BY <2>3, <2>4, <3>1, EnsureWrites
      <4>2. \A i : Schedule(i, t).by = t
        BY NewSchedule
      <4>3. QED
        BY <4>1, <4>2
    <3>2. CASE Step(t) = "insertSchedule"
      <4>1. t \in Payments /\ Put(t) = {Schedule(lastId + 1, t)}
        BY <3>2, PutIs, StepOf
      <4>2. QED
        BY <2>4, <4>1 DEF Schedules, In
    <3>3. CASE Step(t) = "removeSchedules"
      BY <2>4, <3>3, PutIs, RowsOf
    <3>4. CASE Step(t) \notin {"insertSchedule", "schedule", "removeSchedules"}
      BY <1>1, <2>4, <3>4, ScheduleStatements
    <3>5. QED
      BY <3>1, <3>2, <3>3, <3>4
  <2>5. ASSUME NEW s \in Schedules(put'[t])
        PROVE  \/ s \in cut'[t]
               \/ t \in Rejections /\ s.by = t
               \/ t \in Payments /\ s = Schedule(lastId + 1, t)
    <3>1. s \in Schedules(put[t]) \/ s \in Schedules(Put(t))
      BY <2>1, <2>5 DEF Schedules, In
    <3>2. s \in Cut(t) => s \in cut'[t] \/ s \in Schedules(put[t])
      BY <2>1, <2>2, <2>5 DEF Schedules, In
    <3>3. s \in Schedules(put[t]) => \/ s \in cut'[t]
                                     \/ t \in Rejections /\ s.by = t
                                     \/ t \in Payments /\ s = Schedule(lastId + 1, t)
      BY <1>2, <2>1 DEF OwnSchedules
    <3>4. QED
      BY <2>4, <3>1, <3>2, <3>3
  <2>6. ASSUME NEW c \in Completeds(put'[t])
        PROVE  \E d \in Completeds(cut'[t]) : d.id = c.id /\ d.request = c.request
    <3>1. ASSUME NEW b \in Completeds(put[t]), b.id = c.id, b.request = c.request
          PROVE  \E d \in Completeds(cut'[t]) : d.id = c.id /\ d.request = c.request
      <4>1. PICK d \in Completeds(cut[t]) : d.id = b.id /\ d.request = b.request
        BY <1>2, <3>1 DEF OwnPayments
      <4>2. d \in Completeds(cut'[t])
        BY <2>1, <4>1 DEF Completeds, In
      <4>3. QED
        BY <3>1, <4>1, <4>2
    <3>2. CASE c \in Completeds(put[t])
      BY <3>1, <3>2
    <3>3. CASE c \in Completeds(Put(t))
      <4>1. PICK b \in Completeds(Cut(t)) : b.id = c.id /\ b.request = c.request
        BY <1>1, <3>3, PaymentStatements
      <4>2. b \in Completeds(cut'[t]) \/ b \in Completeds(put[t])
        BY <2>1, <2>2, <4>1 DEF Completeds, In
      <4>3. QED
        BY <3>1, <4>1, <4>2
    <3>4. QED
      BY <2>1, <2>6, <3>2, <3>3 DEF Completeds, In
  <2>7. ASSUME NEW r \in Schedules(Cut(t)) \cup Completeds(Cut(t))
        PROVE  r.request \in found[t].requests /\ t \in Rejections \cup Retentions
    <3>1. Step(t) \in {"insertSchedule", "schedule", "removeSchedules", "invalidate",
                       "removeCompleted"}
      BY <1>1, <2>3, <2>7, ScheduleStatements
    <3>2. r \in Cut(t)
      BY <2>7, RowsOf
    <3>3. CASE Step(t) = "insertSchedule"
      BY <3>2, <3>3, CutIs
    <3>4. CASE Step(t) = "schedule"
      <4>1. r \in found[t].schedule /\ t \in Rejections /\ at[t] \in {6, 10}
        BY <2>3, <3>2, <3>4, EnsureWrites
      <4>2. QED
        BY <4>1 DEF RowsInv, RejectionRows
    <3>5. CASE Step(t) \in {"removeSchedules", "invalidate"}
      BY <2>3, <3>2, <3>5, CutIs, StepOf DEF Of, In
    <3>6. CASE Step(t) = "removeCompleted"
      <4>1. /\ t \in Retentions /\ at[t] = 5 /\ r \in Completeds(View(t))
            /\ r.id \in found[t].completed
        BY <3>2, <3>6, CutIs, StepOf DEF Completeds
      <4>2. r.id[1] = r.request
        BY <4>1, CompletedSeen
      <4>3. 5 \in 4..8
        OBVIOUS
      <4>4. QED
        BY <4>1, <4>2, <4>3 DEF RowsInv, RetentionRows
    <3>7. QED
      BY <3>1, <3>3, <3>4, <3>5, <3>6
  <2>8. \A r \in Schedules(cut'[t]) \cup Completeds(cut'[t]) :
           \/ r \in Schedules(cut[t]) \cup Completeds(cut[t])
           \/ r \in Schedules(Cut(t)) \cup Completeds(Cut(t))
    BY <2>1 DEF Schedules, Completeds, In
  <2>9. \A r \in Schedules(cut'[t]) \cup Completeds(cut'[t]) :
           r.request \in found'[t].requests /\ t \in Rejections \cup Retentions
    BY <1>1, <1>2, <2>7, <2>8 DEF OwnPayments
  <2>10. OwnPayments(t)'
    BY <2>6, <2>9 DEF OwnPayments
  <2>11. OwnSchedules(t)'
    BY <1>1, <2>5 DEF OwnSchedules
  <2>12. QED
    BY <2>10, <2>11
<1>5. QED
  BY <1>3, <1>4

\* A rejection that writes: it locks its request first and adds its hold before
\* it schedules the payment the second time.
LEMMA RejectionWrites ==
    ASSUME TypeInv, Locks, HeldInv, RowsInv, NEW t \in Rejections, Write(t)
    PROVE  RejectionRows(t)'
<1>1. t \in Tasks /\ t \notin Resets /\ at[t] \in Nat
  BY TablesAssumption DEF TablesAssumption, Tasks, TypeInv, TablesTyped
<1>2. /\ Writes(t) /\ lastId' = lastId /\ found'[t] = found[t] /\ at'[t] = at[t] + 1
      /\ \/ /\ InTransaction(t) /\ db' = db
            /\ cut'[t] = cut[t] \cup (Cut(t) \cap db)
            /\ put'[t] = (put[t] \ Cut(t)) \cup Put(t)
         \/ ~InTransaction(t) /\ put'[t] = {} /\ cut'[t] = {}
  BY <1>1, Written
<1>3. RejectionRows(t)
  BY DEF RowsInv
<1>4. \/ at[t] = 1 /\ Step(t) = "acknowledge"
      \/ at[t] = 3 /\ Step(t) = "newReference"
      \/ at[t] = 4 /\ Step(t) = "invalidate"
      \/ at[t] \in {6, 10} /\ Step(t) = "schedule"
      \/ at[t] = 8 /\ Step(t) = "addHold"
  BY <1>2, RejectionPlace DEF Writes, Lookups
<1>5. CASE at[t] = 1
  <2>1. ~InTransaction(t)
    BY <1>4, <1>5 DEF InTransaction
  <2>2. /\ 2 \notin 3..11 /\ 2 \notin 4..11 /\ 2 \notin 9..11 /\ 2 \notin {6, 10}
        /\ put'[t] = {} /\ cut'[t] = {} /\ at'[t] = 2
    BY <1>2, <1>5, <2>1
  <2>3. Schedules(cut'[t]) = {}
    BY <2>2, RowsOf
  <2>4. QED
    BY <2>2, <2>3 DEF RejectionRows
<1>6. CASE at[t] # 1
  <2>1. /\ db' = db /\ cut'[t] = cut[t] \cup (Cut(t) \cap db)
        /\ put'[t] = (put[t] \ Cut(t)) \cup Put(t) /\ InTransaction(t)
    BY <1>1, <1>2, <1>4, <1>6 DEF InTransaction
  <2>2. /\ at[t] \in {3, 4, 6, 8, 10} /\ at[t] \in 3..11
        /\ at'[t] \notin 2..3 /\ at'[t] \notin {6, 10}
        /\ at'[t] \in 9..11 => at[t] \in {8, 10}
        /\ at[t] # 3 => at[t] \in 4..11
    BY <1>2, <1>4, <1>6
  <2>3. Schedules(cut'[t]) \subseteq put'[t]
    <3>1. \A s \in Schedules(cut'[t]) : s \in Schedules(cut[t]) \/ s \in Schedules(Cut(t))
      BY <2>1 DEF Schedules, In
    <3>2. Schedules(Cut(t)) \subseteq Put(t)
      <4>1. CASE Step(t) = "schedule"
        BY <1>1, <4>1, EnsureWrites DEF Schedules, In
      <4>2. CASE Step(t) # "schedule"
        <5>1. Step(t) \notin {"insertSchedule", "schedule", "removeSchedules"}
          BY <1>4, <4>2
        <5>2. QED
          BY <1>1, <1>2, <5>1, ScheduleStatements
      <4>3. QED
        BY <4>1, <4>2
    <3>3. Schedules(cut[t]) \subseteq put[t]
      BY <1>3 DEF RejectionRows
    <3>4. \A s \in Schedules(cut[t]) : s \in Cut(t) => s \in Schedules(Cut(t))
      BY DEF Schedules, In
    <3>5. QED
      BY <2>1, <3>1, <3>2, <3>3, <3>4
  <2>4. \E i \in 0..lastId : found[t].requests = {i}
    BY <1>3, <2>2 DEF RejectionRows
  <2>5. ASSUME NEW q \in Requests(db), q.id \in found[t].requests
        PROVE  q \in cut'[t]
    <3>1. CASE at[t] = 3
      <4>1. 3 \in 2..3 /\ Step(t) = "newReference"
        BY <1>4, <3>1
      <4>2. View(t) = db
        BY <1>3, <3>1, <4>1 DEF RejectionRows, View
      <4>3. q \in Cut(t) /\ q \in db
        BY <2>5, <4>1, <4>2, CutIs DEF RequestRows, Requests, In
      <4>4. QED
        BY <2>1, <4>3
    <3>2. CASE at[t] # 3
      BY <1>3, <2>1, <2>2, <2>5, <3>2 DEF RejectionRows
    <3>3. QED
      BY <3>1, <3>2
  <2>6. ASSUME at'[t] \in 9..11 PROVE Hold \in db \cup put'[t]
    <3>1. Hold \notin Cut(t)
      BY <1>1, <1>2, ScheduleStatements
    <3>2. CASE at[t] = 10
      <4>1. 10 \in 9..11
        OBVIOUS
      <4>2. Hold \in db \cup put[t]
        BY <1>3, <3>2, <4>1 DEF RejectionRows
      <4>3. QED
        BY <2>1, <3>1, <4>2
    <3>3. CASE at[t] = 8
      <4>1. Step(t) = "addHold"
        BY <1>4, <3>3
      <4>2. CASE found[t].held
        BY <2>1, <3>1, <3>3, <4>2 DEF HeldInv
      <4>3. CASE ~found[t].held
        BY <2>1, <4>1, <4>3, PutIs
      <4>4. QED
        BY <4>2, <4>3
    <3>4. QED
      BY <2>2, <2>6, <3>2, <3>3
  <2>7. QED
    BY <1>2, <2>1, <2>2, <2>3, <2>4, <2>5, <2>6 DEF RejectionRows
<1>7. QED
  BY <1>5, <1>6

\* A removal takes what it has found.
LEMMA RetentionWrites ==
    ASSUME TypeInv, RowsInv, NEW t \in Retentions, Write(t)
    PROVE  RetentionRows(t)'
<1>1. t \in Tasks /\ t \notin Resets /\ at[t] \in Nat
  BY TablesAssumption DEF TablesAssumption, Tasks, TypeInv, TablesTyped
<1>2. /\ at[t] \in 1..8 /\ at[t] \notin 2..3
      /\ at[t] = 1 <=> Step(t) = "removeClosure"
      /\ Step(t) # "acknowledge" /\ Writes(t)
  <2>1. Writes(t)
    BY DEF Write
  <2>2. QED
    BY <2>1, RetentionPlace DEF Writes, Lookups
<1>3. /\ found'[t] = found[t] /\ at'[t] = at[t] + 1
      /\ cut'[t] = cut[t] \cup (Cut(t) \cap db)
  BY <1>1, <1>2, Written DEF InTransaction
<1>4. RetentionRows(t)
  BY DEF RowsInv
<1>5. ASSUME at[t] = 1
      PROVE  Schedules(cut'[t]) = {} /\ Completeds(cut'[t]) = {}
  <2>1. Schedules(Cut(t)) = {} /\ Completeds(Cut(t)) = {}
    BY <1>1, <1>2, <1>5, ScheduleStatements
  <2>2. 1 \in 0..2
    OBVIOUS
  <2>3. Schedules(cut[t]) = {} /\ Completeds(cut[t]) = {}
    BY <1>4, <1>5, <2>2 DEF RetentionRows
  <2>4. QED
    BY <1>3, <2>1, <2>3 DEF Schedules, Completeds, In
<1>6. /\ at'[t] \in 0..2 => at[t] = 1
      /\ at'[t] \in 4..8 => at[t] \in 4..8
  BY <1>1, <1>2, <1>3
<1>7. QED
  BY <1>3, <1>4, <1>5, <1>6 DEF RetentionRows

\* A statement keeps the rows of all handlers.
LEMMA RowsWritten ==
    ASSUME TypeInv, Locks, HeldInv, RequestsInv, RowsInv, NEW t \in Tasks, Write(t)
    PROVE  RowsInv'
<1>1. /\ Writes(t) /\ UNCHANGED <<lastId, found>>
      /\ \A u \in Tasks : at'[u] = IF u = t THEN at[t] + 1 ELSE at[u]
      /\ \A u \in Tasks : u # t => put'[u] = put[u] /\ cut'[u] = cut[u]
      /\ \/ db' = db
         \/ db' = (db \ Cut(t)) \cup Put(t)
  BY Written
<1>2. lastId \in Nat /\ Hold \notin Cut(t)
  BY <1>1, ScheduleStatements DEF TypeInv, TablesTyped
<1>3. ASSUME NEW u \in Tasks
      PROVE  /\ OwnSchedules(u)' /\ OwnPayments(u)'
             /\ u \in Rejections => RejectionRows(u)'
             /\ u \in Retentions => RetentionRows(u)'
  <2>1. CASE u = t
    BY <2>1, OwnRowsWritten, RejectionWrites, RetentionWrites
  <2>2. CASE u # t
    BY <1>1, <1>2, <2>2, OthersRows
  <2>3. QED
    BY <2>1, <2>2
<1>4. ASSUME NEW x \in Resets, at'[x] \in 2..6
      PROVE  \E j \in 0..lastId' : found'[x].requests = {j}
  <2>1. at[x] \in 2..6
    <3>1. CASE x = t
      <4>1. at[x] \in {3, 4, 6} /\ at'[x] = at[x] + 1
        BY <1>1, <1>4, <3>1, ResetPlace DEF Writes, Lookups
      <4>2. QED
        BY <4>1
    <3>2. QED
      BY <1>1, <1>4, <3>1 DEF Tasks
  <2>2. QED
    BY <1>1, <2>1 DEF RowsInv
<1>5. Rejections \cup Retentions \subseteq Tasks
  BY DEF Tasks
<1>6. QED
  BY <1>3, <1>4, <1>5, PaidRowsWritten DEF RowsInv

\* A commit leaves no completed row for an open schedule but a rejected one.
LEMMA PaidRowsCommitted ==
    ASSUME TypeInv, Locks, HeldInv, RequestsInv, RowsInv, NEW t \in Tasks, Commit(t)
    PROVE  PaidRows'
<1>1. /\ db' = (db \ cut[t]) \cup put[t]
      /\ \A u \in Tasks : at'[u] = IF u = t THEN at[t] + 1 ELSE at[u]
      /\ t \in Rejections => at[t] = 11
      /\ lastId' \in Nat /\ lastId <= lastId' /\ lastId \in Nat /\ at[t] \in Nat
      /\ Resets \subseteq Tasks
  BY Committed, TablesAssumption DEF TablesAssumption, TypeInv, TablesTyped, Tasks
<1>2. PaidRows /\ OwnSchedules(t) /\ OwnPayments(t)
  BY DEF RowsInv
<1>3. Hold \in db => Hold \in db'
  BY <1>1 DEF HeldInv
<1>4. \A x \in Resets : at[x] > 6 => at'[x] > 6
  BY <1>1
<1>5. ASSUME NEW c \in Completeds(db')
      PROVE  \E d \in Completeds(db) : d.id = c.id /\ d.request = c.request
  <2>1. c \in Completeds(db) \/ c \in Completeds(put[t])
    BY <1>1, <1>5 DEF Completeds, In
  <2>2. ASSUME c \in Completeds(put[t])
        PROVE  \E d \in Completeds(db) : d.id = c.id /\ d.request = c.request
    <3>1. PICK d \in Completeds(cut[t]) : d.id = c.id /\ d.request = c.request
      BY <1>2, <2>2 DEF OwnPayments
    <3>2. d \in Completeds(db)
      BY <3>1 DEF Locks, Completeds, In
    <3>3. QED
      BY <3>1, <3>2
  <2>3. QED
    BY <2>1, <2>2
<1>6. ASSUME NEW c \in Completeds(db')
      PROVE  /\ c.id[1] = c.request /\ c.request <= lastId' /\ c.request <= lastId
             /\ c.id[2] \in Resets => at'[c.id[2]] > 6
  <2>1. PICK d \in Completeds(db) : d.id = c.id /\ d.request = c.request
    BY <1>5
  <2>2. d.id[1] = d.request /\ d.request <= lastId
    BY <1>2, <2>1 DEF PaidRows
  <2>3. d.request \in Nat
    BY InTable DEF TypeInv, TablesTyped, CompletedRow, Completeds
  <2>4. d.request <= lastId'
    BY <1>1, <2>2, <2>3
  <2>5. QED
    BY <1>2, <1>4, <2>1, <2>2, <2>4 DEF PaidRows
<1>7. ASSUME NEW s \in Schedules(db')
      PROVE  /\ s.by \in Rejections => Hold \in db'
             /\ s.by \in Resets => at'[s.by] > 6
             /\ \A c \in Completeds(db') :
                   ~s.done /\ c.id = <<s.request, s.by>> => s.by \in Rejections
  <2>1. CASE s \in Schedules(db)
    <3>1. /\ s.by \in Rejections => Hold \in db'
          /\ s.by \in Resets => at'[s.by] > 6
      BY <1>2, <1>3, <1>4, <2>1 DEF PaidRows
    <3>2. ASSUME NEW c \in Completeds(db'), ~s.done, c.id = <<s.request, s.by>>
          PROVE  s.by \in Rejections
      <4>1. PICK d \in Completeds(db) : d.id = c.id
        BY <1>5
      <4>2. QED
        BY <1>2, <2>1, <3>2, <4>1 DEF PaidRows
    <3>3. QED
      BY <3>1, <3>2
  <2>2. CASE s \notin Schedules(db)
    <3>1. s \in Schedules(put[t]) /\ s \notin cut[t]
      BY <1>1, <1>7, <2>2 DEF Locks, Schedules, In
    <3>2. CASE t \in Rejections /\ s.by = t
      <4>1. at[t] = 11 /\ 11 \in 9..11
        BY <1>1, <3>2
      <4>2. Hold \in db \cup put[t]
        BY <3>2, <4>1 DEF RowsInv, RejectionRows
      <4>3. Hold \in db'
        BY <1>1, <1>3, <4>2
      <4>4. s.by \notin Resets
        BY <3>2, TablesAssumption DEF TablesAssumption
      <4>5. QED
        BY <3>2, <4>3, <4>4
    <3>3. CASE t \in Payments /\ s = Schedule(lastId + 1, t)
      <4>1. s.by = t /\ s.request = lastId + 1
        BY <3>3, NewSchedule
      <4>2. t \notin Rejections /\ t \notin Resets
        BY <3>3, TablesAssumption DEF TablesAssumption
      <4>3. ASSUME NEW c \in Completeds(db'), c.id = <<s.request, s.by>> PROVE FALSE
        <5>1. c.id[1] = c.request /\ c.request <= lastId
          BY <1>6
        <5>2. c.id[1] = lastId + 1
          BY <4>1, <4>3
        <5>3. QED
          BY <1>1, <5>1, <5>2
      <4>4. QED
        BY <4>1, <4>2, <4>3
    <3>4. QED
      BY <1>2, <3>1, <3>2, <3>3 DEF OwnSchedules
  <2>3. QED
    BY <2>1, <2>2
<1>8. QED
  BY <1>6, <1>7 DEF PaidRows

\* A commit keeps the rows of all handlers.
LEMMA RowsCommitted ==
    ASSUME TypeInv, Locks, HeldInv, RequestsInv, RowsInv, NEW t \in Tasks, Commit(t)
    PROVE  RowsInv'
<1>1. /\ db' = (db \ cut[t]) \cup put[t] /\ found' = found
      /\ \A u \in Tasks : at'[u] = IF u = t THEN at[t] + 1 ELSE at[u]
      /\ \A u \in Tasks : /\ put'[u] = IF u = t THEN {} ELSE put[u]
                          /\ cut'[u] = IF u = t THEN {} ELSE cut[u]
      /\ t \notin Resets
      /\ t \in Rejections => at[t] = 11
      /\ t \in Retentions => at[t] = 9
      /\ lastId' \in Nat /\ lastId <= lastId' /\ lastId \in Nat
  BY Committed, TablesAssumption DEF TablesAssumption, TypeInv, TablesTyped
<1>2. Hold \in db => Hold \in db'
  BY <1>1 DEF HeldInv
<1>3. \A u \in Payments : u # t /\ put[u] # {} => lastId' = lastId
  BY NumberGiven DEF RequestsInv
<1>4. put'[t] = {} /\ cut'[t] = {} /\ at'[t] = at[t] + 1
  BY <1>1
<1>5. Schedules({}) = {} /\ Completeds({}) = {}
  BY RowsOf
<1>6. OwnSchedules(t)' /\ OwnPayments(t)'
  BY <1>4, <1>5 DEF OwnSchedules, OwnPayments
<1>7. ASSUME t \in Rejections PROVE RejectionRows(t)'
  <2>1. /\ at'[t] = 12 /\ 12 \notin 2..3 /\ 12 \notin 3..11 /\ 12 \notin 4..11
        /\ 12 \notin 9..11 /\ 12 \notin {6, 10}
    BY <1>1, <1>4, <1>7
  <2>2. QED
    BY <1>4, <1>5, <2>1 DEF RejectionRows
<1>8. ASSUME t \in Retentions PROVE RetentionRows(t)'
  <2>1. at'[t] = 10 /\ 10 \notin 4..8
    BY <1>1, <1>4, <1>8
  <2>2. QED
    BY <1>4, <1>5, <2>1 DEF RetentionRows
<1>9. ASSUME NEW u \in Tasks
      PROVE  /\ OwnSchedules(u)' /\ OwnPayments(u)'
             /\ u \in Rejections => RejectionRows(u)'
             /\ u \in Retentions => RetentionRows(u)'
  <2>1. CASE u = t
    BY <1>6, <1>7, <1>8, <2>1
  <2>2. CASE u # t
    BY <1>1, <1>2, <1>3, <2>2, OthersRows
  <2>3. QED
    BY <2>1, <2>2
<1>10. ASSUME NEW x \in Resets, at'[x] \in 2..6
       PROVE  \E j \in 0..lastId' : found'[x].requests = {j}
  <2>1. at[x] \in 2..6 /\ found'[x] = found[x]
    BY <1>1, <1>10 DEF Tasks
  <2>2. PICK j \in 0..lastId : found[x].requests = {j}
    BY <2>1 DEF RowsInv
  <2>3. j \in 0..lastId'
    BY <1>1, <2>2
  <2>4. QED
    BY <2>1, <2>2, <2>3
<1>11. Rejections \cup Retentions \subseteq Tasks
  BY DEF Tasks
<1>12. QED
  BY <1>9, <1>10, <1>11, PaidRowsCommitted DEF RowsInv

\* Every step keeps the rows.
LEMMA RowsKept ==
    TypeInv /\ Locks /\ HeldInv /\ RequestsInv /\ RowsInv
        /\ (TablesNext \/ UNCHANGED tablesVars) => RowsInv'
<1> SUFFICES ASSUME TypeInv, Locks, HeldInv, RequestsInv, RowsInv,
                    TablesNext \/ UNCHANGED tablesVars
             PROVE  RowsInv'
  OBVIOUS
<1>1. CASE UNCHANGED <<db, lastId, put, cut, at, found>>
  <2>1. PaidRows'
    BY <1>1 DEF RowsInv, PaidRows
  <2>2. \A t \in Tasks : OwnSchedules(t)' /\ OwnPayments(t)'
    BY <1>1 DEF RowsInv, OwnSchedules, OwnPayments
  <2>3. \A t \in Rejections : RejectionRows(t)'
    BY <1>1 DEF RowsInv, RejectionRows
  <2>4. \A t \in Retentions : RetentionRows(t)'
    BY <1>1 DEF RowsInv, RetentionRows
  <2>5. QED
    BY <1>1, <2>1, <2>2, <2>3, <2>4 DEF RowsInv
<1>2. QED
  BY <1>1, Steps, ErrorsRollBack, RowsProcessed, RowsStarted, RowsLookedUp, RowsMovedOn,
     RowsRolledBack, RowsWritten, RowsCommitted

-----------------------------------------------------------------------------
(* What a transaction sees of a payment: the committed rows but for those  *)
(* it has replaced, a, and those it has written, b.                        *)

\* The pod completes what it was to pay.
LEMMA SettledProcessed ==
    ASSUME TypeInv, RowsInv, ProcessPaymentRequest, NEW i, NEW a, NEW b, a \subseteq db,
           Provided(i, (db \ a) \cup b)
    PROVE  Settled(i, (db' \ a) \cup b) \/ Excused(i)'
<1>1. UNCHANGED <<at, found, halfReset>> /\ Hold \notin db
  BY Pays
<1>2. PICK s, z, c :
         /\ s \in Schedules(db)
         /\ z.request = s.request /\ z.by = s.by /\ z.done
         /\ c.request = s.request /\ c.id = <<s.request, s.by>> /\ ~c.invalid
         /\ Schedules(db') = (Schedules(db) \ {s}) \cup {z}
         /\ Completeds(db') = Completeds(db) \cup {c}
         /\ s.request <= lastId /\ ~s.done /\ \A t \in Tasks : s \notin cut[t]
         /\ \A y \in Schedules(db) :
               y.request = s.request /\ y.by = s.by /\ ~y.done => y = s
  BY Pays
<1>3. c \notin Completeds(db)
  BY <1>1, <1>2 DEF RowsInv, PaidRows
<1>4. c \in Completeds(db') /\ c \notin a
  BY <1>2, <1>3 DEF Completeds, In
<1>5. Excused(i) => Excused(i)'
  BY <1>1 DEF Excused, Resetting
<1>6. ASSUME NEW y \in Schedules((db \ a) \cup b), y.request = i, ~y.done
      PROVE  Settled(i, (db' \ a) \cup b)
  <2>1. CASE y = s /\ y \notin b
    <3>1. c.request = i /\ c \in Completeds((db' \ a) \cup b)
      BY <1>2, <1>4, <1>6, <2>1 DEF Completeds, In
    <3>2. QED
      BY <1>2, <3>1 DEF Settled
  <2>2. CASE y # s \/ y \in b
    <3>1. y \in Schedules((db' \ a) \cup b)
      BY <1>2, <1>6, <2>2 DEF Schedules, In
    <3>2. QED
      BY <1>6, <3>1 DEF Settled
  <2>3. QED
    BY <2>1, <2>2
<1>7. ASSUME NEW d \in Completeds((db \ a) \cup b), d.request = i, ~d.invalid
      PROVE  Settled(i, (db' \ a) \cup b)
  <2>1. d \in Completeds((db' \ a) \cup b)
    BY <1>2, <1>7 DEF Completeds, In
  <2>2. QED
    BY <1>7, <2>1 DEF Settled
<1>8. QED
  BY <1>5, <1>6, <1>7 DEF Provided, Settled

\* A reset that has voided a payment finds a schedule, goes on to make one, or
\* fails half-way.
LEMMA SettledMoved ==
    ASSUME TypeInv, RowsInv, NEW t \in Tasks,
           Start(t) \/ LookUp(t) \/ RemoveAutoHold(t) \/ Complete(t) \/ RollBack(t),
           NEW i, NEW a, NEW b, Schedules(a) \subseteq b, Provided(i, (db \ a) \cup b)
    PROVE  db' = db /\ (Settled(i, (db' \ a) \cup b) \/ Excused(i)')
<1>1. /\ db' = db /\ halfReset \subseteq halfReset'
      /\ \A u \in Tasks : u # t => at'[u] = at[u] /\ found'[u] = found[u]
  <2>1. db' = db /\ halfReset \subseteq halfReset'
    BY LookUpDoes
    DEF Start, RemoveAutoHold, Complete, RollBack, Finds, TypeInv
  <2>2. \E j \in Nat : Moved(t, j)
    <3>1. 1 \in Nat
      OBVIOUS
    <3>2. QED
      BY <3>1, Started, LookedUp, MovedOn, RolledBack
  <2>3. QED
    BY <2>1, <2>2 DEF Moved
<1>2. CASE Settled(i, (db \ a) \cup b)
  BY <1>1, <1>2
<1>3. CASE halfReset # {}
  BY <1>1, <1>3 DEF Excused
<1>4. ASSUME NEW x \in Resets, i \in found[x].requests,
             at[x] = 5 \/ (at[x] = 6 /\ found[x].schedule = {})
      PROVE  Settled(i, (db \ a) \cup b) \/ Excused(i)'
  <2>1. CASE x # t
    <3>1. at'[x] = at[x] /\ found'[x] = found[x]
      BY <1>1, <2>1 DEF Tasks
    <3>2. QED
      BY <1>4, <3>1 DEF Excused, Resetting
  <2>2. CASE x = t /\ RollBack(t)
    <3>1. PlaceOf(t, "newReference") = 3 /\ at[t] \in {5, 6}
      BY <1>4, <2>2, ResetPlace
    <3>2. t \in halfReset'
      BY <1>4, <2>2, <3>1 DEF RollBack
    <3>3. QED
      BY <3>2 DEF Excused
  <2>3. CASE x = t /\ LookUp(t)
    <3>1. Step(t) = "findSchedule" /\ at[t] = 5
      <4>1. Step(t) \in Lookups
        BY <2>3 DEF LookUp, Lookups
      <4>2. QED
        BY <1>4, <2>3, <4>1, ResetPlace DEF Lookups
    <3>2. /\ found'[t].requests = found[t].requests /\ at'[t] = 6
          /\ \/ found'[t].schedule = {}
             \/ \E s \in Schedules(View(t)) :
                   s.request \in found[t].requests /\ ~s.done
      BY <2>3, <3>1, ScheduleFound
    <3>3. View(t) = db
      BY <1>4, <2>3 DEF TypeInv, NothingWritten, View
    <3>4. CASE found'[t].schedule = {}
      BY <1>4, <2>3, <3>2, <3>4 DEF Excused, Resetting
    <3>5. ASSUME NEW s \in Schedules(db), s.request \in found[t].requests, ~s.done
          PROVE  Settled(i, (db \ a) \cup b)
      <4>1. 5 \in 2..6
        OBVIOUS
      <4>2. s.request = i
        BY <1>4, <2>3, <3>1, <3>5, <4>1 DEF RowsInv
      <4>3. s \in Schedules((db \ a) \cup b)
        BY <3>5 DEF Schedules, In
      <4>4. QED
        BY <3>5, <4>2, <4>3 DEF Settled
    <3>6. QED
      BY <3>2, <3>3, <3>4, <3>5
  <2>4. CASE x = t /\ (Start(t) \/ RemoveAutoHold(t) \/ Complete(t))
    <3>1. at[t] # 0 /\ at[t] # 7 /\ t \in Resets /\ t \notin Replies
      BY <1>4, <2>4, TablesAssumption DEF TablesAssumption
    <3>2. QED
      BY <1>4, <2>4, <3>1, Started, MovedOn, TablesAssumption DEF TablesAssumption
  <2>5. QED
    BY <2>1, <2>2, <2>3, <2>4
<1>5. QED
  BY <1>1, <1>2, <1>3, <1>4 DEF Provided, Excused, Resetting

\* A statement that voids a payment is that of a reset that is to schedule it, or
\* of a transaction that shows it only when it ends.
LEMMA SettledWritten ==
    ASSUME TypeInv, Locks, RowsInv, NEW t \in Tasks, Write(t),
           NEW i, NEW a, NEW b, a \subseteq db, Schedules(a) \subseteq b, a \cap Cut(t) = {},
           Provided(i, (db \ a) \cup b)
    PROVE  Settled(i, (db' \ a) \cup b) \/ Excused(i)'
<1>1. /\ Writes(t) /\ found' = found /\ halfReset' = halfReset
      /\ \A u \in Tasks : at'[u] = IF u = t THEN at[t] + 1 ELSE at[u]
      /\ Resets \subseteq Tasks
  BY Written DEF Write, Tasks
<1>2. CASE InTransaction(t)
  <2>1. db' = db /\ \A x \in Resets : at'[x] = at[x]
    BY <1>1, <1>2, Written DEF InTransaction
  <2>2. Excused(i) => Excused(i)'
    BY <1>1, <2>1 DEF Excused, Resetting
  <2>3. QED
    BY <2>1, <2>2 DEF Provided
<1>3. CASE ~InTransaction(t)
  <2>1. db' = (db \ Cut(t)) \cup Put(t) /\ View(t) = db
    BY <1>3, Written
  <2>2. Schedules(db) \subseteq Schedules(db')
    BY <1>3, WrittenOutside
  <2>3. ASSUME NEW s \in Schedules((db \ a) \cup b), s.request = i, ~s.done
        PROVE  Settled(i, (db' \ a) \cup b)
    <3>1. s \in Schedules((db' \ a) \cup b)
      BY <2>2, <2>3 DEF Schedules, In
    <3>2. QED
      BY <2>3, <3>1 DEF Settled
  <2>4. ASSUME NEW d \in Completeds((db \ a) \cup b), d.request = i, ~d.invalid
        PROVE  Settled(i, (db' \ a) \cup b) \/ Excused(i)'
    <3>1. CASE d \in b \/ d \notin Cut(t)
      <4>1. d \in Completeds((db' \ a) \cup b)
        BY <2>1, <2>4, <3>1 DEF Completeds, In
      <4>2. QED
        BY <2>4, <4>1 DEF Settled
    <3>2. CASE d \in Cut(t)
      <4>1. d \in Completeds(Cut(t))
        BY <2>4, <3>2 DEF Completeds, In
      <4>2. Step(t) \in {"acknowledge", "invalidate", "removeCompleted"}
        BY <1>1, <4>1, ScheduleStatements
      <4>3. \/ Step(t) = "acknowledge"
            \/ Step(t) = "invalidate" /\ t \in Resets /\ at[t] = 4
        BY <1>3, <4>2, StepOf, TablesAssumption DEF InTransaction, TablesAssumption
      <4>4. CASE Step(t) = "acknowledge"
        <5>1. PICK c \in Completeds(Put(t)) : c.request = d.request /\ c.invalid = d.invalid
          BY <1>1, <4>1, <4>4, PaymentStatements
        <5>2. Cut(t) = Completeds(db)
          BY <2>1, <4>4, CutIs DEF Completeds
        <5>3. c \notin a
          <6>1. c \in db => c \in Completeds(db)
            BY <5>1 DEF Completeds, In
          <6>2. QED
            BY <5>2, <6>1
        <5>4. c \in Completeds((db' \ a) \cup b)
          BY <2>1, <5>1, <5>3 DEF Completeds, In
        <5>5. QED
          BY <2>4, <5>1, <5>4 DEF Settled
      <4>5. CASE Step(t) = "invalidate" /\ t \in Resets /\ at[t] = 4
        <5>1. i \in found[t].requests
          BY <2>4, <3>2, <4>5, CutIs DEF Of
        <5>2. at'[t] = 5 /\ i \in found'[t].requests
          BY <1>1, <4>5, <5>1
        <5>3. QED
          BY <4>5, <5>2 DEF Excused, Resetting
      <4>6. QED
        BY <4>3, <4>4, <4>5
    <3>3. QED
      BY <3>1, <3>2
  <2>5. CASE halfReset # {}
    BY <1>1, <2>5 DEF Excused
  <2>6. ASSUME NEW x \in Resets, i \in found[x].requests,
               at[x] = 5 \/ (at[x] = 6 /\ found[x].schedule = {})
        PROVE  Settled(i, (db' \ a) \cup b) \/ Excused(i)'
    <3>1. CASE x # t
      BY <1>1, <2>6, <3>1 DEF Excused, Resetting
    <3>2. CASE x = t
      <4>1. Step(t) = "schedule" /\ found[t].schedule = {}
        BY <1>1, <2>6, <3>2, ResetPlace DEF Writes, Lookups
      <4>2. Schedule(i, t) \in Put(t)
        BY <2>6, <3>2, <4>1, EnsureWrites
      <4>3. Schedule(i, t) \in Schedules((db' \ a) \cup b)
        <5>0. Schedule(i, t).table = "schedule"
          BY DEF Schedule
        <5>1. Schedule(i, t) \in db'
          BY <2>1, <4>2
        <5>2. Schedule(i, t) \in (db' \ a) \cup b
          <6>1. Schedule(i, t) \in a => Schedule(i, t) \in b
            BY <5>0 DEF Schedules, In
          <6>2. QED
            BY <5>1, <6>1
        <5>3. QED
          BY <5>2, <5>0 DEF Schedules, In
      <4>4. QED
        BY <4>3, NewSchedule DEF Settled
    <3>3. QED
      BY <3>1, <3>2
  <2>7. QED
    BY <2>3, <2>4, <2>5, <2>6 DEF Provided, Settled, Excused, Resetting
<1>4. QED
  BY <1>2, <1>3

\* A commit leaves the payments of other requests alone.
LEMMA SettledCommitted ==
    ASSUME TypeInv, RowsInv, NEW t \in Tasks, Commit(t),
           NEW i, NEW a, NEW b, Provided(i, (db \ a) \cup b),
           t \in Rejections \cup Retentions => i \notin found[t].requests
    PROVE  Settled(i, (db' \ a) \cup b) \/ Excused(i)'
<1>1. /\ db' = (db \ cut[t]) \cup put[t] /\ found' = found /\ halfReset' = halfReset
      /\ \A x \in Resets : at'[x] = at[x]
  BY Committed, TablesAssumption DEF Commit, Tasks, TablesAssumption
<1>2. Excused(i) => Excused(i)'
  BY <1>1 DEF Excused, Resetting
<1>3. \A r \in Schedules(cut[t]) \cup Completeds(cut[t]) : r.request # i
  BY DEF RowsInv, OwnPayments
<1>4. ASSUME NEW s \in Schedules((db \ a) \cup b), s.request = i
      PROVE  s \in Schedules((db' \ a) \cup b)
  BY <1>1, <1>3, <1>4 DEF Schedules, In
<1>5. ASSUME NEW c \in Completeds((db \ a) \cup b), c.request = i
      PROVE  c \in Completeds((db' \ a) \cup b)
  BY <1>1, <1>3, <1>5 DEF Completeds, In
<1>6. QED
  BY <1>2, <1>4, <1>5 DEF Provided, Settled

\* More rows provide for a payment no less.
LEMMA SettledMore ==
    ASSUME NEW i, NEW a, NEW b, a \subseteq b, Settled(i, a)
    PROVE  Settled(i, b)
  BY DEF Settled, Schedules, Completeds, In

\* The steps by what they do to the payments.
LEMMA PaymentSteps ==
    ASSUME TablesNext \/ UNCHANGED tablesVars
    PROVE  \/ UNCHANGED <<db, lastId, put, cut, at, found, halfReset>>
           \/ ProcessPaymentRequest
           \/ \E t \in Tasks :
                 \/ Start(t) \/ LookUp(t) \/ RemoveAutoHold(t) \/ Complete(t) \/ RollBack(t)
                 \/ Write(t) \/ Commit(t)
<1>1. \/ UNCHANGED <<db, lastId, put, cut, at, found, halfReset>>
      \/ ProcessPaymentRequest
      \/ \E t \in Tasks :
            \/ Start(t) \/ LookUp(t) \/ RemoveAutoHold(t) \/ Complete(t)
            \/ NotFound(t) \/ WriteFails(t) \/ Deadlock(t) \/ Outage(t)
            \/ Write(t) \/ Commit(t)
  BY DEF TablesNext, Handle, tablesVars, SendToCrossBorder, HoldForCrossBorder
<1>2. QED
  BY <1>1, ErrorsRollBack

\* A payment stays provided for, in what a transaction sees, while it is others
\* that write.
LEMMA StaysProvided ==
    ASSUME TypeInv, Locks, RowsInv, TablesNext \/ UNCHANGED tablesVars,
           NEW i, NEW a, NEW b, a \subseteq db, Schedules(a) \subseteq b,
           \A t \in Tasks : Write(t) => a \cap Cut(t) = {},
           \A t \in Rejections \cup Retentions : Commit(t) => i \notin found[t].requests,
           Provided(i, (db \ a) \cup b)
    PROVE  Settled(i, (db' \ a) \cup b) \/ Excused(i)'
<1>1. CASE UNCHANGED <<db, lastId, put, cut, at, found, halfReset>>
  <2>1. Excused(i) => Excused(i)'
    BY <1>1 DEF Excused, Resetting
  <2>2. QED
    BY <1>1, <2>1 DEF Provided
<1>2. CASE ProcessPaymentRequest
  BY <1>2, SettledProcessed
<1>3. ASSUME NEW t \in Tasks,
             Start(t) \/ LookUp(t) \/ RemoveAutoHold(t) \/ Complete(t) \/ RollBack(t)
      PROVE  Settled(i, (db' \ a) \cup b) \/ Excused(i)'
  BY <1>3, SettledMoved
<1>4. ASSUME NEW t \in Tasks, Write(t)
      PROVE  Settled(i, (db' \ a) \cup b) \/ Excused(i)'
  <2>1. a \cap Cut(t) = {}
    BY <1>4
  <2>2. QED
    BY <1>4, <2>1, SettledWritten
<1>5. ASSUME NEW t \in Tasks, Commit(t)
      PROVE  Settled(i, (db' \ a) \cup b) \/ Excused(i)'
  <2>1. t \in Rejections \cup Retentions => i \notin found[t].requests
    BY <1>5
  <2>2. QED
    BY <1>5, <2>1, SettledCommitted
<1>6. QED
  BY <1>1, <1>2, <1>3, <1>4, <1>5, PaymentSteps

\* A handler takes the step, or the step leaves it where it is.
LEMMA ActsOrWaits ==
    ASSUME TypeInv, TablesNext \/ UNCHANGED tablesVars, NEW u \in Tasks
    PROVE  \/ /\ at'[u] = at[u] /\ found'[u] = found[u]
              /\ put'[u] = put[u] /\ cut'[u] = cut[u]
           \/ Start(u) \/ LookUp(u) \/ RemoveAutoHold(u) \/ Complete(u) \/ RollBack(u)
           \/ Write(u) \/ Commit(u)
<1> DEFINE Waits == /\ at'[u] = at[u] /\ found'[u] = found[u]
                    /\ put'[u] = put[u] /\ cut'[u] = cut[u]
<1>1. CASE UNCHANGED <<db, lastId, put, cut, at, found, halfReset>>
  BY <1>1
<1>2. CASE ProcessPaymentRequest
  <2>1. UNCHANGED <<put, cut, at, found>>
    BY <1>2, Pays
  <2>2. QED
    BY <2>1
<1>3. ASSUME NEW t \in Tasks, t # u,
             Start(t) \/ LookUp(t) \/ RemoveAutoHold(t) \/ Complete(t) \/ RollBack(t)
      PROVE  Waits
  <2>1. \E j \in Nat : Moved(t, j)
    <3>1. 1 \in Nat
      OBVIOUS
    <3>2. QED
      BY <1>3, <3>1, Started, LookedUp, MovedOn, RolledBack
  <2>2. QED
    BY <1>3, <2>1 DEF Moved
<1>4. ASSUME NEW t \in Tasks, t # u, Write(t) PROVE Waits
  BY <1>4, Written
<1>5. ASSUME NEW t \in Tasks, t # u, Commit(t) PROVE Waits
  BY <1>5, Committed
<1>6. QED
  BY <1>1, <1>2, <1>3, <1>4, <1>5, PaymentSteps

\* A handler that writes or commits does not stay where it is.
LEMMA WritersMove ==
    ASSUME TypeInv, NEW t \in Tasks, Write(t) \/ Commit(t)
    PROVE  at'[t] # at[t]
<1>1. at[t] \in Nat /\ at'[t] = at[t] + 1
  BY Written, Committed DEF TypeInv, TablesTyped
<1>2. QED
  BY <1>1

\* A request that a handler has locked is there as long as it waits.
LEMMA LockedRequest ==
    ASSUME TypeInv, Locks, RequestsInv, TablesNext \/ UNCHANGED tablesVars,
           NEW u \in Tasks, at'[u] = at[u],
           \A p \in Requests(db) : p.id \in found[u].requests => p \in cut[u],
           NEW q \in Requests(db'), q.id \in found[u].requests, q.id <= lastId
    PROVE  q \in Requests(db)
<1>1. CASE UNCHANGED <<db, lastId, put, cut, at, found, halfReset>>
  BY <1>1
<1>2. CASE ProcessPaymentRequest
  BY <1>2, Pays
<1>3. ASSUME NEW t \in Tasks,
             Start(t) \/ LookUp(t) \/ RemoveAutoHold(t) \/ Complete(t) \/ RollBack(t)
      PROVE  q \in Requests(db)
  <2>1. db' = db
    BY <1>3, LookUpDoes DEF Start, RemoveAutoHold, Complete, RollBack, Finds, TypeInv
  <2>2. QED
    BY <2>1
<1>4. ASSUME NEW t \in Tasks, Write(t) \/ Commit(t) PROVE q \in Requests(db)
  <2>1. t # u
    BY <1>4, WritersMove
  <2>2. QED
    BY <1>4, <2>1, LockedStays
<1>5. QED
  BY <1>1, <1>2, <1>3, <1>4, PaymentSteps

\* A request is there already, or its payment commits it with its schedule.
LEMMA RequestKnown ==
    ASSUME TypeInv, Locks, RequestsInv, RowsInv, SavedInv,
           TablesNext \/ UNCHANGED tablesVars, NEW q \in Requests(db')
    PROVE  (\E p \in Requests(db) : p.id = q.id) \/ Settled(q.id, db')
<1>1. CASE UNCHANGED <<db, lastId, put, cut, at, found, halfReset>>
  BY <1>1
<1>2. CASE ProcessPaymentRequest
  <2>1. Requests(db') = Requests(db)
    BY <1>2, Pays
  <2>2. QED
    BY <2>1
<1>3. ASSUME NEW t \in Tasks,
             Start(t) \/ LookUp(t) \/ RemoveAutoHold(t) \/ Complete(t) \/ RollBack(t)
      PROVE  \E p \in Requests(db) : p.id = q.id
  <2>1. db' = db
    BY <1>3, LookUpDoes DEF Start, RemoveAutoHold, Complete, RollBack, Finds, TypeInv
  <2>2. QED
    BY <2>1
<1>4. ASSUME NEW t \in Tasks, Write(t) PROVE \E p \in Requests(db) : p.id = q.id
  BY <1>4, WriteAddsNoRequest
<1>5. ASSUME NEW t \in Tasks, Commit(t)
      PROVE  (\E p \in Requests(db) : p.id = q.id) \/ Settled(q.id, db')
  <2>1. db' = (db \ cut[t]) \cup put[t]
    BY <1>5, Committed
  <2>2. q \in Requests(db) \/ q \in Requests(put[t])
    BY <2>1 DEF Requests, In
  <2>3. CASE q \in Requests(db)
    BY <2>3
  <2>4. ASSUME NEW p \in Requests(cut[t]), p.id = q.id
        PROVE  \E r \in Requests(db) : r.id = q.id
    <3>1. p \in Requests(db)
      BY <2>4 DEF Locks, Requests, In
    <3>2. QED
      BY <2>4, <3>1
  <2>5. CASE q \in Requests(put[t]) /\ t \in Payments /\ q.id = lastId + 1
    <3>1. put[t] # {} /\ cut[t] = {} /\ at[t] = 5
      BY <1>5, <2>5, Committed, TablesAssumption
      DEF RequestsInv, Requests, In, TablesAssumption
    <3>2. PICK s \in Schedules(put[t]) : s.request = lastId + 1
      BY <2>5, <3>1 DEF SavedInv, PaymentSaved
    <3>3. s = Schedule(lastId + 1, t)
      BY <2>5, <3>1, TablesAssumption DEF RowsInv, OwnSchedules, TablesAssumption
    <3>4. ~s.done /\ s.request = q.id
      BY <2>5, <3>2, <3>3 DEF Schedule
    <3>5. s \in Schedules(db')
      BY <2>1 DEF Schedules, In
    <3>6. QED
      BY <3>4, <3>5 DEF Settled
  <2>6. QED
    BY <2>2, <2>3, <2>4, <2>5 DEF RequestsInv
<1>6. QED
  BY <1>1, <1>2, <1>3, <1>4, <1>5, PaymentSteps

\* A transaction that has locked the request it resets or removes commits without
\* another that has locked it too.
LEMMA LockedByOne ==
    ASSUME TypeInv, Locks, LinesInv, RowsInv,
           NEW u \in Tasks, NEW t \in Rejections \cup Retentions, t # u, Commit(t),
           NEW q \in Requests(db), q \in cut[u]
    PROVE  q.id \notin found[t].requests
<1>1. t \in Tasks
  BY DEF Tasks
<1>2. \/ t \in Rejections /\ at[t] = 11
      \/ t \in Retentions /\ at[t] = 9
  BY <1>1, Committed, TablesAssumption DEF TablesAssumption
<1>3. 11 \in 4..11
  OBVIOUS
<1>4. q.id \in found[t].requests => q \in cut[t]
  BY <1>1, <1>2, <1>3 DEF RowsInv, RejectionRows, LinesInv, LocksRequests, Owns
<1>5. QED
  BY <1>1, <1>4 DEF Locks

\* Every request that is committed is provided for.
LEMMA CommittedProvided ==
    ASSUME TypeInv, Locks, RequestsInv, LinesInv, SavedInv, RowsInv, SettledInv,
           TablesNext \/ UNCHANGED tablesVars, NEW q \in Requests(db')
    PROVE  Settled(q.id, db') \/ Excused(q.id)'
<1>1. CASE Settled(q.id, db')
  BY <1>1
<1>2. ASSUME NEW p \in Requests(db), p.id = q.id
      PROVE  Settled(q.id, db') \/ Excused(q.id)'
  <2>1. Provided(q.id, db)
    BY <1>2 DEF SettledInv
  <2>2. CASE \A t \in Rejections \cup Retentions : Commit(t) => q.id \notin found[t].requests
    <3> DEFINE i == q.id
    <3>1. (db \ {}) \cup {} = db /\ (db' \ {}) \cup {} = db'
      OBVIOUS
    <3>2. Provided(i, (db \ {}) \cup {}) /\ Schedules({}) \subseteq {} /\ {} \subseteq db
      BY <2>1, <3>1 DEF Schedules, In
    <3>3. \A t \in Tasks : Write(t) => {} \cap Cut(t) = {}
      OBVIOUS
    <3>4. \A t \in Rejections \cup Retentions : Commit(t) => i \notin found[t].requests
      BY <2>2
    <3> HIDE DEF i
    <3>5. Settled(i, (db' \ {}) \cup {}) \/ Excused(i)'
      BY <3>2, <3>3, <3>4, StaysProvided
    <3>6. QED
      BY <3>1, <3>5 DEF i
  <2>3. ASSUME NEW t \in Rejections, Commit(t), q.id \in found[t].requests
        PROVE  Settled(q.id, db') \/ Excused(q.id)'
    <3>1. t \in Tasks /\ 11 \in 7..11
      BY DEF Tasks
    <3>2. /\ at[t] = 11 /\ db' = View(t) /\ found' = found /\ halfReset' = halfReset
          /\ \A x \in Resets : at'[x] = at[x]
      BY <2>3, <3>1, Committed, TablesAssumption DEF Commit, Tasks, TablesAssumption
    <3>3. Provided(q.id, View(t))
      BY <1>2, <2>3, <3>1, <3>2 DEF SettledInv, Ensured
    <3>4. Excused(q.id) => Excused(q.id)'
      BY <3>2 DEF Excused, Resetting
    <3>5. QED
      BY <3>2, <3>3, <3>4 DEF Provided
  <2>4. ASSUME NEW t \in Retentions, Commit(t), q.id \in found[t].requests
        PROVE  FALSE
    <3>1. t \in Tasks
      BY DEF Tasks
    <3>2. at[t] = 9 /\ db' = (db \ cut[t]) \cup put[t]
      BY <2>4, <3>1, Committed, TablesAssumption DEF TablesAssumption
    <3>3. put[t] = {} /\ (q \in Requests(db) => q \in cut[t])
      BY <2>4, <3>1, <3>2 DEF LinesInv, RetentionLines, LocksRequests, Owns
    <3>4. QED
      BY <3>2, <3>3 DEF Requests, In
  <2>5. QED
    BY <2>2, <2>3, <2>4
<1>3. QED
  BY <1>1, <1>2, RequestKnown

\* What a rejection has ensured stays so while it waits.
LEMMA WaitingProvided ==
    ASSUME TypeInv, Locks, RequestsInv, LinesInv, RowsInv, SettledInv,
           TablesNext \/ UNCHANGED tablesVars, NEW u \in Rejections,
           /\ at'[u] = at[u] /\ found'[u] = found[u]
           /\ put'[u] = put[u] /\ cut'[u] = cut[u],
           Ensured(u), NEW q \in Requests(db'), q.id \in found[u].requests
    PROVE  Settled(q.id, View(u)') \/ Excused(q.id)'
<1>1. u \in Tasks /\ at[u] \in 4..11 /\ at[u] \in 3..11
  BY DEF Tasks, Ensured
<1>2. /\ \A p \in Requests(db) : p.id \in found[u].requests => p \in cut[u]
      /\ Schedules(cut[u]) \subseteq put[u] /\ cut[u] \subseteq db
      /\ \E i \in 0..lastId : found[u].requests = {i}
  BY <1>1 DEF RowsInv, RejectionRows, Locks
<1>3. q.id \in 0..lastId
  BY <1>2
<1>4. q.id <= lastId
  BY <1>3
<1>5. q \in Requests(db)
  BY <1>1, <1>2, <1>4, LockedRequest
<1>6. q \in cut[u] /\ Provided(q.id, View(u))
  BY <1>2, <1>5 DEF SettledInv
<1>7. \A t \in Tasks : Write(t) => cut[u] \cap Cut(t) = {}
  BY <1>1, WritersMove, WriteIsFree
<1>8. \A t \in Rejections \cup Retentions : Commit(t) => q.id \notin found[t].requests
  <2>1. \A t \in Rejections \cup Retentions : t \in Tasks
    BY DEF Tasks
  <2>2. QED
    BY <1>1, <1>5, <1>6, <2>1, WritersMove, LockedByOne
<1> DEFINE i == q.id
           a == cut[u]
           b == put[u]
<1>9. /\ Provided(i, (db \ a) \cup b) /\ a \subseteq db /\ Schedules(a) \subseteq b
      /\ \A t \in Tasks : Write(t) => a \cap Cut(t) = {}
      /\ \A t \in Rejections \cup Retentions : Commit(t) => i \notin found[t].requests
      /\ View(u)' = (db' \ a) \cup b
  BY <1>2, <1>6, <1>7, <1>8 DEF View
<1> HIDE DEF i, a, b
<1>10. Settled(i, (db' \ a) \cup b) \/ Excused(i)'
  BY <1>9, StaysProvided
<1>11. QED
  BY <1>9, <1>10 DEF i

\* A rejection ensures that the payment it has voided is scheduled: it finds a
\* schedule that is open, or it makes one.
LEMMA EnsuredByLookUp ==
    ASSUME TypeInv, Locks, RequestsInv, RowsInv, SettledInv, NEW u \in Rejections,
           LookUp(u), Ensured(u)', NEW q \in Requests(db'), q.id \in found'[u].requests
    PROVE  Settled(q.id, View(u)') \/ Excused(q.id)'
<1>1. u \in Tasks /\ u \notin Resets
  BY TablesAssumption DEF Tasks, TablesAssumption
<1>2. /\ db' = db /\ put'[u] = put[u] /\ cut'[u] = cut[u]
  BY <1>1, LookedUp DEF Moved
<1>3. View(u)' = View(u)
  BY <1>2 DEF View
<1>4. PICK f \in Found, i \in Nat : Looked(u, f, i) /\ Moved(u, i) /\ found'[u] = f
  BY <1>1, LookedUp
<1>5. at'[u] = i /\ Step(u) \in Lookups
  BY <1>1, <1>4 DEF Moved, Looked
<1>6. \/ at[u] = 2 /\ Step(u) = "findRejected"
      \/ at[u] \in {5, 9} /\ Step(u) = "findSchedule"
      \/ at[u] = 7 /\ Step(u) = "findHold"
  <2>1. at[u] \in 1..12
    BY <1>5, RejectionPlace DEF Lookups
  <2>2. QED
    BY <1>5, <2>1, RejectionPlace DEF Lookups
<1>7. CASE at[u] = 2 /\ Step(u) = "findRejected"
  <2>1. at'[u] \in {3, 12}
    BY <1>1, <1>7, RejectedFound
  <2>2. QED
    BY <2>1 DEF Ensured
<1>8. CASE at[u] = 5 /\ Step(u) = "findSchedule"
  <2>1. /\ found'[u].requests = found[u].requests /\ at'[u] = 6
        /\ \/ found'[u].schedule = {}
           \/ \E s \in Schedules(View(u)) : s.request \in found[u].requests /\ ~s.done
    BY <1>1, <1>8, ScheduleFound
  <2>2. PICK s \in Schedules(View(u)) : s.request \in found[u].requests /\ ~s.done
    BY <2>1 DEF Ensured
  <2>3. 5 \in 3..11
    OBVIOUS
  <2>4. PICK j \in 0..lastId : found[u].requests = {j}
    BY <1>8, <2>3 DEF RowsInv, RejectionRows
  <2>5. s.request = q.id
    BY <2>1, <2>2, <2>4
  <2>6. QED
    BY <1>3, <2>2, <2>5 DEF Settled
<1>9. CASE at[u] \in {7, 9} /\ Step(u) \in {"findSchedule", "findHold"}
  <2>1. f.requests = found[u].requests
    BY <1>4, <1>9 DEF Looked
  <2>2. Ensured(u)
    BY <1>9 DEF Ensured
  <2>3. Provided(q.id, View(u))
    BY <1>2, <1>4, <2>1, <2>2 DEF SettledInv
  <2>4. halfReset' = halfReset /\ \A x \in Resets : at'[x] = at[x] /\ found'[x] = found[x]
    BY <1>1, <1>4, LookUpDoes DEF Moved, Finds, Tasks, TypeInv
  <2>5. Excused(q.id) => Excused(q.id)'
    BY <2>4 DEF Excused, Resetting
  <2>6. QED
    BY <1>3, <2>3, <2>5 DEF Provided
<1>10. QED
  BY <1>6, <1>7, <1>8, <1>9

\* What it has ensured, a rejection keeps in what it writes.
LEMMA EnsuredByWrite ==
    ASSUME TypeInv, Locks, RequestsInv, RowsInv, SettledInv, NEW u \in Rejections,
           Write(u), Ensured(u)', NEW q \in Requests(db'), q.id \in found'[u].requests
    PROVE  Settled(q.id, View(u)') \/ Excused(q.id)'
<1>1. u \in Tasks /\ u \notin Resets
  BY TablesAssumption DEF Tasks, TablesAssumption
<1>2. /\ Writes(u) /\ found' = found /\ at'[u] = at[u] + 1 /\ halfReset' = halfReset
      /\ \A x \in Resets : at'[x] = at[x]
  BY <1>1, Written DEF Write, Tasks
<1>3. \/ at[u] \in {1, 3, 4}
      \/ at[u] \in {6, 10} /\ Step(u) = "schedule"
      \/ at[u] = 8 /\ Step(u) = "addHold"
  <2>1. at[u] \in 1..12 /\ Step(u) \notin Lookups \cup {"commit", "complete"}
    BY <1>2, RejectionPlace DEF Writes
  <2>2. QED
    BY <2>1, RejectionPlace DEF Lookups
<1>4. at[u] \in {6, 8, 10}
  BY <1>2, <1>3 DEF Ensured
<1>5. /\ db' = db /\ View(u)' = (View(u) \ Cut(u)) \cup Put(u)
  <2>1. InTransaction(u)
    BY <1>1, <1>3, <1>4 DEF InTransaction
  <2>2. QED
    BY <1>1, <2>1, Written
<1>6. CASE at[u] = 6 /\ found[u].schedule = {}
  <2>1. Schedule(q.id, u) \in Put(u)
    BY <1>1, <1>2, <1>3, <1>6, EnsureWrites
  <2>2. /\ Schedule(q.id, u).table = "schedule" /\ Schedule(q.id, u).request = q.id
        /\ ~Schedule(q.id, u).done
    BY DEF Schedule
  <2>3. Schedule(q.id, u) \in Schedules(View(u)')
    BY <1>5, <2>1, <2>2 DEF Schedules, In
  <2>4. QED
    BY <2>2, <2>3 DEF Settled
<1>7. CASE Ensured(u)
  <2>1. Provided(q.id, View(u))
    BY <1>2, <1>5, <1>7 DEF SettledInv
  <2>2. View(u) \subseteq View(u)'
    <3>1. CASE Step(u) = "schedule"
      <4>1. Cut(u) \subseteq Put(u)
        BY <1>1, <3>1, EnsureWrites
      <4>2. QED
        BY <1>5, <4>1
    <3>2. CASE Step(u) = "addHold"
      BY <1>5, <3>2, CutIs
    <3>3. QED
      BY <1>3, <1>4, <3>1, <3>2
  <2>3. Settled(q.id, View(u)) => Settled(q.id, View(u)')
    BY <2>2, SettledMore
  <2>4. Excused(q.id) => Excused(q.id)'
    BY <1>2 DEF Excused, Resetting
  <2>5. QED
    BY <2>1, <2>3, <2>4 DEF Provided
<1>8. QED
  <2>1. at[u] \in {8, 10} => Ensured(u)
    BY DEF Ensured
  <2>2. at[u] = 6 /\ found[u].schedule # {} => Ensured(u)
    BY DEF Ensured
  <2>3. QED
    BY <1>4, <1>6, <1>7, <2>1, <2>2

\* Every step keeps each payment provided for.
LEMMA SettledKept ==
    TypeInv /\ Locks /\ RequestsInv /\ LinesInv /\ SavedInv /\ RowsInv /\ SettledInv
        /\ (TablesNext \/ UNCHANGED tablesVars) => SettledInv'
<1> SUFFICES ASSUME TypeInv, Locks, RequestsInv, LinesInv, SavedInv, RowsInv, SettledInv,
                    TablesNext \/ UNCHANGED tablesVars
             PROVE  SettledInv'
  OBVIOUS
<1>1. \A q \in Requests(db') : Settled(q.id, db') \/ Excused(q.id)'
  BY CommittedProvided
<1>2. ASSUME NEW u \in Rejections, Ensured(u)', NEW q \in Requests(db'),
             q.id \in found'[u].requests
      PROVE  Settled(q.id, View(u)') \/ Excused(q.id)'
  <2>1. u \in Tasks /\ u \notin Payments /\ u \notin Resets /\ u \notin Replies
        /\ u \notin Retentions
    BY TablesAssumption DEF Tasks, TablesAssumption
  <2>2. CASE /\ at'[u] = at[u] /\ found'[u] = found[u]
             /\ put'[u] = put[u] /\ cut'[u] = cut[u]
    <3>1. Ensured(u)
      BY <1>2, <2>2 DEF Ensured
    <3>2. QED
      BY <1>2, <2>2, <3>1, WaitingProvided
  <2>3. CASE LookUp(u)
    BY <1>2, <2>3, EnsuredByLookUp
  <2>4. CASE Write(u)
    BY <1>2, <2>4, EnsuredByWrite
  <2>5. CASE Start(u) \/ RemoveAutoHold(u) \/ Complete(u) \/ RollBack(u) \/ Commit(u)
    <3>1. at'[u] \in {0, 1, 12, 13}
      <4>1. CASE Start(u)
        BY <2>1, <4>1, Started DEF Moved
      <4>2. CASE RemoveAutoHold(u) \/ Complete(u)
        BY <2>1, <4>2, MovedOn DEF Moved
      <4>3. CASE RollBack(u)
        BY <2>1, <4>3, RolledBack DEF Moved
      <4>4. CASE Commit(u)
        BY <2>1, <4>4, Committed
      <4>5. QED
        BY <2>5, <4>1, <4>2, <4>3, <4>4
    <3>2. QED
      BY <1>2, <3>1 DEF Ensured
  <2>6. QED
    BY <2>1, <2>2, <2>3, <2>4, <2>5, ActsOrWaits
<1>3. QED
  BY <1>1, <1>2 DEF SettledInv, Provided

\* When no handler is under way every request is scheduled or paid.
LEMMA Rescheduled ==
    TypeInv /\ SettledInv => VoidedIsRescheduled
<1> SUFFICES ASSUME TypeInv, SettledInv, \A t \in Tasks : ~Running(t), halfReset = {},
                    NEW q \in Requests(db)
             PROVE  \/ \E s \in Of("schedule", {q.id}, db) : ~s.done
                    \/ \E c \in Of("completedPaymentRequests", {q.id}, db) : ~c.invalid
  BY DEF VoidedIsRescheduled, Requests
<1>1. ~Resetting(q.id)
  <2>1. ASSUME NEW x \in Resets PROVE at[x] # 5 /\ at[x] # 6
    <3>1. ~Running(x) /\ 5 \in 1..7 /\ 6 \in 1..7
      BY DEF Tasks
    <3>2. QED
      BY <3>1, ResetPlace
  <2>2. QED
    BY <2>1 DEF Resetting
<1>2. Settled(q.id, db)
  BY <1>1 DEF SettledInv, Provided, Excused
<1>3. QED
  BY <1>2 DEF Settled, Schedules, Completeds, Of

-----------------------------------------------------------------------------
(* Places and numbers.  A handler that is outside its transaction has      *)
(* written nothing that is not committed; and a request that was committed *)
(* after another one had its predecessor removed, each by a removal of its *)
(* own.                                                                    *)

\* The place of its last statement.
EndOf(t) == Len(Program(t))

\* Handlers outside their transaction.
Rests(t) ==
    \/ at[t] = 0
    \/ t \in Rejections /\ at[t] <= 2
    \/ at[t] >= EndOf(t)

PlacesInv ==
    \A t \in Tasks :
        /\ at[t] \in 0..(EndOf(t) + 1) \cup {Absent, Failed}
        /\ Rests(t) => put[t] = {} /\ cut[t] = {}

LEMMA Lengths ==
    ASSUME NEW t \in Tasks
    PROVE  /\ EndOf(t) \in 6..12
           /\ t \in Payments => EndOf(t) = 6
           /\ t \in Resets => EndOf(t) = 7
           /\ t \in Rejections => EndOf(t) = 12
           /\ t \in Replies => EndOf(t) = 7
           /\ t \in Retentions => EndOf(t) = 10
           /\ Running(t) <=> at[t] \in 1..EndOf(t)
<1>1. /\ \A p \in Payments : EndOf(p) = 6
      /\ \A p \in Resets : EndOf(p) = 7
      /\ \A p \in Rejections : EndOf(p) = 12
      /\ \A p \in Replies : EndOf(p) = 7
      /\ \A p \in Retentions : EndOf(p) = 10
  BY Programs DEF EndOf, UpdateRequestsAwaitingCrossBorder, RemoveAgreementData
<1>2. /\ t \in Payments => EndOf(t) = 6 /\ (Running(t) <=> at[t] \in 1..6)
      /\ t \in Resets => EndOf(t) = 7 /\ (Running(t) <=> at[t] \in 1..7)
      /\ t \in Rejections => EndOf(t) = 12 /\ (Running(t) <=> at[t] \in 1..12)
      /\ t \in Replies => EndOf(t) = 7 /\ (Running(t) <=> at[t] \in 1..7)
      /\ t \in Retentions => EndOf(t) = 10 /\ (Running(t) <=> at[t] \in 1..10)
  BY <1>1, PaymentPlace, ResetPlace, RejectionPlace, ReplyPlace, RetentionPlace
<1>3. t \in Payments \/ t \in Resets \/ t \in Rejections \/ t \in Replies \/ t \in Retentions
  BY DEF Tasks
<1>4. EndOf(t) \in {6, 7, 10, 12}
  BY <1>2, <1>3
<1>5. Running(t) <=> at[t] \in 1..EndOf(t)
  <2>1. CASE t \in Payments
    BY <1>2, <2>1
  <2>2. CASE t \in Resets
    BY <1>2, <2>2
  <2>3. CASE t \in Rejections
    BY <1>2, <2>3
  <2>4. CASE t \in Replies
    BY <1>2, <2>4
  <2>5. CASE t \in Retentions
    BY <1>2, <2>5
  <2>6. QED
    BY <1>3, <2>1, <2>2, <2>3, <2>4, <2>5
<1>6. QED
  BY <1>2, <1>4, <1>5

LEMMA PlacesInitially == TablesInit => PlacesInv
<1> SUFFICES ASSUME TablesInit PROVE PlacesInv
  OBVIOUS
<1>1. \A t \in Tasks : at[t] \in {0, Absent} /\ put[t] = {} /\ cut[t] = {}
  BY DEF TablesInit
<1>2. QED
  BY <1>1, Lengths DEF PlacesInv

\* A handler goes to place i of its program, and has nothing written if it rests.
LEMMA PlaceTaken ==
    ASSUME PlacesInv, NEW t \in Tasks, NEW i,
           \A u \in Tasks : at'[u] = IF u = t THEN i ELSE at[u],
           \A u \in Tasks : u # t => put'[u] = put[u] /\ cut'[u] = cut[u],
           i \in 0..(EndOf(t) + 1) \cup {Absent, Failed},
           \/ put'[t] = {} /\ cut'[t] = {}
           \/ ~(i = 0 \/ (t \in Rejections /\ i <= 2) \/ i >= EndOf(t))
    PROVE  PlacesInv'
<1>1. ASSUME NEW u \in Tasks
      PROVE  /\ at'[u] \in 0..(EndOf(u) + 1) \cup {Absent, Failed}
             /\ Rests(u)' => put'[u] = {} /\ cut'[u] = {}
  <2>1. CASE u = t
    BY <2>1 DEF Rests
  <2>2. CASE u # t
    BY <2>2 DEF Rests, PlacesInv
  <2>3. QED
    BY <2>1, <2>2
<1>2. QED
  BY <1>1 DEF PlacesInv

\* Places at which a handler is in its transaction.
LEMMA InProgram ==
    ASSUME NEW t \in Tasks, NEW i \in Nat, i > 0,
           \/ t \in Payments /\ i <= 5
           \/ t \in Replies /\ i <= 6
           \/ t \in Retentions /\ i <= 9
           \/ t \in Rejections /\ i > 2 /\ i <= 11
    PROVE  /\ i \in 0..(EndOf(t) + 1)
           /\ ~(i = 0 \/ (t \in Rejections /\ i <= 2) \/ i >= EndOf(t))
<1>1. /\ t \in Payments => EndOf(t) = 6
      /\ t \in Rejections => EndOf(t) = 12
      /\ t \in Replies => EndOf(t) = 7
      /\ t \in Retentions => EndOf(t) = 10
  BY Lengths
<1>2. i < EndOf(t)
  <2>1. CASE t \in Payments /\ i <= 5
    BY <1>1, <2>1
  <2>2. CASE t \in Replies /\ i <= 6
    BY <1>1, <2>2
  <2>3. CASE t \in Retentions /\ i <= 9
    BY <1>1, <2>3
  <2>4. CASE t \in Rejections /\ i <= 11
    BY <1>1, <2>4
  <2>5. QED
    BY <2>1, <2>2, <2>3, <2>4
<1>3. t \in Rejections => i > 2
  BY TablesAssumption DEF TablesAssumption
<1>4. QED
  BY <1>2, <1>3, Lengths

LEMMA PlacesKept ==
    TypeInv /\ PlacesInv /\ (TablesNext \/ UNCHANGED tablesVars) => PlacesInv'
<1> SUFFICES ASSUME TypeInv, PlacesInv, TablesNext \/ UNCHANGED tablesVars
             PROVE  PlacesInv'
  OBVIOUS
<1>0. \A t \in Tasks : /\ t \in Payments => EndOf(t) = 6
                       /\ t \in Resets => EndOf(t) = 7
                       /\ t \in Rejections => EndOf(t) = 12
                       /\ t \in Replies => EndOf(t) = 7
                       /\ t \in Retentions => EndOf(t) = 10
  BY Lengths
<1>1. \A t \in Tasks : /\ EndOf(t) \in 6..12 /\ at[t] \in Nat
                       /\ Running(t) => at[t] <= EndOf(t)
  BY Lengths DEF TypeInv, TablesTyped
<1>2. \A t \in Resets : put[t] = {} /\ cut[t] = {}
  BY DEF TypeInv, NothingWritten, Tasks
<1>3. \A t \in Tasks : Rests(t) => put[t] = {} /\ cut[t] = {}
  BY DEF PlacesInv
<1>4. CASE ProcessPaymentRequest
  BY <1>4, Processed DEF PlacesInv, Rests
<1>5. CASE UNCHANGED <<db, lastId, put, cut, crossBorder, at, found, raced, outages>>
  BY <1>5 DEF PlacesInv, Rests
<1>6. ASSUME NEW t \in Tasks, Start(t) PROVE PlacesInv'
  <2>1. Moved(t, 1) /\ at[t] = 0 /\ put'[t] = put[t] /\ cut'[t] = cut[t]
    BY <1>6, Started
  <2>2. put'[t] = {} /\ cut'[t] = {}
    BY <1>3, <2>1 DEF Rests
  <2>3. 1 \in 0..(EndOf(t) + 1)
    BY <1>1
  <2>4. QED
    BY <2>1, <2>2, <2>3, PlaceTaken DEF Moved
<1>7. ASSUME NEW t \in Tasks, LookUp(t) PROVE PlacesInv'
  <2>1. PICK f \in Found, i \in Nat :
              /\ Looked(t, f, i) /\ Moved(t, i)
              /\ put'[t] = put[t] /\ cut'[t] = cut[t]
    BY <1>7, LookedUp
  <2>2. /\ at[t] <= EndOf(t)
        /\ \/ t \in Payments /\ i \in {2, 5}
           \/ t \in Replies /\ i = 2
           \/ t \in Retentions /\ i \in {3, 4, 9}
           \/ t \in Rejections /\ i \in {3, 6, 8, 10}
           \/ t \in Rejections /\ i = 12 /\ at[t] = 2
           \/ t \in Resets /\ i = at[t] + 1
    BY <1>1, <2>1, StepOf, TablesAssumption DEF Looked, Lookups, TablesAssumption
  <2>3. /\ i \in 0..(EndOf(t) + 1)
        /\ \/ put'[t] = {} /\ cut'[t] = {}
           \/ ~(i = 0 \/ (t \in Rejections /\ i <= 2) \/ i >= EndOf(t))
    <3>1. CASE t \in Resets
      BY <1>1, <1>2, <2>1, <2>2, <3>1, TablesAssumption DEF TablesAssumption
    <3>2. CASE t \in Rejections /\ i = 12 /\ at[t] = 2
      <4>1. Rests(t) /\ EndOf(t) = 12
        BY <1>0, <3>2 DEF Rests
      <4>2. QED
        BY <1>3, <2>1, <3>2, <4>1
    <3>3. CASE t \notin Resets /\ ~(t \in Rejections /\ i = 12 /\ at[t] = 2)
      BY <2>2, <3>3, InProgram
    <3>4. QED
      BY <3>1, <3>2, <3>3
  <2>4. QED
    BY <2>1, <2>3, PlaceTaken DEF Moved
<1>8. ASSUME NEW t \in Tasks, Write(t) PROVE PlacesInv'
  <2>1. /\ Writes(t)
        /\ \A u \in Tasks : at'[u] = IF u = t THEN at[t] + 1 ELSE at[u]
        /\ \A u \in Tasks : u # t => put'[u] = put[u] /\ cut'[u] = cut[u]
        /\ InTransaction(t) \/ (put'[t] = {} /\ cut'[t] = {})
    BY <1>8, Written
  <2>2. ASSUME InTransaction(t)
        PROVE  /\ t \in Payments => at[t] \in 2..4
               /\ t \in Rejections => at[t] \in 3..10
               /\ t \in Replies => at[t] \in 2..4
               /\ t \in Retentions => at[t] \in 1..8
               /\ t \notin Resets
    BY <2>1, <2>2, WritingSteps, StepOf, TablesAssumption
    DEF InTransaction, TablesAssumption
  <2>3. InTransaction(t) =>
            ~(at[t] + 1 = 0 \/ (t \in Rejections /\ at[t] + 1 <= 2)
                \/ at[t] + 1 >= EndOf(t))
    <3> PICK i \in Nat : i = at[t] + 1
      BY <1>1
    <3> SUFFICES ASSUME InTransaction(t)
                 PROVE  ~(i = 0 \/ (t \in Rejections /\ i <= 2) \/ i >= EndOf(t))
      OBVIOUS
    <3>1. /\ i > 0
          /\ \/ t \in Payments /\ i <= 5
             \/ t \in Replies /\ i <= 6
             \/ t \in Retentions /\ i <= 9
             \/ t \in Rejections /\ i > 2 /\ i <= 11
      BY <1>1, <2>2 DEF Tasks
    <3>2. QED
      BY <3>1, InProgram
  <2>4. at[t] + 1 \in 0..(EndOf(t) + 1)
    BY <1>1, <2>1 DEF Writes
  <2>5. QED
    BY <2>1, <2>3, <2>4, PlaceTaken
<1>9. ASSUME NEW t \in Tasks, Commit(t) PROVE PlacesInv'
  <2>1. /\ \A u \in Tasks : at'[u] = IF u = t THEN at[t] + 1 ELSE at[u]
        /\ \A u \in Tasks : /\ put'[u] = IF u = t THEN {} ELSE put[u]
                            /\ cut'[u] = IF u = t THEN {} ELSE cut[u]
    BY <1>9, Committed
  <2>2. Running(t)
    BY <1>9, StepOf DEF Commit
  <2>3. at[t] + 1 \in 0..(EndOf(t) + 1)
    BY <1>1, <2>2
  <2>4. QED
    BY <2>1, <2>3, PlaceTaken
<1>10. ASSUME NEW t \in Tasks, RemoveAutoHold(t) \/ Complete(t) PROVE PlacesInv'
  <2>1. PICK i \in Nat :
              /\ Moved(t, i) /\ i = at[t] + 1
              /\ put'[t] = put[t] /\ cut'[t] = cut[t]
              /\ \/ t \in Replies /\ at[t] = 5
                 \/ t \in Payments /\ at[t] = 6
                 \/ t \in Rejections /\ at[t] = 12
                 \/ t \in Replies /\ at[t] = 7
                 \/ t \in Retentions /\ at[t] = 10
                 \/ t \in Resets /\ at[t] = 7
    BY <1>10, MovedOn
  <2>2. at[t] = EndOf(t) \/ (t \in Replies /\ i = 6)
    <3>1. CASE t \in Replies
      <4>1. EndOf(t) = 7 /\ (at[t] = 5 \/ at[t] = 7)
        BY <1>0, <2>1, <3>1, TablesAssumption DEF TablesAssumption
      <4>2. QED
        BY <2>1, <3>1, <4>1
    <3>2. CASE t \notin Replies
      BY <1>0, <2>1, <3>2
    <3>3. QED
      BY <3>1, <3>2
  <2>3. /\ i \in 0..(EndOf(t) + 1)
        /\ \/ put'[t] = {} /\ cut'[t] = {}
           \/ ~(i = 0 \/ (t \in Rejections /\ i <= 2) \/ i >= EndOf(t))
    <3>1. CASE at[t] = EndOf(t)
      BY <1>1, <1>3, <2>1, <3>1 DEF Rests
    <3>2. CASE t \in Replies /\ i = 6
      BY <3>2, InProgram
    <3>3. QED
      BY <2>2, <3>1, <3>2
  <2>4. QED
    BY <2>1, <2>3, PlaceTaken DEF Moved
<1>11. ASSUME NEW t \in Tasks, RollBack(t) PROVE PlacesInv'
  <2>1. PICK i \in Nat :
              /\ Moved(t, i) /\ put'[t] = {} /\ cut'[t] = {}
              /\ i = IF t \in Payments \cup Rejections THEN 0
                     ELSE IF t \in Replies THEN IF Step(t) = "complete" THEN 0 ELSE 7
                     ELSE Failed
    BY <1>11, RolledBack
  <2>2. i \in 0..(EndOf(t) + 1) \cup {Absent, Failed}
    BY <1>0, <1>1, <2>1
  <2>3. QED
    BY <2>1, <2>2, PlaceTaken DEF Moved
<1>12. QED
  BY <1>4, <1>5, <1>6, <1>7, <1>8, <1>9, <1>10, <1>11, Steps, ErrorsRollBack

\* Numbers start from one.
FromOne(rows) ==
    /\ \A q \in Requests(rows) : q.id >= 1
    /\ \A r \in Schedules(rows) \cup Completeds(rows) : r.request >= 1

NumbersInv ==
    /\ FromOne(db)
    /\ \A t \in Tasks : FromOne(put[t])
    /\ \A t \in Tasks : found[t].requests \subseteq 1..lastId

LEMMA NumbersInitially == TablesInit => NumbersInv
<1> SUFFICES ASSUME TablesInit PROVE NumbersInv
  OBVIOUS
<1>1. /\ db = {Closure} /\ \A t \in Tasks : put[t] = {} /\ found[t].requests = {}
      /\ lastId = 0
  BY DEF TablesInit
<1>2. FromOne({}) /\ FromOne({Closure})
  BY DEF FromOne, Requests, Schedules, Completeds, In, Closure
<1>3. QED
  BY <1>1, <1>2 DEF NumbersInv

LEMMA FromOneOf ==
    ASSUME NEW a, NEW b, NEW c, FromOne(a), FromOne(c)
    PROVE  FromOne((a \ b) \cup c)
  BY RowsOf DEF FromOne, Requests, In

\* What is written has the number of a request that is known, or the next.
LEMMA FromOneWritten ==
    ASSUME TypeInv, NumbersInv, NEW t \in Tasks, Writes(t)
    PROVE  FromOne(Put(t))
<1>1. TablesTyped /\ lastId \in Nat /\ FromOne(View(t)) /\ Cut(t) \subseteq View(t)
  <2>1. TablesTyped /\ lastId \in Nat
    BY DEF TypeInv, TablesTyped
  <2>2. FromOne(View(t))
    BY FromOneOf DEF NumbersInv, View
  <2>3. QED
    BY <2>1, <2>2, CutType
<1>2. ASSUME NEW q \in Requests(Put(t)) PROVE q.id >= 1
  <2>1. q.id = lastId + 1 \/ \E p \in Requests(Cut(t)) : p \in View(t) /\ q.id = p.id
    BY <1>1, <1>2, RequestsPut
  <2>2. \A p \in Requests(Cut(t)) : p \in View(t) => p \in Requests(View(t))
    BY DEF Requests, In
  <2>3. QED
    BY <1>1, <2>1, <2>2 DEF FromOne
<1>3. ASSUME NEW c \in Completeds(Put(t)) PROVE c.request >= 1
  <2>1. PICK d \in Completeds(Cut(t)) : d.request = c.request
    BY <1>3, PaymentStatements
  <2>2. d \in Completeds(View(t))
    BY <1>1, <2>1 DEF Completeds, In
  <2>3. QED
    BY <1>1, <2>1, <2>2 DEF FromOne
<1>4. ASSUME NEW s \in Schedules(Put(t)) PROVE s.request >= 1
  <2>1. CASE Step(t) = "insertSchedule"
    <3>1. s = Schedule(lastId + 1, t)
      BY <1>4, <2>1, PutIs DEF Schedules, In
    <3>2. QED
      BY <1>1, <3>1 DEF Schedule
  <2>2. CASE Step(t) = "schedule"
    <3>1. s \in Cut(t) \/ \E i \in found[t].requests : s = Schedule(i, t)
      BY <1>4, <2>2, EnsureWrites
    <3>2. \A i \in found[t].requests : i >= 1
      BY <1>1 DEF NumbersInv
    <3>3. s \in Cut(t) => s \in Schedules(View(t))
      BY <1>1, <1>4 DEF Schedules, In
    <3>4. \A i : Schedule(i, t).request = i
      BY DEF Schedule
    <3>5. QED
      BY <1>1, <3>1, <3>2, <3>3, <3>4 DEF FromOne
  <2>3. CASE Step(t) = "removeSchedules"
    BY <1>4, <2>3, PutIs, RowsOf
  <2>4. CASE Step(t) \notin {"insertSchedule", "schedule", "removeSchedules"}
    BY <1>4, <2>4, ScheduleStatements
  <2>5. QED
    BY <2>1, <2>2, <2>3, <2>4
<1>5. QED
  BY <1>2, <1>3, <1>4 DEF FromOne

\* A request that is found is there, or was when the payment was made.
LEMMA FoundNumbers ==
    ASSUME TypeInv, Locks, RequestsInv, RowsInv, PlacesInv, NumbersInv,
           NEW t \in Tasks, LookUp(t)
    PROVE  found'[t].requests \subseteq 1..lastId
<1>1. PICK f \in Found, i \in Nat :
            Looked(t, f, i) /\ found'[t] = f
  BY LookedUp
<1>2. lastId \in Nat /\ View(t) \in SUBSET Row /\ FromOne(View(t))
  <2>1. FromOne(View(t))
    BY FromOneOf DEF NumbersInv, View
  <2>2. QED
    BY <2>1, ViewType DEF TypeInv, TablesTyped
<1>3. CASE Step(t) \in {"findRequest", "findRequests"}
  <2>1. t \notin Payments /\ f.requests = Ids(Requests(View(t)))
    BY <1>1, <1>3, StepOf, TablesAssumption DEF Looked, TablesAssumption
  <2>2. \A q \in Requests(View(t)) : q.id \in Nat /\ q.id >= 1 /\ q.id <= lastId
    BY <1>2, <2>1, RequestSeen, InTable DEF FromOne, RequestRow
  <2>3. QED
    BY <1>1, <1>2, <2>1, <2>2 DEF Ids
<1>4. CASE Step(t) = "findRejected"
  <2>1. t \in Rejections /\ at[t] = 2
    BY <1>4, StepOf
  <2>2. View(t) = db
    BY <2>1 DEF PlacesInv, Rests, View
  <2>3. \A c \in Completeds(db) : c.request \in Nat /\ c.request >= 1 /\ c.request <= lastId
    <3>1. Completeds(db) \subseteq CompletedRow
      BY <1>2, <2>2, InTable DEF Completeds
    <3>2. QED
      BY <1>2, <2>2, <3>1 DEF FromOne, CompletedRow, RowsInv, PaidRows
  <2>4. \/ found'[t] = found[t]
        \/ \E c \in Completeds(View(t)) : found'[t].requests = {c.request}
    BY <1>4, RejectedFound
  <2>5. QED
    BY <1>2, <2>2, <2>3, <2>4 DEF NumbersInv
<1>5. CASE Step(t) \notin {"findRequest", "findRequests", "findRejected"}
  BY <1>1, <1>5 DEF Looked, NumbersInv
<1>6. QED
  BY <1>3, <1>4, <1>5

LEMMA NumbersKept ==
    /\ TypeInv /\ Locks /\ RequestsInv /\ RowsInv /\ PlacesInv /\ NumbersInv
    /\ TablesNext \/ UNCHANGED tablesVars
    => NumbersInv'
<1> SUFFICES ASSUME TypeInv, Locks, RequestsInv, RowsInv, PlacesInv, NumbersInv,
                    TablesNext \/ UNCHANGED tablesVars
             PROVE  NumbersInv'
  OBVIOUS
<1>1. /\ FromOne(db) /\ FromOne({}) /\ lastId \in Nat
      /\ \A t \in Tasks : FromOne(put[t]) /\ found[t].requests \subseteq 1..lastId
  <2>1. FromOne({})
    BY RowsOf DEF FromOne
  <2>2. QED
    BY <2>1 DEF NumbersInv, TypeInv, TablesTyped
<1>2. ASSUME FromOne(db'), \A t \in Tasks : FromOne(put'[t]),
             lastId' \in Nat, lastId <= lastId',
             \A t \in Tasks : found'[t].requests \subseteq 1..lastId
      PROVE  NumbersInv'
  <2>1. \A t \in Tasks : found'[t].requests \subseteq 1..lastId'
    BY <1>1, <1>2
  <2>2. QED
    BY <1>2, <2>1 DEF NumbersInv
<1>3. CASE UNCHANGED <<db, lastId, put, cut, crossBorder, at, found, raced, outages>>
  BY <1>1, <1>2, <1>3
<1>4. CASE ProcessPaymentRequest
  <2>1. /\ UNCHANGED <<lastId, put, cut, at, found>>
        /\ Requests(db') = Requests(db)
    BY <1>4, Processed
  <2>2. PICK s \in db :
              /\ s \in ScheduleRow
              /\ db' = (db \ {s}) \cup {Done(s), Completed(s.request, s.by),
                                         Outbox(s.request, s.by)}
    BY <1>4, ProcessDoes DEF TypeInv
  <2>3. s \in Schedules(db)
    BY <2>2, InTable DEF TypeInv, TablesTyped
  <2>4. /\ Done(s).request = s.request
        /\ Completed(s.request, s.by).request = s.request
        /\ Outbox(s.request, s.by).table = "outbox"
    BY <2>2 DEF Done, Completed, Outbox, ScheduleRow
  <2>5. \A r \in Schedules(db') \cup Completeds(db') :
            \/ r \in Schedules(db) \cup Completeds(db)
            \/ r.request = s.request
    BY <2>2, <2>4 DEF Schedules, Completeds, In
  <2>6. FromOne(db')
    BY <1>1, <2>1, <2>3, <2>5 DEF FromOne
  <2>7. QED
    BY <1>1, <1>2, <2>1, <2>6
<1>5. ASSUME NEW t \in Tasks, NEW i, Moved(t, i),
             put'[t] = put[t] \/ put'[t] = {},
             found'[t].requests \subseteq 1..lastId
      PROVE  NumbersInv'
  <2>1. /\ db' = db /\ lastId' = lastId
        /\ \A u \in Tasks : u # t => put'[u] = put[u] /\ found'[u] = found[u]
    BY <1>5 DEF Moved
  <2>2. ASSUME NEW u \in Tasks
        PROVE  FromOne(put'[u]) /\ found'[u].requests \subseteq 1..lastId
    <3>1. CASE u = t
      BY <1>1, <1>5, <3>1
    <3>2. CASE u # t
      BY <1>1, <2>1, <3>2
    <3>3. QED
      BY <3>1, <3>2
  <2>3. FromOne(db') /\ lastId' \in Nat /\ lastId <= lastId'
    BY <1>1, <2>1
  <2>4. QED
    BY <1>2, <2>2, <2>3
<1>6. ASSUME NEW t \in Tasks, Start(t) PROVE NumbersInv'
  BY <1>5, <1>6, Started
<1>7. ASSUME NEW t \in Tasks, LookUp(t) PROVE NumbersInv'
  BY <1>5, <1>7, LookedUp, FoundNumbers
<1>8. ASSUME NEW t \in Tasks, RemoveAutoHold(t) \/ Complete(t) PROVE NumbersInv'
  BY <1>1, <1>5, <1>8, MovedOn
<1>9. ASSUME NEW t \in Tasks, RollBack(t) PROVE NumbersInv'
  BY <1>1, <1>5, <1>9, RolledBack
<1>10. ASSUME NEW t \in Tasks, Write(t) PROVE NumbersInv'
  <2>1. /\ Writes(t) /\ UNCHANGED <<lastId, found>>
        /\ \A u \in Tasks : u # t => put'[u] = put[u]
        /\ \/ db' = db /\ put'[t] = (put[t] \ Cut(t)) \cup Put(t)
           \/ db' = (db \ Cut(t)) \cup Put(t) /\ put'[t] = {}
    BY <1>10, Written
  <2>2. FromOne(Put(t))
    BY <2>1, FromOneWritten
  <2>3. FromOne((db \ Cut(t)) \cup Put(t)) /\ FromOne((put[t] \ Cut(t)) \cup Put(t))
    BY <1>1, <2>2, FromOneOf
  <2>4. FromOne(db') /\ FromOne(put'[t])
    BY <1>1, <2>1, <2>3
  <2>5. ASSUME NEW u \in Tasks
        PROVE  FromOne(put'[u]) /\ found'[u].requests \subseteq 1..lastId
    BY <1>1, <2>1, <2>4
  <2>6. lastId' \in Nat /\ lastId <= lastId'
    BY <1>1, <2>1
  <2>7. QED
    BY <1>2, <2>4, <2>5, <2>6
<1>11. ASSUME NEW t \in Tasks, Commit(t) PROVE NumbersInv'
  <2>1. /\ db' = (db \ cut[t]) \cup put[t] /\ found' = found
        /\ \A u \in Tasks : put'[u] = IF u = t THEN {} ELSE put[u]
        /\ lastId' \in Nat /\ lastId <= lastId'
    BY <1>11, Committed
  <2>2. FromOne((db \ cut[t]) \cup put[t])
    BY <1>1, FromOneOf
  <2>3. QED
    BY <1>1, <1>2, <2>1, <2>2
<1>12. QED
  BY <1>3, <1>4, <1>6, <1>7, <1>8, <1>9, <1>10, <1>11, Steps, ErrorsRollBack

\* Removals that have committed, or failed.
Removals == {r \in Retentions : at[r] \in {10, 11, Failed}}

\* There is a removal for each number but that of a request that is there.
RemovalsCounted ==
    lastId <= Cardinality(Removals) + (IF Requests(db) = {} THEN 0 ELSE 1)

LEMMA RemovalsInitially ==
    ASSUME IsFiniteSet(Retentions), TablesInit
    PROVE  RemovalsCounted
<1>1. lastId = 0 /\ Cardinality(Removals) \in Nat
  BY FS_Subset, FS_CardinalityType DEF TablesInit, Removals
<1>2. QED
  BY <1>1 DEF RemovalsCounted

\* What a step means for the count.
LEMMA RemovalsStep ==
    ASSUME TypeInv, Locks, RequestsInv, SavedInv, PlacesInv,
           TablesNext \/ UNCHANGED tablesVars
    PROVE  /\ \A r \in Removals : r \in Removals'
           /\ \/ lastId' = lastId /\ (Requests(db') = {} => Requests(db) = {})
              \/ lastId' = lastId + 1 /\ Requests(db) = {} /\ Requests(db') # {}
              \/ lastId' = lastId /\ \E r \in Removals' : r \notin Removals
<1>1. ASSUME \A r \in Retentions : at[r] \in {10, 11, Failed} => at'[r] \in {10, 11, Failed}
      PROVE  \A r \in Removals : r \in Removals'
  BY <1>1 DEF Removals
<1>2. \A t \in Tasks : Running(t) => ~(at[t] = 11 /\ t \in Retentions) /\ at[t] # Failed /\ at[t] # 0
  BY RetentionPlace, Lengths DEF Failed
<1>3. Retentions \subseteq Tasks
  BY DEF Tasks
<1>4. CASE UNCHANGED <<db, lastId, put, cut, crossBorder, at, found, raced, outages>>
  BY <1>1, <1>4
<1>5. CASE ProcessPaymentRequest
  BY <1>1, <1>5, Processed
<1>6. ASSUME NEW t \in Tasks, NEW i, Moved(t, i),
             t \in Retentions /\ at[t] \in {10, 11, Failed} => i \in {10, 11, Failed}
      PROVE  /\ \A r \in Removals : r \in Removals'
             /\ lastId' = lastId /\ db' = db
  BY <1>1, <1>3, <1>6 DEF Moved
<1>7. ASSUME NEW t \in Tasks, Start(t)
      PROVE  /\ \A r \in Removals : r \in Removals'
             /\ lastId' = lastId /\ db' = db
  <2>1. Moved(t, 1) /\ at[t] = 0
    BY <1>7, Started
  <2>2. QED
    BY <1>6, <2>1 DEF Failed
<1>8. ASSUME NEW t \in Tasks, LookUp(t)
      PROVE  /\ \A r \in Removals : r \in Removals'
             /\ lastId' = lastId /\ db' = db
  <2>1. PICK f \in Found, i \in Nat : Looked(t, f, i) /\ Moved(t, i)
    BY <1>8, LookedUp
  <2>2. t \in Retentions => at[t] \in {2, 3}
    BY <2>1, StepOf, TablesAssumption DEF Looked, Lookups, TablesAssumption
  <2>3. QED
    BY <1>6, <2>1, <2>2 DEF Failed
<1>9. ASSUME NEW t \in Tasks, RemoveAutoHold(t) \/ Complete(t)
      PROVE  /\ \A r \in Removals : r \in Removals'
             /\ lastId' = lastId /\ db' = db
  <2>1. PICK i \in Nat : Moved(t, i) /\ i = at[t] + 1
    BY <1>9, MovedOn
  <2>2. t \in Retentions => at[t] = 10
    BY <1>9, StepOf, TablesAssumption DEF RemoveAutoHold, Complete, TablesAssumption
  <2>3. QED
    BY <1>6, <2>1, <2>2 DEF Failed
<1>10. ASSUME NEW t \in Tasks, RollBack(t)
       PROVE  /\ \A r \in Removals : r \in Removals'
              /\ lastId' = lastId /\ db' = db
  <2>1. PICK i \in Nat :
              /\ Moved(t, i)
              /\ i = IF t \in Payments \cup Rejections THEN 0
                     ELSE IF t \in Replies THEN IF Step(t) = "complete" THEN 0 ELSE 7
                     ELSE Failed
    BY <1>10, RolledBack
  <2>2. t \in Retentions => i = Failed
    BY <2>1, TablesAssumption DEF TablesAssumption
  <2>3. QED
    BY <1>6, <2>1, <2>2
<1>11. ASSUME NEW t \in Tasks, Write(t)
       PROVE  /\ \A r \in Removals : r \in Removals'
              /\ lastId' = lastId /\ (Requests(db') = {} => Requests(db) = {})
  <2>1. /\ Writes(t) /\ lastId' = lastId
        /\ \A u \in Tasks : u # t => at'[u] = at[u]
        /\ \/ db' = db
           \/ ~InTransaction(t) /\ db' = (db \ Cut(t)) \cup Put(t)
    BY <1>11, Written
  <2>2. t \in Retentions => at[t] \notin {10, 11, Failed}
    BY <2>1, RetentionPlace DEF Writes, Lookups, Failed
  <2>3. \A r \in Removals : r \in Removals'
    BY <1>1, <1>3, <2>1, <2>2
  <2>4. ASSUME ~InTransaction(t), db' = (db \ Cut(t)) \cup Put(t), NEW q \in Requests(db)
        PROVE  Requests(db') # {}
    <3>1. t \notin Retentions
      BY <2>4, StepOf, TablesAssumption DEF InTransaction, TablesAssumption
    <3>2. q \in Cut(t) => \E p \in Requests(Put(t)) : p.id = q.id
      BY <2>1, <2>4, <3>1, WrittenAnew DEF Requests, In
    <3>3. QED
      BY <2>4, <3>2 DEF Requests, In
  <2>5. QED
    BY <2>1, <2>3, <2>4
<1>12. ASSUME NEW t \in Tasks, Commit(t)
       PROVE  /\ \A r \in Removals : r \in Removals'
              /\ \/ lastId' = lastId /\ (Requests(db') = {} => Requests(db) = {})
                 \/ lastId' = lastId + 1 /\ Requests(db) = {} /\ Requests(db') # {}
                 \/ lastId' = lastId /\ \E r \in Removals' : r \notin Removals
  <2>1. /\ db' = (db \ cut[t]) \cup put[t]
        /\ \A u \in Tasks : at'[u] = IF u = t THEN at[t] + 1 ELSE at[u]
        /\ \/ t \in Payments /\ at[t] = 5
           \/ t \in Rejections /\ at[t] = 11
           \/ t \in Replies /\ at[t] = 6
           \/ t \in Retentions /\ at[t] = 9
        /\ lastId' \in {lastId, lastId + 1}
        /\ lastId' # lastId => \E q \in Requests(put[t]) : q.id = lastId + 1
    BY <1>12, Committed
  <2>2. t \in Retentions => at[t] = 9
    BY <2>1, TablesAssumption DEF TablesAssumption
  <2>3. \A r \in Removals : r \in Removals'
    BY <1>1, <1>3, <2>1, <2>2 DEF Failed
  <2>4. lastId' # lastId => t \in Payments
    <3>1. ASSUME lastId' # lastId, t \notin Payments PROVE FALSE
      <4>1. PICK q \in Requests(put[t]) : q.id = lastId + 1
        BY <2>1, <3>1
      <4>2. PICK p \in Requests(cut[t]) : p.id = lastId + 1
        BY <3>1, <4>1 DEF RequestsInv
      <4>3. p \in Requests(db)
        BY <4>2 DEF Locks, Requests, In
      <4>4. p.id <= lastId /\ lastId \in Nat
        BY <4>3 DEF TypeInv, Numbered, TablesTyped
      <4>5. QED
        BY <4>2, <4>4
    <3>2. QED
      BY <3>1
  <2>5. CASE t \in Payments
    <3>1. cut[t] = {} /\ (put[t] # {} => Requests(db) = {})
      BY <2>5 DEF RequestsInv
    <3>2. \A q \in Requests(put[t]) : put[t] # {} /\ q \in Requests(db')
      BY <2>1 DEF Requests, In
    <3>3. Requests(db') = {} => Requests(db) = {}
      BY <2>1, <3>1 DEF Requests, In
    <3>4. QED
      BY <2>1, <2>3, <3>1, <3>2, <3>3
  <2>6. CASE t \in Retentions
    <3>1. t \in Removals' /\ t \notin Removals
      BY <1>3, <2>1, <2>2, <2>6 DEF Removals, Failed
    <3>2. t \notin Payments
      BY <2>6, TablesAssumption DEF TablesAssumption
    <3>3. QED
      BY <2>3, <2>4, <3>1, <3>2
  <2>7. CASE t \notin Payments \cup Retentions
    <3>1. ASSUME NEW q \in Requests(db) PROVE Requests(db') # {}
      <4>1. q \in cut[t] => \E p \in Requests(put[t]) : p.id = q.id
        BY <2>7, <3>1 DEF SavedInv, Rewrites, Requests, In
      <4>2. QED
        BY <2>1, <3>1, <4>1 DEF Requests, In
    <3>2. QED
      BY <2>3, <2>4, <2>7, <3>1
  <2>8. QED
    BY <2>5, <2>6, <2>7
<1>13. QED
  BY <1>4, <1>5, <1>1, <1>7, <1>8, <1>9, <1>10, <1>11, <1>12, Steps, ErrorsRollBack

LEMMA RemovalsKept ==
    ASSUME IsFiniteSet(Retentions),
           TypeInv, Locks, RequestsInv, SavedInv, PlacesInv, RemovalsCounted,
           TablesNext \/ UNCHANGED tablesVars
    PROVE  RemovalsCounted'
<1>1. PICK a, b : a = Removals /\ b = Removals'
  OBVIOUS
<1>2. a \in SUBSET b /\ b \in SUBSET Retentions
  BY <1>1, RemovalsStep DEF Removals
<1>3. IsFiniteSet(b) /\ Cardinality(b) \in Nat
  BY <1>2, FS_Subset, FS_CardinalityType
<1>4. /\ Cardinality(a) \in Nat /\ Cardinality(a) <= Cardinality(b)
      /\ Cardinality(a) = Cardinality(b) => b = a
  BY <1>2, <1>3, FS_Subset, FS_CardinalityType
<1>5. lastId \in Nat /\ lastId <= Cardinality(a) + (IF Requests(db) = {} THEN 0 ELSE 1)
  BY <1>1 DEF RemovalsCounted, TypeInv, TablesTyped
<1>6. \/ lastId' = lastId /\ (Requests(db') = {} => Requests(db) = {})
      \/ lastId' = lastId + 1 /\ Requests(db) = {} /\ Requests(db') # {}
      \/ lastId' = lastId /\ a # b
  BY <1>1, RemovalsStep
<1>7. lastId' <= Cardinality(b) + (IF Requests(db') = {} THEN 0 ELSE 1)
  BY <1>3, <1>4, <1>5, <1>6
<1>8. QED
  BY <1>1, <1>7 DEF RemovalsCounted

\* The rest of what there is.
MarksInv ==
    /\ xbHold \in {"none", "open", "closed"}
    /\ sent \in 0..(Cardinality(Replies) + 1)
    /\ routing \in BOOLEAN
    /\ raced \subseteq Retentions
    /\ outages \in 0..MaxOutages
    /\ halfReset \subseteq Resets

LEMMA MarksInitially ==
    ASSUME IsFiniteSet(Replies), TablesInit
    PROVE  MarksInv
<1>1. Cardinality(Replies) \in Nat /\ MaxOutages \in Nat
  BY FS_CardinalityType, TablesAssumption DEF TablesAssumption
<1>2. sent = 0 /\ outages = 0 /\ routing = FALSE
  BY DEF TablesInit
<1>3. sent \in 0..(Cardinality(Replies) + 1) /\ outages \in 0..MaxOutages
  BY <1>1, <1>2
<1>4. QED
  BY <1>2, <1>3 DEF TablesInit, MarksInv

LEMMA MarksKept ==
    ASSUME IsFiniteSet(Replies), MarksInv, TablesNext \/ UNCHANGED tablesVars
    PROVE  MarksInv'
<1> USE DEF MarksInv
<1>1. Cardinality(Replies) \in Nat /\ MaxOutages \in Nat
  BY FS_CardinalityType, TablesAssumption DEF TablesAssumption
<1>2. CASE UNCHANGED tablesVars
  BY <1>2 DEF tablesVars
<1>3. CASE ProcessPaymentRequest
  BY <1>3 DEF ProcessPaymentRequest
<1>4. CASE SendToCrossBorder
  <2>1. sent' = sent + 1 /\ sent <= Cardinality(Replies)
    BY <1>4 DEF SendToCrossBorder
  <2>2. sent' \in 0..(Cardinality(Replies) + 1)
    BY <1>1, <2>1
  <2>3. QED
    BY <1>4, <2>2 DEF SendToCrossBorder
<1>5. CASE HoldForCrossBorder
  BY <1>5 DEF HoldForCrossBorder
<1>6. ASSUME NEW t \in Tasks, Start(t) PROVE MarksInv'
  BY <1>6 DEF Start
<1>7. ASSUME NEW t \in Tasks, LookUp(t) PROVE MarksInv'
  BY <1>7 DEF LookUp, Finds
<1>8. ASSUME NEW t \in Tasks, RollBack(t), raced' \subseteq Retentions, outages' \in 0..MaxOutages
      PROVE  MarksInv'
  <2>1. halfReset' \subseteq Resets
    BY <1>8 DEF RollBack
  <2>2. QED
    BY <1>8, <2>1 DEF RollBack
<1>9. ASSUME NEW t \in Tasks, NotFound(t) \/ WriteFails(t) PROVE MarksInv'
  BY <1>8, <1>9 DEF NotFound, WriteFails
<1>10. ASSUME NEW t \in Tasks, Deadlock(t) PROVE MarksInv'
  BY <1>8, <1>10 DEF Deadlock
<1>11. ASSUME NEW t \in Tasks, Outage(t) PROVE MarksInv'
  <2>1. outages' \in 0..MaxOutages
    BY <1>1, <1>11 DEF Outage
  <2>2. QED
    BY <1>8, <1>11, <2>1 DEF Outage
<1>12. ASSUME NEW t \in Tasks, Write(t) PROVE MarksInv'
  BY <1>12 DEF Write, Touch
<1>13. ASSUME NEW t \in Tasks, RemoveAutoHold(t) PROVE MarksInv'
  BY <1>13 DEF RemoveAutoHold
<1>14. ASSUME NEW t \in Tasks, Commit(t) \/ Complete(t) PROVE MarksInv'
  BY <1>14 DEF Commit, Complete, Touch
<1>15. QED
  BY <1>2, <1>3, <1>4, <1>5, <1>6, <1>7, <1>9, <1>10, <1>11, <1>12, <1>13, <1>14
  DEF TablesNext, Handle

\* The types of the tables.
LEMMA TablesAreTyped ==
    ASSUME IsFiniteSet(Retentions),
           TypeInv, Locks, PlacesInv, NumbersInv, RemovalsCounted, MarksInv
    PROVE  TablesTypeOK
<1>1. ASSUME NEW r \in db
      PROVE  r.table \in {"paymentRequests", "invoiceLines", "schedule",
                          "completedPaymentRequests", "outbox",
                          "frnAgreementClosed", "holds"}
  <2>1. r \in Row
    BY <1>1 DEF TypeInv, TablesTyped
  <2>2. QED
    BY <2>1 DEF Row, RequestRow, LineRow, ScheduleRow, CompletedRow, OutboxRow, Closure, Hold
<1>2. ASSUME NEW t \in Tasks, ~Running(t) PROVE put[t] = {} /\ cut[t] = {}
  <2>1. at[t] \in Nat /\ EndOf(t) \in Nat
    BY Lengths DEF TypeInv, TablesTyped
  <2>2. Rests(t)
    BY <1>2, <2>1, Lengths DEF Rests
  <2>3. QED
    BY <2>2 DEF PlacesInv
<1>3. \A t \in Tasks :
          /\ at[t] \in 0..(Len(Program(t)) + 1) \cup {Absent, Failed}
          /\ cut[t] \subseteq db
          /\ found[t].requests \subseteq 1..lastId
  BY DEF PlacesInv, EndOf, Locks, NumbersInv
<1>4. lastId \in 0..(1 + Cardinality(Retentions))
  <2>1. PICK a : a = Removals
    OBVIOUS
  <2>2. a \in SUBSET Retentions
    BY <2>1 DEF Removals
  <2>3. /\ Cardinality(a) \in Nat /\ Cardinality(Retentions) \in Nat
        /\ Cardinality(a) <= Cardinality(Retentions)
    BY <2>2, FS_Subset, FS_CardinalityType
  <2>4. lastId \in Nat /\ lastId <= Cardinality(a) + (IF Requests(db) = {} THEN 0 ELSE 1)
    BY <2>1 DEF RemovalsCounted, TypeInv, TablesTyped
  <2>5. QED
    BY <2>3, <2>4
<1>5. {routing, crossBorder} \subseteq BOOLEAN
  BY DEF MarksInv, TypeInv, TablesTyped
<1>6. QED
  BY <1>1, <1>2, <1>3, <1>4, <1>5 DEF TablesTypeOK, MarksInv
=============================================================================

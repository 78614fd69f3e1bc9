------------------------------ MODULE Metrics ------------------------------
(***************************************************************************)
(* The metrics: the nightly calculation that counts the payment requests   *)
(* by scheme and period into a table, the queue that every request for the *)
(* figures of a year waits in, and the route that reads the table and adds *)
(* it up.  Time is counted in months: month m of year y is number          *)
(* y * MonthsPerYear + m - 1.                                              *)
(***************************************************************************)
EXTENDS Integers, FiniteSets, SequencesExt

CONSTANTS
    Callers,        \* clients of GET /metrics
    Queries,        \* what they may ask for
    MetricSchemes,  \* schemes with payments
    MonthsPerYear,
    Months,         \* months in which requests were received
    Now,            \* the current month
    MaxRequests,    \* bound on the payment requests
    MaxCounted      \* bound on nightly runs times requests

ASSUME MetricsAssumption ==
    /\ MonthsPerYear \in Nat \ {0}
    /\ Now \in Nat /\ Months \subseteq 0..Now
    /\ MaxCounted \in Nat

VARIABLES
    recorded,    \* the payment requests
    metric,      \* the metrics table
    day,         \* nightly runs begun: the snapshot date
    plan,        \* what the current run still has to calculate
    results,     \* results of a calculation that are not saved yet
    failed,      \* the last run failed
    queue,       \* MetricsCalculationQueue.queue, the ids in order
    processing,  \* MetricsCalculationQueue.processing
    current,     \* MetricsCalculationQueue.currentCalculation
    looking,     \* queries of processQueue that are out
    pausing,     \* loops of processQueue that wait a second
    caller       \* where each client is

runVars == <<recorded, metric, day, plan, results, failed>>
queueVars == <<queue, processing, current, looking, pausing>>
metricsVars == <<runVars, queueVars, caller>>

NoYear == 0
NoMonth == 0
VALID_PERIODS == {"all", "ytd", "year", "monthInYear", "month", "week", "day"}
YearOf(time) == time \div MonthsPerYear
MonthOf(time) == (time % MonthsPerYear) + 1

-----------------------------------------------------------------------------
(* The calculation.                                                        *)

Always == [from |-> 0, to |-> Now + 1]

GetDateRangeForYear(year) ==
    [from |-> year * MonthsPerYear, to |-> (year + 1) * MonthsPerYear]

\* Mutant: December is one month short.
WithoutLastMonth(year, month) ==
    [from |-> year * MonthsPerYear + month - 1,
     to |-> IF month = MonthsPerYear THEN year * MonthsPerYear + month - 1
            ELSE year * MonthsPerYear + month]

GetDateRangeForMonthInYear(year, month) ==
    [from |-> year * MonthsPerYear + month - 1,
     to |-> IF month = MonthsPerYear THEN (year + 1) * MonthsPerYear
            ELSE year * MonthsPerYear + month]

CalculateDateRange(c) ==
    CASE c.period = "all" -> Always
      [] c.period = "ytd" -> [Always EXCEPT !.from = YearOf(Now) * MonthsPerYear]
      [] c.period = "year" -> GetDateRangeForYear(c.year)
      [] c.period = "monthInYear" -> GetDateRangeForMonthInYear(c.year, c.month)
      [] OTHER -> [Always EXCEPT !.from = Now]

\* A request that was reset has a completed schedule and an open one, and its
\* settled payment is void.
IsProcessed(r) == r.status \in {"settled", "reset"}
IsPending(r) == ~IsProcessed(r)
IsSettled(r) == r.status = "settled"

Value(rs) == SumFunction([i \in rs |-> recorded[i].value])

\* The values by which buildMetricsQuery groups.
GroupOf(c, r) ==
    [scheme |-> r.scheme,
     year |-> IF c.period = "all" THEN NoYear ELSE YearOf(r.received),
     month |-> IF c.period \in {"all", "year"} THEN NoMonth
               ELSE MonthOf(r.received)]

InRange(c) ==
    {i \in DOMAIN recorded : /\ CalculateDateRange(c).from <= recorded[i].received
                             /\ recorded[i].received < CalculateDateRange(c).to}

\* The holds are always grouped by year and month.
FetchHoldsData(c, group) ==
    Cardinality({i \in InRange(c) :
        /\ recorded[i].status = "held"
        /\ recorded[i].scheme = group.scheme
        /\ YearOf(recorded[i].received) = group.year
        /\ MonthOf(recorded[i].received) = group.month})

FetchMetricsData(c) ==
    {LET rs == {i \in InRange(c) : GroupOf(c, recorded[i]) = group}
         processed == {i \in rs : IsProcessed(recorded[i])}
         pending == {i \in rs : IsPending(recorded[i])}
     IN  [group |-> group,
          payments |-> Cardinality(rs), value |-> Value(rs),
          pending |-> Cardinality(pending), pendingValue |-> Value(pending),
          processed |-> Cardinality(processed),
          settled |-> Cardinality({i \in rs : IsSettled(recorded[i])}),
          onHold |-> FetchHoldsData(c, group)] :
        group \in {GroupOf(c, recorded[i]) : i \in InRange(c)}}

Calculation(period, year, month) ==
    [period |-> period, year |-> year, month |-> month]

CalculateBasicPeriods ==
    <<Calculation("all", NoYear, NoMonth), Calculation("ytd", NoYear, NoMonth),
      Calculation("month", NoYear, NoMonth), Calculation("week", NoYear, NoMonth),
      Calculation("day", NoYear, NoMonth)>>

CalculateYearlyMetrics(year) ==
    <<Calculation("year", year, NoMonth)>>
    \o [m \in 1..MonthsPerYear |-> Calculation("monthInYear", year, m)]

\* The latest first.
YearsReceived ==
    LET years == {YearOf(recorded[i].received) : i \in DOMAIN recorded}
    IN  CHOOSE q \in [1..Cardinality(years) -> years] :
            \A j, k \in DOMAIN q : j < k => q[j] > q[k]

CalculateAllMetrics ==
    CalculateBasicPeriods
    \o FlattenSeq([i \in DOMAIN YearsReceived |->
                      CalculateYearlyMetrics(YearsReceived[i])])

\* One run a night; what a run that failed has left is for the next one.
StartRun ==
    /\ plan = <<>>
    /\ recorded # <<>>
    /\ (day + 1) * Len(recorded) <= MaxCounted
    /\ day' = day + 1
    /\ plan' = CalculateAllMetrics
    /\ failed' = FALSE
    /\ UNCHANGED <<recorded, metric, results, queueVars, caller>>

CalculateMetricsForPeriod ==
    /\ plan # <<>> /\ results = {}
    /\ results' = FetchMetricsData(Head(plan))
    /\ plan' = IF results' = {} THEN Tail(plan) ELSE plan
    /\ UNCHANGED <<recorded, metric, day, failed, queueVars, caller>>

SameKey(row, c, scheme) ==
    row.period = c.period /\ row.year = c.year /\ row.month = c.month
    /\ row.scheme = scheme

\* One row for a scheme and a period: a second result for them replaces it.
SaveMetric(r) ==
    LET c == Head(plan)
    IN  /\ metric' =
              {row \in metric : ~SameKey(row, c, r.group.scheme)} \cup
              {[period |-> c.period, scheme |-> r.group.scheme, year |-> c.year,
                month |-> IF c.period = "monthInYear" THEN c.month ELSE NoMonth,
                snapshot |-> day, payments |-> r.payments, value |-> r.value,
                pending |-> r.pending, pendingValue |-> r.pendingValue,
                processed |-> r.processed, settled |-> r.settled, onHold |-> r.onHold]}
        /\ results' = results \ {r}
        /\ plan' = IF results' = {} THEN Tail(plan) ELSE plan
        /\ UNCHANGED <<recorded, day, failed, queueVars, caller>>

RunFails ==
    /\ plan # <<>>
    /\ plan' = <<>>
    /\ results' = {}
    /\ failed' = TRUE
    /\ UNCHANGED <<recorded, metric, day, queueVars, caller>>

-----------------------------------------------------------------------------
(* The queue.                                                              *)

NoCalculation == [period |-> "none", year |-> NoYear, month |-> NoMonth]

\* Mutant: every call starts a loop of its own.
NeverProcessing == FALSE

AlreadyProcessing == processing

\* A client joins the calculation of its period if there is one; otherwise it
\* is queued, and the loop starts with it at once if none is running.
Enqueue(c, id) ==
    /\ caller' = [caller EXCEPT ![c].state = "waiting", ![c].query = id]
    /\ IF current = id \/ id \in Range(queue) THEN UNCHANGED queueVars
       ELSE IF AlreadyProcessing
       THEN /\ queue' = Append(queue, id)
            /\ UNCHANGED <<processing, current, looking, pausing>>
       ELSE /\ processing' = TRUE
            /\ current' = id
            /\ looking' = looking + 1
            /\ UNCHANGED <<queue, pausing>>

\* Mutant: the loop ends with an error.
StopOnError(ok) == ok

KeepsGoing(ok) == TRUE

\* The query is answered, and with it everyone who waits for this period.
CalculationEnds ==
    \E ok \in BOOLEAN :
        /\ looking > 0
        /\ looking' = looking - 1
        /\ current' = NoCalculation
        /\ caller' = [c \in Callers |->
              IF caller[c].state = "waiting" /\ caller[c].query = current
              THEN [caller[c] EXCEPT !.state = IF ok THEN "reading" ELSE "error"]
              ELSE caller[c]]
        /\ IF queue # <<>> /\ KeepsGoing(ok)
           THEN pausing' = pausing + 1 /\ UNCHANGED processing
           ELSE /\ processing' = ~KeepsGoing(ok)
                /\ UNCHANGED pausing
        /\ UNCHANGED <<queue, runVars>>

PauseEnds ==
    /\ pausing > 0
    /\ pausing' = pausing - 1
    /\ IF queue = <<>>
       THEN processing' = FALSE /\ UNCHANGED <<queue, current, looking>>
       ELSE /\ current' = Head(queue)
            /\ queue' = Tail(queue)
            /\ looking' = looking + 1
            /\ UNCHANGED processing
    /\ UNCHANGED <<caller, runVars>>

-----------------------------------------------------------------------------
(* The route.                                                              *)

NotCalling == [state |-> "idle", query |-> NoCalculation, date |-> 0,
               totals |-> <<0, 0>>, schemes |-> {}]

MIN_MONTH == 1

ValidateMonthInYearParams(q) ==
    /\ q.year # NoYear /\ q.month # NoMonth
    /\ q.month \in MIN_MONTH..MonthsPerYear

ValidQuery(q) ==
    /\ q.period \in VALID_PERIODS
    /\ q.period = "monthInYear" => ValidateMonthInYearParams(q)
    /\ q.period = "year" => q.year # NoYear

HandleMetricsRequest(c, q) ==
    /\ caller[c].state = "idle"
    /\ IF ~ValidQuery(q)
       THEN /\ caller' = [caller EXCEPT ![c] =
                              [NotCalling EXCEPT !.state = "badRequest"]]
            /\ UNCHANGED queueVars
       ELSE IF q.period \in {"year", "monthInYear"}
       THEN Enqueue(c, q)
       ELSE /\ caller' = [caller EXCEPT ![c] =
                              [NotCalling EXCEPT !.state = "reading", !.query = q]]
            /\ UNCHANGED queueVars
    /\ UNCHANGED runVars

YearFilter(q) == IF q.period = "all" THEN NoYear ELSE q.year

Selected(q) ==
    {row \in metric : /\ row.period = q.period
                      /\ YearFilter(q) # NoYear => row.year = YearFilter(q)}

\* The first of the two queries of fetchMetrics.
FetchSnapshotDate(c) ==
    /\ caller[c].state = "reading"
    /\ caller' = [caller EXCEPT
          ![c].date = Max({row.snapshot : row \in Selected(caller[c].query)}
                          \cup {0}),
          ![c].state = "fetching"]
    /\ UNCHANGED <<runVars, queueVars>>

\* Payments of this scheme are kept with the opposite sign.
ParseMetricValue(value, scheme) == IF scheme = "FPTT" THEN -value ELSE value

AggregateByScheme(rows) ==
    {LET mine == {row \in rows : row.scheme = s}
     IN  [scheme |-> s,
          payments |-> SumFunction([row \in mine |-> row.payments]),
          value |-> SumFunction([row \in mine |-> row.value])] :
        s \in {row.scheme : row \in rows}}

MapSchemeMetrics(schemes) ==
    {[m EXCEPT !.value = ParseMetricValue(m.value, m.scheme)] : m \in schemes}

\* Mutant: the totals take the values as they are kept.
TotalsAsKept(rows) ==
    <<SumFunction([row \in rows |-> row.payments]),
      SumFunction([row \in rows |-> row.value])>>

CalculateTotals(rows) ==
    <<SumFunction([row \in rows |-> row.payments]),
      SumFunction([row \in rows |-> ParseMetricValue(row.value, row.scheme)])>>

FetchMetrics(c) ==
    LET q == caller[c].query
        rows == {row \in Selected(q) :
                    /\ row.snapshot = caller[c].date
                    /\ q.month # NoMonth => row.month = q.month}
    IN  /\ caller[c].state = "fetching"
        /\ caller' = [caller EXCEPT
              ![c].totals = CalculateTotals(rows),
              ![c].schemes = MapSchemeMetrics(AggregateByScheme(rows)),
              ![c].state = "answered"]
        /\ UNCHANGED <<runVars, queueVars>>

-----------------------------------------------------------------------------

RequestRecords ==
    {[scheme |-> s, received |-> m, status |-> st,
      value |-> IF s = "FPTT" THEN -1 ELSE 1] :
        s \in MetricSchemes, m \in Months,
        st \in {"pending", "held", "settled", "reset"}}

\* Either all clients call and there is nothing to count, or one calls while
\* the nightly runs count.
MetricsInit ==
    /\ recorded \in UNION {[1..n -> RequestRecords] : n \in 0..MaxRequests}
    /\ \A i \in 2..Len(recorded) :
          recorded[i - 1].received <= recorded[i].received
    /\ failed = FALSE /\ metric = {} /\ day = 0 /\ plan = <<>> /\ results = {}
    /\ queue = <<>> /\ processing = FALSE /\ current = NoCalculation
    /\ looking = 0 /\ pausing = 0
    /\ caller = [c \in Callers |->
          IF recorded = <<>> \/ c = CHOOSE d \in Callers : TRUE THEN NotCalling
          ELSE [NotCalling EXCEPT !.state = "none"]]

MetricsNext ==
    \/ StartRun \/ CalculateMetricsForPeriod \/ RunFails
    \/ \E r \in results : SaveMetric(r)
    \/ CalculationEnds \/ PauseEnds
    \/ \E c \in Callers :
          \/ \E q \in Queries : HandleMetricsRequest(c, q)
          \/ FetchSnapshotDate(c)
          \/ FetchMetrics(c)

-----------------------------------------------------------------------------

MetricsTypeOK ==
    /\ Range(recorded) \subseteq RequestRecords
    /\ day \in 0..MaxCounted
    /\ \A row \in metric : row.snapshot \in 1..day /\ row.period \in VALID_PERIODS
    /\ Range(queue) \subseteq Queries
    /\ current \in Queries \cup {NoCalculation}
    /\ {processing, failed} \subseteq BOOLEAN
    /\ \A c \in Callers :
          caller[c].state \in {"none", "idle", "waiting", "reading", "fetching",
                               "answered", "badRequest", "error"}

\* However many clients ask at once, for the same periods or others, one query
\* of the queue is out at a time (MetricsCalculationQueue.processQueue).
OneCalculationAtATime == looking + pausing <= 1

\* Every client that waits for a calculation is let go, with figures or with an
\* error, even if the calculations before its own fail or it asks while the
\* loop is about to end (MetricsCalculationQueue.enqueue, processQueue).
EveryCallerAnswered ==
    \A c \in Callers : caller[c].state = "waiting" ~> caller[c].state # "waiting"

\* What is saved for all time, for a year or for a month of a year counts every
\* request that was received then, in December too, once, as either pending or
\* processed, whatever schedules it has; and a run that got through has saved
\* all three for each of them (calculateAllMetrics).
SavedIsCounted ==
    LET counts(row, i) ==
            /\ row.scheme = recorded[i].scheme
            /\ row.period # "all" => YearOf(recorded[i].received) = row.year
            /\ row.period = "monthInYear" =>
                  MonthOf(recorded[i].received) = row.month
    IN  /\ \A row \in metric :
              row.period \in {"all", "year", "monthInYear"} =>
                  LET mine == {i \in DOMAIN recorded : counts(row, i)}
                  IN  /\ row.payments = Cardinality(mine)
                      /\ row.value = Value(mine)
                      /\ row.pending + row.processed = row.payments
        /\ day > 0 /\ plan = <<>> /\ ~failed =>
              \A i \in DOMAIN recorded, p \in {"all", "year", "monthInYear"} :
                  \E row \in metric :
                      row.period = p /\ row.snapshot = day /\ counts(row, i)

\* An answer adds up: its totals are the sums over the schemes it lists, with
\* the sign that each of them is shown with, even if the figures change between
\* the two queries it is made from (fetchMetrics, processMetrics).
TotalsMatchSchemes ==
    \A c \in Callers :
        caller[c].totals =
            <<SumFunction([m \in caller[c].schemes |-> m.payments]),
              SumFunction([m \in caller[c].schemes |-> m.value])>>
=============================================================================

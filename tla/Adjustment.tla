----------------------------- MODULE Adjustment -----------------------------
(***************************************************************************)
(* The payment history of one agreement, or of what the search for earlier *)
(* payments takes for one: requests that raise and lower what the customer *)
(* is entitled to, settlements by DAX in between, the calendar of          *)
(* instalments, closure of the agreement, and ledger checks that take so   *)
(* long that any of these happen meanwhile.  Each request is calculated as *)
(* in Delta and DueDates and completed in one step; how such steps         *)
(* interleave in the tables is the subject of Processing.                  *)
(***************************************************************************)
EXTENDS DueDates, SequencesExt

CONSTANTS
    Schemes,               \* schemes of the agreement: "SFI", "SFI23", "BPS", "CS"
    Claims,                \* the lines of a request, from type of line to value
    Instalments,           \* instalments a request asks for, 0 for a single payment
    UseManualLedgerCheck,  \* processingConfig.useManualLedgerCheck
    MaxRequests,           \* bound on the requests of the agreement
    LastDate               \* bound on the calendar

ASSUME AdjustmentAssumption ==
    /\ Schemes \subseteq {"SFI", "SFI23", "BPS", "CS"}
    /\ \A c \in Claims : IsFiniteSet(DOMAIN c) /\ c \in [DOMAIN c -> Int]
    /\ Instalments \subseteq Nat
    /\ UseManualLedgerCheck \in BOOLEAN
    /\ MaxRequests \in Nat
    /\ LastDate \in Nat

VARIABLES
    scheme,      \* the scheme of the agreement
    instalments, \* of every request, as it comes in
    claims,      \* the values the requests came with
    rows,        \* completedPaymentRequests of the agreement
    waiting,     \* the adjustment that is with the request editor, if any
    suppressed,  \* AR value the last completion left out
    closed,      \* the agreement is closed
    now,         \* instalment dates that have gone by
    reused       \* history: a request kept a number that was used

vars ==
    <<scheme, instalments, claims, rows, waiting, suppressed, closed, now, reused>>

-----------------------------------------------------------------------------
(* Reading the history.                                                    *)

\* Mutant: a rekeyed claim keeps its number.
KeepNumber(n) == n

\* Mutant: a number is left out.
LeaveNumberOut(n) ==
    IF scheme # "BPS" \/ n > 1 \/ rows = <<>> THEN n
    ELSE 2 + Max({rows[i].number : i \in DOMAIN rows})

\* A BPS claim that was keyed again comes with number 1 again.
ConfirmPaymentRequestNumber(n) ==
    IF scheme # "BPS" \/ n > 1 \/ rows = <<>> THEN n
    ELSE 1 + Max({rows[i].number : i \in DOMAIN rows})

\* The numbers a request may come with: the next one, or one that was used.  All
\* BPS requests of a customer and year are compared with each other, and all CS
\* requests of a contract, whatever agreement they belong to.
IncomingNumbers ==
    LET next == Len(claims) + (IF scheme = "SFI23" THEN 0 ELSE 1)
    IN  IF scheme \in {"BPS", "CS"} THEN 1..next ELSE {next}

\* A number that is kept and not above those of all requests before it.
Reused(n) ==
    reused \/ (/\ n > 1 \/ scheme # "BPS"
               /\ \E i \in DOMAIN rows : rows[i].number >= n)

\* An advance has number 0 and is compared with all that was paid.
GetCompletedPaymentRequests(number) ==
    Restrict(rows, {i \in DOMAIN rows : number = 0 \/ rows[i].number < number})

NewRequest(number, lines) ==
    [number |-> number, ledger |-> "AP", value |-> LineTotal(lines), lines |-> lines,
     settled |-> 0, settledOn |-> 0, original |-> FALSE, settlementDate |-> 0,
     due |-> 1, instalments |-> instalments, sent |-> FALSE]

-----------------------------------------------------------------------------
(* Enrichment, closure and the ledger check.                               *)

\* Mutant: the settlement of the latest request is taken.
LatestSettlementDate(requests) == requests[Max(DOMAIN requests)].settledOn

\* The first settlement on AP, 0 if there was none.
GetOriginalSettlementDate(requests) ==
    LET dates == {r.settledOn : r \in {requests[i] : i \in
                     {i \in DOMAIN requests : /\ requests[i].ledger = "AP"
                                              /\ requests[i].settledOn # 0}}}
    IN  IF dates = {} THEN 0 ELSE Min(dates)

EnrichPaymentRequests(requests, previous) ==
    [i \in DOMAIN requests |->
        IF requests[i].ledger = "AR"
        THEN [requests[i] EXCEPT
                !.settlementDate = GetOriginalSettlementDate(previous),
                !.original = TRUE]
        ELSE requests[i]]

IsAgreementClosed(value) == value = 0 /\ closed

\* Of at most two requests the one on AP comes first.
SuppressARPaymentRequests(requests) ==
    LET saved ==
          [i \in DOMAIN requests |->
              IF requests[i].ledger = "AR"
              THEN [requests[i] EXCEPT !.value = 0, !.lines = <<>>]
              ELSE requests[i]]
    IN  IF requests[1].ledger = "AR" THEN Reverse(saved) ELSE saved

\* Requests of a number whose AP values cancel out do not count.
IgnoreZeroValueSplits(requests) ==
    LET split(r) ==
          \E i, j \in DOMAIN requests :
             /\ requests[i].number = r.number
             /\ requests[j].number = r.number
             /\ requests[i].ledger = "AP" /\ requests[j].ledger = "AP"
             /\ requests[i].value # 0
             /\ requests[i].original = requests[j].original
             /\ requests[i].value = -requests[j].value
    IN  Restrict(requests, {i \in DOMAIN requests : ~split(requests[i])})

\* Mutant: zero value splits count as earlier reductions.
CountZeroValueSplits(delta, previous) ==
    /\ UseManualLedgerCheck
    /\ delta # 0
    /\ \/ delta < 0
       \/ \E i \in DOMAIN previous : previous[i].value < 0

RequiresManualLedgerCheck(delta, previous) ==
    LET counted == IgnoreZeroValueSplits(previous)
    IN  /\ UseManualLedgerCheck
        /\ delta # 0
        /\ delta < 0 \/ \E i \in DOMAIN counted : counted[i].value < 0

-----------------------------------------------------------------------------
(* Completion.                                                             *)

CheckSingleRequestOffsets(r) ==
    /\ LineTotal(r.lines) = 0
    /\ \E k \in DOMAIN r.lines : r.lines[k] > 0

CheckMultipleRequestOffsets(requests) ==
    /\ Len(requests) = 2
    /\ requests[1].value + requests[2].value = 0
    /\ requests[1].value # 0

\* Mutant: a split is sent whatever it is worth.
SendSplits(r, first) == DOMAIN r.lines # {} \/ r.original

CreateOutboxEntry(r, first) == DOMAIN r.lines # {} \/ (r.original /\ first)

Saved(requests, first) ==
    [i \in DOMAIN requests |->
        LET r == [requests[i] EXCEPT !.lines = NonZeroLines(requests[i].lines)]
        IN  [r EXCEPT !.sent = CreateOutboxEntry(r, first)]]

\* A single request whose lines cancel out is split now, any other list is
\* saved as it is.
CompletePaymentRequests(requests) ==
    rows' = rows \o
        IF Len(requests) = 1 /\ CheckSingleRequestOffsets(requests[1])
        THEN Saved(ZeroValueSplit(requests[1]), requests[1].number <= 1)
        ELSE Saved(requests, CheckMultipleRequestOffsets(requests))

\* A request that nothing was paid before.
FirstPayment(claim) ==
    /\ waiting = {}
    /\ Len(claims) < MaxRequests
    /\ \E n \in IncomingNumbers :
         LET number == ConfirmPaymentRequestNumber(n)
             previous == GetCompletedPaymentRequests(number)
         IN  /\ DOMAIN previous = {}
             /\ \E lines \in ApplyDualAccounting(scheme, claim, previous) :
                  /\ number = 0 => LineTotal(lines) > 0   \* an advance pays something
                  /\ CompletePaymentRequests(<<NewRequest(number, lines)>>)
                  /\ claims' = Append(claims, LineTotal(lines))
             /\ reused' = Reused(n)
    /\ suppressed' = 0
    /\ UNCHANGED <<scheme, instalments, waiting, closed, now>>

\* transformPaymentRequest: what an adjustment may become.
Adjusted(request, previous) ==
    {EnrichPaymentRequests(ConfirmDueDates(scheme, requests, previous, now), previous) :
        requests \in CalculateDelta(request, previous)}

\* An adjustment that is completed at once; nothing is asked of customers whose
\* agreement is closed, and nothing is taken back from them on AR.
CompleteAdjustment(request, previous) ==
    \E requests \in Adjusted(request, previous) :
        /\ \/ IsAgreementClosed(request.value)
           \/ ~RequiresManualLedgerCheck(ValueTotal(requests), previous)
        /\ IF IsAgreementClosed(request.value)
           THEN /\ CompletePaymentRequests(SuppressARPaymentRequests(requests))
                /\ suppressed' = ValueTotal(OnLedger(requests, "AR"))
           ELSE /\ CompletePaymentRequests(requests)
                /\ suppressed' = 0
        /\ UNCHANGED waiting

RouteManualLedgerToRequestEditor(request, previous) ==
    \E requests \in Adjusted(request, previous) :
        /\ ~IsAgreementClosed(request.value)
        /\ RequiresManualLedgerCheck(ValueTotal(requests), previous)
        /\ waiting' = {[number |-> request.number, due |-> request.due,
                        requests |-> requests]}
        /\ UNCHANGED <<rows, suppressed>>

AdjustPayment(claim) ==
    /\ waiting = {}
    /\ Len(claims) < MaxRequests
    /\ \E n \in IncomingNumbers :
         LET number == ConfirmPaymentRequestNumber(n)
             previous == GetCompletedPaymentRequests(number)
         IN  /\ DOMAIN previous # {}
             /\ \E lines \in ApplyDualAccounting(scheme, claim, previous) :
                  /\ \/ CompleteAdjustment(NewRequest(number, lines), previous)
                     \/ RouteManualLedgerToRequestEditor(NewRequest(number, lines), previous)
                  /\ claims' = Append(claims, LineTotal(lines))
             /\ reused' = Reused(n)
    /\ UNCHANGED <<scheme, instalments, closed, now>>

\* The editor confirms the ledgers; dates and references are worked out again.
UpdateRequestsAwaitingManualLedgerCheck ==
    /\ \E w \in waiting :
         LET previous == GetCompletedPaymentRequests(w.number)
             reset == ResetDueDatesForSFI23(w.requests, previous, w.due)
             confirmed == ConfirmDueDates(scheme, reset, previous, now)
         IN  CompletePaymentRequests(EnrichPaymentRequests(confirmed, previous))
    /\ waiting' = {}
    /\ suppressed' = 0
    /\ UNCHANGED <<scheme, instalments, claims, closed, now, reused>>

-----------------------------------------------------------------------------
(* DAX, the calendar, and the closure of the agreement.                    *)

\* DAX settles half of a payment or all of it, and reductions at once.
Settlements(r) ==
    IF r.value < 0 THEN {r.value} \ {r.settled}
    ELSE {v \in {Truncate(r.value, 2), r.value} : v > r.settled}

UpdateSettlementStatus(i) ==
    /\ rows[i].sent
    /\ rows[i].ledger = "AP"
    /\ \E v \in Settlements(rows[i]) :
         rows' = [rows EXCEPT ![i].settled = v, ![i].settledOn = now + 1]
    /\ UNCHANGED <<scheme, instalments, claims, waiting, suppressed, closed, now, reused>>

InstalmentDate ==
    /\ instalments # 0
    /\ now < LastDate
    /\ now' = now + 1
    /\ UNCHANGED <<scheme, instalments, claims, rows, waiting, suppressed, closed, reused>>

AddClosure ==
    /\ ~closed
    /\ closed' = TRUE
    /\ UNCHANGED <<scheme, instalments, claims, rows, waiting, suppressed, now, reused>>

Init ==
    /\ scheme \in Schemes
    /\ instalments \in Instalments
    /\ CASE scheme = "SFI" -> TRUE
         [] scheme = "SFI23" -> instalments = 4
         [] OTHER -> instalments = 0
    /\ claims = <<>>
    /\ rows = <<>>
    /\ waiting = {}
    /\ suppressed = 0
    /\ closed = FALSE
    /\ now = 0
    /\ reused = FALSE

Next ==
    \/ \E claim \in Claims : FirstPayment(claim) \/ AdjustPayment(claim)
    \/ UpdateRequestsAwaitingManualLedgerCheck
    \/ \E i \in DOMAIN rows : UpdateSettlementStatus(i)
    \/ InstalmentDate
    \/ AddClosure

Spec == Init /\ [][Next]_vars
-----------------------------------------------------------------------------
(* Properties.                                                             *)

Date == 0..(LastDate + 1)

\* Every variable keeps its type; dates stay within the calendar.
TypeOK ==
    /\ scheme \in Schemes
    /\ instalments \in Instalments
    /\ claims \in Seq(Int)
    /\ waiting = {} \/ \E w \in waiting : waiting = {w} /\ w.number \in Nat
    /\ suppressed \in Int
    /\ closed \in BOOLEAN
    /\ reused \in BOOLEAN /\ (reused => scheme \in {"BPS", "CS"})
    /\ now \in 0..LastDate
    /\ \A i \in DOMAIN rows :
          /\ rows[i].ledger \in {"AP", "AR"}
          /\ rows[i].number \in 0..Len(claims)
          /\ rows[i].value \in Int /\ rows[i].settled \in Int
          /\ rows[i].settledOn \in Date /\ rows[i].settlementDate \in Date
          /\ rows[i].due \in Nat /\ rows[i].instalments \in Nat
          /\ rows[i].sent \in BOOLEAN /\ rows[i].original \in BOOLEAN

Completed == claims # <<>> /\ waiting = {}

\* calculateDelta, confirmPaymentRequestNumber: however a claim was split over
\* ledgers and requests, and also if it was rekeyed with number 1, what was paid
\* and taken back adds up to the latest claim, but for what a closure suppressed.
\* A request that keeps a number that was used, as that of a rekeyed claim, is
\* compared with the requests below it only, and the sum is promised no more.
ClaimIsPaid ==
    Completed /\ ~reused => ValueTotal(rows) + suppressed = claims[Len(claims)]

\* ensureValueConsistency, zeroValueSplit: the lines of every completed request
\* add up to its value, to the penny.
RowsSumTheirLines ==
    \A i \in DOMAIN rows : LineTotal(rows[i].lines) = rows[i].value

\* allocateToLedgers: top ups pay off at most what is owed on the AR ledger, also
\* when the allocation waited for a ledger check, as long as every request is compared
\* with all earlier ones.
DebtNotOverpaid == ~reused => ValueTotal(OnLedger(rows, "AR")) <= 0

\* createOutboxEntry: DAX is never sent a request of value 0, and every other one
\* is sent.
SentUnlessZero == \A i \in DOMAIN rows : rows[i].sent <=> rows[i].value # 0

\* enrichPaymentRequests: a debt is never raised on an agreement DAX has settled
\* nothing of, for it could not name the settlement it corrects.
DebtFollowsSettlement ==
    \A i \in DOMAIN rows :
        rows[i].ledger = "AR" /\ rows[i].value # 0 => rows[i].settlementDate # 0

\* confirmDueDates: a downward adjustment is spread over instalments that end
\* when those of the agreement end, whatever was settled and however long it
\* waited.  SFI23 is excepted: there the editor's reply moves the dates again.
EndOf(r) == r.due + r.instalments - 1

EndsWithSchedule ==
    \A i \in DOMAIN rows :
        (/\ instalments # 0 /\ scheme # "SFI23"
         /\ rows[i].value < 0 /\ rows[i].ledger = "AP")
        => EndOf(rows[i]) = instalments

\* requiresManualLedgerCheck: an adjustment goes to the editor exactly if it takes
\* money away or an earlier request of the agreement did, however the earlier
\* ones were split, as long as it is compared with all of them.
Lowered(totals) == \E i \in 2..Len(totals) : totals[i] < totals[i - 1]

CheckedIfLowered ==
    [][(/\ UseManualLedgerCheck /\ ~closed /\ ~reused'
        /\ Len(claims') > Len(claims) /\ claims # <<>>)
       => (waiting' # {} <=>
             Lowered(claims') /\ claims'[Len(claims')] # claims[Len(claims)])]_vars

\* applyDualAccounting: all lines of a BPS agreement are paid from one fund, so
\* that a later reduction cancels the lines it reduces.
OneDomesticFund ==
    scheme = "BPS" =>
        \A i, j \in DOMAIN rows : \A k \in DOMAIN rows[i].lines, l \in DOMAIN rows[j].lines :
            k[2] = l[2]

\* README.md: a downward adjustment goes to the AP ledger only if there is
\* sufficient balance in it to cover the adjustment.
RecoveryWithinBalance ==
    [][\A i \in DOMAIN rows' \ DOMAIN rows :
         (/\ rows'[i].ledger = "AP" /\ rows'[i].value < 0
          /\ claims'[Len(claims')] < claims[Len(claims)]
          /\ Len(rows') = Len(rows) + 1)
         => LET ap == OnLedger(rows, "AP")
            IN  -rows'[i].value <=
                  ValueTotal(ap) - Total([j \in DOMAIN ap |-> ap[j].settled])]_vars
=============================================================================

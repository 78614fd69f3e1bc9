------------------------------ MODULE DueDates ------------------------------
(***************************************************************************)
(* The payment schedule of an adjustment.  An agreement is paid in equal   *)
(* instalments; a downward adjustment on AP must be spread over those that *)
(* are left.  A date is the number of an instalment of the agreement, a    *)
(* schedule the date it begins and the number of its instalments, 0 for a  *)
(* request that is paid at once.  SFI23 agreements may begin with an       *)
(* advance payment, request number 0, due in 2023.                         *)
(***************************************************************************)
EXTENDS Delta

NoSchedule == [due |-> 1, instalments |-> 0]

ScheduleOf(r) == [due |-> r.due, instalments |-> r.instalments]

Numbered(requests, n) == {i \in DOMAIN requests : requests[i].number = n}

Advances(previous) == Numbered(previous, 0)

FirstPayments(previous) == Numbered(previous, 1)

\* The schedule everything else is worked out from.
GetFirstPaymentRequest(scheme, requests, previous) ==
    LET first == FirstPayments(previous)
        advance == Advances(previous)
    IN  IF scheme = "SFI23" /\ requests[1].number = 1
        THEN ScheduleOf(requests[1])
        ELSE IF first = {} THEN NoSchedule
        ELSE IF scheme = "SFI23" /\ advance # {} /\ previous[Min(advance)].settled = 0
        THEN [due |-> requests[1].due, instalments |-> 4]
        ELSE ScheduleOf(previous[Min(first)])

RemoveSettledSFI23AdvancePayments(scheme, requests) ==
    Restrict(requests,
        {i \in DOMAIN requests :
            ~(scheme = "SFI23" /\ requests[i].number = 0 /\ requests[i].settled # 0)})

GetSettledValue(scheme, requests) ==
    LET ap == OnLedger(RemoveSettledSFI23AdvancePayments(scheme, requests), "AP")
    IN  Total([i \in DOMAIN ap |-> ap[i].settled])

GetTotalValue(scheme, requests) ==
    ValueTotal(OnLedger(RemoveSettledSFI23AdvancePayments(scheme, requests), "AP"))

\* What should have been paid out once an instalment has been.
GetExpectedValue(total, instalments, i) == Truncate(total * i, instalments)

\* The instalments that lie ahead, or that settlements have not reached.
OutstandingSchedule(schedule, settled, total, now) ==
    {i \in 1..schedule.instalments :
        \/ schedule.due + i - 1 > now
        \/ settled < GetExpectedValue(total, schedule.instalments, i)}

\* The first payment after an advance takes its place after the first quarter.
HandleSFI23AdvancePayments(scheme, requests, previous, schedule) ==
    IF scheme = "SFI23" /\ Advances(previous) # {} /\ requests[1].number = 1
    THEN [i \in DOMAIN requests |->
            IF requests[i].ledger = "AP"
            THEN [requests[i] EXCEPT !.due = schedule.due + 1, !.instalments = 3]
            ELSE requests[i]]
    ELSE requests

\* Mutant: the adjustment keeps the date of the request.
KeepDueDate(r, first, left) == [r EXCEPT !.instalments = Cardinality(left)]

\* A negative request on AP gets what is left of the schedule.
Reschedule(r, first, left) ==
    [r EXCEPT !.due = first.due + Min(left) - 1,
              !.instalments = Cardinality(left)]

ConfirmDueDates(scheme, requests, previous, now) ==
    LET first == GetFirstPaymentRequest(scheme, requests, previous)
        left == OutstandingSchedule(first, GetSettledValue(scheme, previous),
                                    GetTotalValue(scheme, previous), now)
        confirmed == [i \in DOMAIN requests |->
                        IF requests[i].ledger = "AP" /\ requests[i].value < 0
                        THEN Reschedule(requests[i], first, left)
                        ELSE requests[i]]
    IN  IF \/ first.instalments = 0
           \/ GetTotalValue(scheme, requests) = 0
           \/ left = {}
        THEN requests
        ELSE HandleSFI23AdvancePayments(scheme, confirmed, previous, first)

\* A reply of the request editor carries dates that were moved already.
ResetDueDatesForSFI23(requests, previous, due) ==
    IF FirstPayments(previous) # {} /\ Advances(previous) # {}
    THEN [i \in DOMAIN requests |-> [requests[i] EXCEPT !.due = due]]
    ELSE requests
=============================================================================

-------------------------------- MODULE Delta --------------------------------
(***************************************************************************)
(* What a post payment adjustment changes: the difference between the      *)
(* lines of a request and the lines already paid, the ledgers it goes to,  *)
(* and the requests it is split into.  Pure operators; values are pence.   *)
(*                                                                         *)
(* The lines of a request are a function from what the code groups lines   *)
(* by, here the type of a line and its fund code, to a value.  The order   *)
(* of lines is left open, and so is how a share of a value that is a whole *)
(* number of pence is rounded: the code multiplies by a floating point     *)
(* percentage, which may fall just below the number.                       *)
(***************************************************************************)
EXTENDS Integers, Sequences, FiniteSets, FiniteSetsExt, Functions

CONSTANTS
    Gross,     \* types of line whose description begins with G00
    Capital    \* types of line of a capital scheme code

PenceOf(v) == IF v < 0 THEN -v ELSE v

\* Math.trunc(x / b).
Truncate(x, b) == IF x < 0 THEN -(-x \div b) ELSE x \div b

\* The sum of the values of a function.
Total(f) == MapThenSumSet(LAMBDA x : f[x], DOMAIN f)

LineTotal(lines) == Total(lines)

ValueTotal(requests) == Total([i \in DOMAIN requests |-> requests[i].value])

\* The requests on a ledger, under the indices they have among the others.
OnLedger(requests, ledger) ==
    Restrict(requests, {i \in DOMAIN requests : requests[i].ledger = ledger})

ValueAt(lines, k) == IF k \in DOMAIN lines THEN lines[k] ELSE 0

NonZeroLines(lines) ==
    Restrict(lines, {k \in DOMAIN lines : lines[k] # 0})

-----------------------------------------------------------------------------
(* Dual accounting: the fund codes of a request.                           *)

\* The fund codes the latest request with lines was paid from.
PreviousDomesticFunds(previous) ==
    LET withLines == {i \in DOMAIN previous : DOMAIN previous[i].lines # {}}
        latest == {i \in withLines : \A j \in withLines :
                                        previous[j].number <= previous[i].number}
    IN  UNION {{k[2] : k \in DOMAIN previous[i].lines} : i \in latest}

\* Mutant: an agreement paid before always gets the default fund code.
SelectDefaultFundCode(previous, firstPayment, default) ==
    IF DOMAIN previous = {} THEN {firstPayment} ELSE {default}

SelectDomesticFundCode(previous, firstPayment, default) ==
    IF DOMAIN previous = {} THEN {firstPayment}
    ELSE IF PreviousDomesticFunds(previous) = {} THEN {default}
    ELSE PreviousDomesticFunds(previous)

\* BPS years before 2020; for later ones the fund code is fixed, as for SFI.
DomesticFunds(scheme, type, previous) ==
    CASE scheme = "BPS" -> SelectDomesticFundCode(previous, "DOM00", "DOM01")
      [] scheme = "CS" -> SelectDomesticFundCode(previous,
                             IF type \in Capital THEN "DRD00" ELSE "DRD05", "DRD01")
      [] OTHER -> {"DRD10"}

\* The lines of a claim as they may be coded: one previous fund for all.
ApplyDualAccounting(scheme, claim, previous) ==
    LET present == {t \in DOMAIN claim : claim[t] # 0}
        choices == UNION {DomesticFunds(scheme, t, previous) : t \in present}
        codings == {f \in [present -> choices] :
                      /\ \A t \in present : f[t] \in DomesticFunds(scheme, t, previous)
                      /\ DOMAIN previous # {} => \A t, u \in present : f[t] = f[u]}
    IN  {[k \in {<<t, f[t]>> : t \in present} |-> claim[k[1]]] : f \in codings}

-----------------------------------------------------------------------------
(* The delta.                                                              *)

\* Lines grouped by their key, those already paid taken away, zeros left out.
CalculateLineDeltas(lines, previous) ==
    LET keys == DOMAIN lines \cup
                UNION {DOMAIN previous[i].lines : i \in DOMAIN previous}
    IN  NonZeroLines([k \in keys |-> ValueAt(lines, k) -
            Total([i \in DOMAIN previous |-> ValueAt(previous[i].lines, k)])])

GetDefaultLedger(value) == IF value < 0 THEN "AR" ELSE "AP"

CreateCompletedPaymentRequest(request, deltas) ==
    [request EXCEPT !.value = LineTotal(deltas),
                    !.ledger = GetDefaultLedger(LineTotal(deltas)),
                    !.lines = deltas]

\* Positive lines and the others, each with the value of its own lines.
ZeroValueSplit(r) ==
    LET part(keys) ==
          LET lines == Restrict(r.lines, keys)
          IN  [r EXCEPT !.ledger = "AP", !.original = TRUE, !.lines = lines,
                        !.value = LineTotal(lines)]
    IN  << part({k \in DOMAIN r.lines : r.lines[k] > 0}),
           part({k \in DOMAIN r.lines : r.lines[k] <= 0}) >>

-----------------------------------------------------------------------------
(* Ledger assignment.                                                      *)

\* What is still to be paid out on AP and what is owed on AR, without signs.
GetOutstandingLedgerValues(previous) ==
    LET ap == OnLedger(previous, "AP")
    IN  [AP |-> PenceOf(Total([i \in DOMAIN ap |-> ap[i].value - ap[i].settled])),
         AR |-> PenceOf(ValueTotal(OnLedger(previous, "AR")))]

\* A share a/b of a value, cut off to whole pence.
Share(v, a, b) ==
    LET exact == Truncate(v * a, b)
    IN  IF v # 0 /\ PenceOf(v) * a = PenceOf(exact) * b
        THEN {exact, exact - (IF v < 0 THEN -1 ELSE 1)}
        ELSE {exact}

CalculateInvoiceLineValues(lines, a, b) ==
    {f \in [DOMAIN lines -> UNION {Share(lines[k], a, b) : k \in DOMAIN lines}] :
        \A k \in DOMAIN lines : f[k] \in Share(lines[k], a, b)}

\* Mutant: what was cut off stays cut off.
IgnoreVariation(r) == {r}

\* What was cut off goes to the first gross line, or else to the first line.
EnsureValueConsistency(r) ==
    LET gross == {k \in DOMAIN r.lines : k[1] \in Gross}
    IN  {[r EXCEPT !.lines[k] = @ + (r.value - LineTotal(r.lines))] :
            k \in IF gross # {} THEN gross ELSE DOMAIN r.lines}

\* The part of a request that is worth value, its lines cut down to a/b.
PartsWorth(r, value, a, b) ==
    UNION {EnsureValueConsistency([r EXCEPT !.original = TRUE, !.value = value,
                                            !.lines = lines]) :
             lines \in CalculateInvoiceLineValues(r.lines, a, b)}

\* Mutant: the part moved to the other ledger is the rest.
SplitTheRest(r, target, ledger) ==
    LET whole == PenceOf(r.value)
        kept == IF ledger = "AP" THEN -target ELSE target
    IN  {<<part, [moved EXCEPT !.ledger = ledger]>> :
            part \in PartsWorth(r, kept, target, whole),
            moved \in PartsWorth(r, r.value - kept, whole - target, whole)}

\* A request too big for a ledger is split in two, its lines in proportion.
SplitToLedger(r, target, ledger) ==
    LET whole == PenceOf(r.value)
        kept == IF ledger = "AP" THEN r.value + target ELSE r.value - target
    IN  {<<part, [moved EXCEPT !.ledger = ledger]>> :
            part \in PartsWorth(r, kept, whole - target, whole),
            moved \in PartsWorth(r, r.value - kept, target, whole)}

UpdatePaymentRequestLedger(r, unsettled, ledger) ==
    IF unsettled >= PenceOf(r.value)
    THEN {<<[r EXCEPT !.ledger = ledger]>>}
    ELSE SplitToLedger(r, unsettled, ledger)

\* A top up pays off what is owed on AR, a recovery what AP has not paid out.
AllocateToLedgers(r, outstanding) ==
    IF outstanding.AR > 0 /\ r.ledger = "AP"
    THEN UpdatePaymentRequestLedger(r, outstanding.AR, "AR")
    ELSE IF outstanding.AP > 0 /\ r.ledger = "AR"
    THEN UpdatePaymentRequestLedger(r, outstanding.AP, "AP")
    ELSE {<<r>>}

\* The requests an adjustment is completed with; a set, for what is left open.
CalculateDelta(request, previous) ==
    LET deltas == CalculateLineDeltas(request.lines, previous)
        updated == CreateCompletedPaymentRequest(request, deltas)
    IN  IF updated.value = 0 /\ DOMAIN deltas # {}
        THEN {ZeroValueSplit(updated)}
        ELSE AllocateToLedgers(updated, GetOutstandingLedgerValues(previous))
=============================================================================

---------------------------- MODULE Settlements ----------------------------
(***************************************************************************)
(* Return messages of DAX, which say what has been paid: they arrive in    *)
(* any order and more than once, two pods work on them at the same time,   *)
(* and each looks a completed payment up before it updates all that its    *)
(* filter selects.                                                         *)
(***************************************************************************)
EXTENDS Naturals, FiniteSets

CONSTANTS
    Invoices,     \* completed payments of one agreement
    PaymentOf,    \* the value of each of them
    OldClaims,    \* those of a marketing year up to 2020
    Returns       \* return messages

ASSUME SettlementsAssumption ==
    /\ PaymentOf \in [Invoices -> Nat]
    /\ OldClaims \subseteq Invoices
    /\ \A m \in Returns :
          /\ m.date \in Nat \ {0}
          /\ m.value \in Nat

VARIABLES
    source,    \* the source system, and so the scheme, of the agreement
    settled,   \* lastSettlement (0 for null) and settledValue of the payments
    returns,   \* messages not completed
    unmatched, \* messages that were dead-lettered
    returning, \* what a pod is working on
    applied    \* messages that an update was made for

settlementVars == <<source, settled, returns, unmatched, returning, applied>>

ReturnPods == {1, 2}
Idle == [returns |-> {}, value |-> 0]

-----------------------------------------------------------------------------

\* Environmental stewardship and the forestry commission settle by agreement,
\* anything else by invoice.
GetSettlementFilter(m) ==
    IF source \in {"ES", "FC"} THEN Invoices ELSE {m.invoice} \cap Invoices

\* Old BPS claims are in euro: what was sent is what was settled in pounds.
SettledValue(m) ==
    IF source = "BPS" /\ m.invoice \in OldClaims /\ m.gbp THEN PaymentOf[m.invoice]
    ELSE m.value

\* Mutant: any settlement is taken.
AnyDate(i, m) == TRUE

SupersedesLast(i, m) == settled[i].last = 0 \/ settled[i].last < m.date

ProcessReturnMessage(p, m) ==
    /\ returning[p] = Idle
    /\ m \in returns
    /\ m.settled /\ GetSettlementFilter(m) # {}
    /\ returning' = [returning EXCEPT ![p] =
                        [returns |-> {m}, value |-> SettledValue(m)]]
    /\ UNCHANGED <<source, settled, returns, unmatched, applied>>

\* Two receivers never hold the same message, but a lost lock hands it on.
UpdateSettlementStatus(p) ==
    \E m \in returning[p].returns :
        /\ settled' = [i \in Invoices |->
                          IF i \in GetSettlementFilter(m) /\ SupersedesLast(i, m)
                          THEN [last |-> m.date, value |-> returning[p].value]
                          ELSE settled[i]]
        /\ applied' = applied \cup {m}
        /\ returning' = [returning EXCEPT ![p] = Idle]
        \* Completed, or left on the queue when that fails.
        /\ returns' \in {returns, returns \ {m}}
        /\ UNCHANGED <<source, unmatched>>

DeadLetterReturn(p, m) ==
    /\ returning[p] = Idle
    /\ m \in returns
    /\ ~m.settled \/ GetSettlementFilter(m) = {}
    /\ returns' = returns \ {m}
    /\ unmatched' = unmatched \cup {m}
    /\ UNCHANGED <<source, settled, returning, applied>>

SettlementsInit ==
    /\ source \in {"ES", "FC", "IMPS", "BPS", "SFI"}
    /\ settled = [i \in Invoices |-> [last |-> 0, value |-> 0]]
    /\ returns = Returns
    /\ unmatched = {}
    /\ returning = [p \in ReturnPods |-> Idle]
    /\ applied = {}

SettlementsNext ==
    \E p \in ReturnPods :
        \/ \E m \in Returns : ProcessReturnMessage(p, m) \/ DeadLetterReturn(p, m)
        \/ UpdateSettlementStatus(p)

-----------------------------------------------------------------------------

SettlementsTypeOK ==
    /\ source \in {"ES", "FC", "IMPS", "BPS", "SFI"}
    /\ settled \in [Invoices -> [last : Nat, value : Nat]]
    /\ returns \cup unmatched \cup applied \subseteq Returns
    /\ \A p \in ReturnPods : returning[p].returns \subseteq Returns

\* In whatever order the settlements of a payment arrive, however often, and
\* whoever handles them: it shows the latest of those that were applied, with
\* the value that came with that one (updateSettlementStatus).
SettledByNewest ==
    \A i \in Invoices :
        LET mine == {m \in applied : i \in GetSettlementFilter(m)}
            newest == {m \in mine : \A n \in mine : n.date <= m.date}
        IN  settled[i] \in
                IF mine = {} THEN {[last |-> 0, value |-> 0]}
                ELSE {[last |-> m.date, value |-> SettledValue(m)] : m \in newest}
=============================================================================

----------------------------- MODULE BackOffice -----------------------------
(***************************************************************************)
(* What surrounds the payment loop: handlers that write to the tables of a *)
(* request, settlements, holds of users, the table of schemes and metrics. *)
(* None of them reads what another of them writes and a property here      *)
(* speaks of, so a behaviour follows one of them.                          *)
(***************************************************************************)
EXTENDS RequestTables, Settlements, PaymentHolds, SchemeStartup, Metrics

VARIABLE part   \* the component that this behaviour follows

vars == <<part, tablesVars, settlementVars, paymentHoldsVars, schemesVars,
          metricsVars>>

TablesIdle == TablesInit /\ ~crossBorder /\ \A t \in Tasks : at[t] = Absent
SettlementsIdle == SettlementsInit /\ source = "SFI"
MetricsIdle == MetricsInit /\ recorded = <<>>

Init ==
    \/ /\ part = "tables" /\ TablesInit
       /\ SettlementsIdle /\ PaymentHoldsInit /\ SchemesInit /\ MetricsIdle
    \/ /\ part = "settlements" /\ SettlementsInit
       /\ TablesIdle /\ PaymentHoldsInit /\ SchemesInit /\ MetricsIdle
    \/ /\ part \in {"holds", "schemes"} /\ PaymentHoldsInit /\ SchemesInit
       /\ TablesIdle /\ SettlementsIdle /\ MetricsIdle
    \/ /\ part = "metrics" /\ MetricsInit
       /\ TablesIdle /\ SettlementsIdle /\ PaymentHoldsInit /\ SchemesInit

Tables ==
    /\ part = "tables"
    /\ TablesNext
    /\ UNCHANGED <<part, settlementVars, paymentHoldsVars, schemesVars, metricsVars>>

Settling ==
    /\ part = "settlements"
    /\ SettlementsNext
    /\ UNCHANGED <<part, tablesVars, paymentHoldsVars, schemesVars, metricsVars>>

Holding ==
    /\ part = "holds"
    /\ PaymentHoldsNext
    /\ UNCHANGED <<part, tablesVars, settlementVars, schemesVars, metricsVars>>

Starting ==
    /\ part = "schemes"
    /\ SchemesNext
    /\ UNCHANGED <<part, tablesVars, settlementVars, paymentHoldsVars, metricsVars>>

Counting ==
    /\ part = "metrics"
    /\ MetricsNext
    /\ UNCHANGED <<part, tablesVars, settlementVars, paymentHoldsVars, schemesVars>>

Next == Tables \/ Settling \/ Holding \/ Starting \/ Counting

\* The database answers, and a timer goes off.
QueueIsServed == WF_vars(CalculationEnds /\ Counting) /\ WF_vars(PauseEnds /\ Counting)

Spec == Init /\ [][Next]_vars /\ QueueIsServed

-----------------------------------------------------------------------------

\* The type invariants of the components: among others, a transaction that has
\* ended holds no row (RequestTables), every hold has its category
\* (PaymentHolds) and a saved figure names a run that took place (Metrics).
TypeOK ==
    /\ part \in {"tables", "settlements", "holds", "schemes", "metrics"}
    /\ TablesTypeOK
    /\ SettlementsTypeOK
    /\ PaymentHoldsTypeOK
    /\ SchemesTypeOK
    /\ MetricsTypeOK
=============================================================================

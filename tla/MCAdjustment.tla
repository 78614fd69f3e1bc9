---------------------------- MODULE MCAdjustment ----------------------------
(* Small instances of Adjustment for TLC. *)
EXTENDS Adjustment, TLC

\* A gross amount and a penalty; ten and five pence, so that halves and shares
\* are not whole pence.
MCClaims ==
    {c \in [{"G00", "P02"} -> {-5, 0, 5, 10}] :
        /\ c["G00"] >= 0 /\ c["P02"] \in {-5, 0}
        /\ c["G00"] + c["P02"] >= 0
        /\ c["G00"] = 5 => c["P02"] = 0}
=============================================================================

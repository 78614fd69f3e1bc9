---------------------------- MODULE MCProcessing ----------------------------
(* Small instances of Processing for TLC. *)
EXTENDS Processing, TLC

CONSTANTS p1, p2, r1, r2, r3, a1, a2, f1

\* Two requests of one agreement: the second takes back part of the first.
MCAgreementOf == [r \in Requests |-> IF r = r3 THEN a2 ELSE a1]
MCNumber == [r \in Requests |-> IF r = r2 THEN 2 ELSE 1]
MCValue == [r \in Requests |-> IF r = r1 THEN 3 ELSE IF r = r2 THEN 1 ELSE 2]
MCAccountOf == [a \in Agreements |-> f1]

\* Most schemes: an agreement is a claim of its own, and held on its own.
MCOwn == [a \in Agreements |-> a]

\* BPS: the second request comes under another agreement number, for the same
\* customer and year.
MCOtherAgreementOf == [r \in Requests |-> IF r = r2 THEN a2 ELSE a1]
MCShared == [a \in Agreements |-> a1]

PodSymmetry == Permutations(Pods)
=============================================================================

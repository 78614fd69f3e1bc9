---------------------------- MODULE PaymentHolds ----------------------------
(***************************************************************************)
(* The holds that users place on a customer (FRN) over HTTP: one or many   *)
(* at a time, removed by id or in bulk, and listed while they are open.    *)
(* No statement here is part of a transaction, and a bulk addition answers *)
(* before its holds are saved.  Left out are the order of the list and its *)
(* pages: the queries ask for no order and run again for every page, so    *)
(* that a hold may come on two pages or on none.                           *)
(***************************************************************************)
EXTENDS Naturals, Sequences, FiniteSets, FiniteSetsExt

CONSTANTS
    Frns,       \* customers
    HoldTypes,  \* hold categories that may exist
    MaxHolds    \* bound on the holds added

ASSUME PaymentHoldsAssumption == MaxHolds \in Nat

VARIABLES
    holds,      \* the holds table, in the order of the ids
    holdTypes,  \* the holdCategories table
    unsaved,    \* holds of a bulk addition that are not inserted yet
    removing    \* bulk removals under way

paymentHoldsVars == <<holds, holdTypes, unsaved, removing>>

-----------------------------------------------------------------------------

Open(i) == holds[i].open

Insert(f, k) ==
    holds' = Append(holds, [frn |-> f, category |-> k, open |-> TRUE])

\* A hold of an unknown category breaks the foreign key and answers an error.
AddHold(f, k) ==
    /\ Len(holds) + Cardinality(unsaved) < MaxHolds
    /\ k \in holdTypes
    /\ Insert(f, k)
    /\ UNCHANGED <<holdTypes, unsaved, removing>>

AddBulkHold(fs, k) ==
    /\ Len(holds) + Cardinality(fs) <= MaxHolds
    /\ unsaved = {}
    /\ unsaved' = {[frn |-> f, category |-> k] : f \in fs}
    /\ UNCHANGED <<holds, holdTypes, removing>>

\* Nobody awaits the inserts: the first that fails ends the process, with those
\* that are left and with a bulk removal, unless that runs in another pod.
SaveBulkHold(u) ==
    /\ \/ /\ u.category \in holdTypes
          /\ Insert(u.frn, u.category)
          /\ unsaved' = unsaved \ {u}
          /\ UNCHANGED removing
       \/ /\ u.category \notin holdTypes
          /\ unsaved' = {}
          /\ removing' \in {{}, removing}
          /\ UNCHANGED holds
    /\ UNCHANGED holdTypes

\* Mutant: only the hold that was looked up is closed.
CloseFirst(f, k) ==
    LET mine == {i \in DOMAIN holds : holds[i].frn = f /\ Open(i)
                                       /\ holds[i].category = k}
    IN  [i \in DOMAIN holds |->
            IF mine # {} /\ i = Min(mine) THEN [holds[i] EXCEPT !.open = FALSE]
            ELSE holds[i]]

\* A customer may be held for one reason several times over.
CloseAll(f, k) ==
    [i \in DOMAIN holds |->
        IF holds[i].frn = f /\ holds[i].category = k
        THEN [holds[i] EXCEPT !.open = FALSE] ELSE holds[i]]

RemoveHoldById(i) ==
    /\ holds' = [holds EXCEPT ![i].open = FALSE]
    /\ UNCHANGED <<holdTypes, unsaved, removing>>

StartBulkRemoval(fs, k) ==
    /\ removing = {}
    /\ removing' = {[left |-> fs, category |-> k, found |-> {},
                     old |-> {i \in DOMAIN holds : Open(i)
                                 /\ holds[i].frn \in fs
                                 /\ holds[i].category = k}]}
    /\ UNCHANGED <<holds, holdTypes, unsaved>>

\* The look-up; a customer without an open hold is passed over.
FindHeld(r, f) ==
    /\ r.found = {}
    /\ removing' = (removing \ {r}) \cup
          {IF \E i \in DOMAIN holds : Open(i) /\ holds[i].frn = f
                                      /\ holds[i].category = r.category
           THEN [r EXCEPT !.found = {f}]
           ELSE [r EXCEPT !.left = @ \ {f}]}
    /\ UNCHANGED <<holds, holdTypes, unsaved>>

CloseHeld(r, f) ==
    /\ f \in r.found
    /\ holds' = CloseAll(f, r.category)
    /\ removing' = (removing \ {r}) \cup
                       {[r EXCEPT !.left = @ \ {f}, !.found = {}]}
    /\ UNCHANGED <<holdTypes, unsaved>>

AnswerRemoval(r) ==
    /\ r.left = {}
    /\ removing' = removing \ {r}
    /\ UNCHANGED <<holds, holdTypes, unsaved>>

AddHoldType(k) ==
    /\ k \notin holdTypes
    /\ holdTypes' = holdTypes \cup {k}
    /\ UNCHANGED <<holds, unsaved, removing>>

\* Mutant: only open holds keep it.
RemoveUnlessOpen(k) ==
    /\ k \in holdTypes
    /\ \A i \in DOMAIN holds : Open(i) => holds[i].category # k
    /\ holdTypes' = holdTypes \ {k}
    /\ UNCHANGED <<holds, unsaved, removing>>

\* Closed holds keep their category from being removed, too.
RemoveHoldType(k) ==
    /\ k \in holdTypes
    /\ \A i \in DOMAIN holds : holds[i].category # k
    /\ holdTypes' = holdTypes \ {k}
    /\ UNCHANGED <<holds, unsaved, removing>>

\* The holds of users that are listed, on whatever page.
GetHolds == {i \in DOMAIN holds : Open(i)}

-----------------------------------------------------------------------------

PaymentHoldsInit ==
    /\ holds = <<>>
    /\ holdTypes = {}
    /\ unsaved = {}
    /\ removing = {}

SomeFrns == SUBSET Frns \ {{}}

PaymentHoldsNext ==
    \/ \E f \in Frns, k \in HoldTypes : AddHold(f, k)
    \/ \E fs \in SomeFrns, k \in HoldTypes :
          AddBulkHold(fs, k) \/ StartBulkRemoval(fs, k)
    \/ \E u \in unsaved : SaveBulkHold(u)
    \/ \E i \in DOMAIN holds : RemoveHoldById(i)
    \/ \E r \in removing :
          \/ \E f \in r.left : FindHeld(r, f) \/ CloseHeld(r, f)
          \/ AnswerRemoval(r)
    \/ \E k \in HoldTypes : AddHoldType(k) \/ RemoveHoldType(k)

-----------------------------------------------------------------------------

PaymentHoldsTypeOK ==
    /\ holds \in Seq([frn : Frns, category : HoldTypes, open : BOOLEAN])
    /\ Len(holds) <= MaxHolds
    /\ \A i \in DOMAIN holds : holds[i].category \in holdTypes
    /\ unsaved \subseteq [frn : Frns, category : HoldTypes]
    /\ \A r \in removing : r.found \subseteq r.left /\ r.old \subseteq DOMAIN holds

\* A bulk removal closes what was open when it began: once it is done with a
\* customer none of those holds is listed any more, were they one or several
\* and whoever else added or removed holds meanwhile (removeBulkHold, getHolds).
RemovedIsUnlisted ==
    \A r \in removing : \A i \in r.old : holds[i].frn \notin r.left => i \notin GetHolds
=============================================================================

--------------------------- MODULE SchemeStartup ---------------------------
(***************************************************************************)
(* What every pod does with the table of schemes when it starts: it adds   *)
(* the schemes it knows, gives a new one its hold categories and announces *)
(* it.  Pods start at the same time, and may stop at any statement.        *)
(***************************************************************************)
EXTENDS Naturals, Sequences, FiniteSets

CONSTANTS
    NewSchemes,   \* the schemes of the release
    PpaSchemes,   \* those among them with post payment adjustments
    MaxStops      \* bound on pods that stop half-way

ASSUME SchemeStartupAssumption ==
    /\ PpaSchemes \subseteq NewSchemes
    /\ MaxStops \in Nat

StartPods == {1, 2}
Categories == {"bank", "dax", "debt", "ledger"}

VARIABLES
    schemes,     \* the schemes that have a row
    marked,      \* those with schemeAddedEventPublishedAt
    categories,  \* how often each category of a scheme was inserted
    announced,   \* schemes an event was published for
    starting,    \* the scheme a pod is at and the statements left for it
    checked,     \* the schemes a pod is done with
    creators,    \* how many pods found the scheme missing
    incomplete,  \* schemes that a pod left without a category
    stops        \* stops so far

schemesVars == <<schemes, marked, categories, announced, starting, checked,
                 creators, incomplete, stops>>

-----------------------------------------------------------------------------

\* Mutant: the scheme is looked up after it has been added.
ForNoScheme(s) == <<>>

\* The categories of DAX, and those of the request editor.
RequiredCategories(s) ==
    <<"bank", "dax">> \o (IF s \in PpaSchemes THEN <<"debt", "ledger">> ELSE <<>>)

\* Mutant: the scheme is marked before the event is out.
MarkFirst == <<"mark", "announce">>

Announcement == <<"announce", "mark">>

FindScheme(p, s) ==
    /\ starting[p].left = <<>>
    /\ s \notin checked[p]
    /\ starting' = [starting EXCEPT ![p] =
          [scheme |-> s,
           left |-> <<"upsert">>
                    \o (IF s \in schemes THEN <<>> ELSE RequiredCategories(s))
                    \o (IF s \in marked THEN <<>> ELSE Announcement)]]
    /\ checked' = [checked EXCEPT ![p] = @ \cup {s}]
    /\ creators' = IF s \in schemes THEN creators
                   ELSE [creators EXCEPT ![s] = @ + 1]
    /\ UNCHANGED <<schemes, marked, categories, announced, incomplete, stops>>

\* Pod p carries out one of its statements.
Does(p, statement) ==
    /\ starting[p].left # <<>>
    /\ Head(starting[p].left) = statement
    /\ starting' = [starting EXCEPT ![p].left = Tail(@)]
    /\ UNCHANGED <<checked, creators, incomplete, stops>>

UpsertScheme(p) ==
    /\ Does(p, "upsert")
    /\ schemes' = schemes \cup {starting[p].scheme}
    /\ UNCHANGED <<marked, categories, announced>>

AddCategory(p) ==
    /\ \E c \in Categories :
          /\ Does(p, c)
          /\ categories' = [categories EXCEPT ![starting[p].scheme][c] = @ + 1]
    /\ UNCHANGED <<schemes, marked, announced>>

SendSchemeAddedEvent(p) ==
    /\ Does(p, "announce")
    /\ announced' = announced \cup {starting[p].scheme}
    /\ UNCHANGED <<schemes, marked, categories>>

MarkSchemeAddedEventPublished(p) ==
    /\ Does(p, "mark")
    /\ marked' = marked \cup {starting[p].scheme}
    /\ UNCHANGED <<schemes, categories, announced>>

\* The pod starts over; what it had begun for a scheme it does not repeat.
Stop(p) ==
    /\ stops < MaxStops
    /\ stops' = stops + 1
    /\ starting' = [starting EXCEPT ![p].left = <<>>]
    /\ checked' = [checked EXCEPT ![p] = {}]
    /\ incomplete' =
          IF \E i \in DOMAIN starting[p].left : starting[p].left[i] \in Categories
          THEN incomplete \cup {starting[p].scheme} ELSE incomplete
    /\ UNCHANGED <<schemes, marked, categories, announced, creators>>

-----------------------------------------------------------------------------

SchemesInit ==
    /\ schemes = {} /\ marked = {} /\ announced = {} /\ incomplete = {}
    /\ categories = [s \in NewSchemes |-> [c \in Categories |-> 0]]
    /\ starting = [p \in StartPods |-> [scheme |-> "none", left |-> <<>>]]
    /\ checked = [p \in StartPods |-> {}]
    /\ creators = [s \in NewSchemes |-> 0]
    /\ stops = 0

SchemesNext ==
    \E p \in StartPods :
        \/ \E s \in NewSchemes : FindScheme(p, s)
        \/ UpsertScheme(p) \/ AddCategory(p)
        \/ SendSchemeAddedEvent(p) \/ MarkSchemeAddedEventPublished(p)
        \/ Stop(p)

-----------------------------------------------------------------------------

SchemesTypeOK ==
    /\ schemes \cup marked \cup announced \cup incomplete \subseteq NewSchemes
    /\ categories \in [NewSchemes -> [Categories -> 0..(2 + MaxStops)]]
    /\ creators \in [NewSchemes -> 0..(2 + MaxStops)]
    /\ \A p \in StartPods :
          /\ starting[p].scheme \in NewSchemes \cup {"none"}
          /\ checked[p] \subseteq NewSchemes
    /\ stops \in 0..MaxStops

\* A scheme that is marked as announced was announced, however many pods start
\* and stop at once; the event may be sent twice, but never not at all
\* (updateSchemesDatabase).
MarkedIsAnnounced == marked \subseteq announced

\* A scheme ends up with each category it needs once for every pod that found
\* it missing, which is at least one, unless a pod stopped before it had added
\* them: then no later start makes up for it (updateSchemesDatabase).
CategoriesForEveryScheme ==
    (\A p \in StartPods : starting[p].left = <<>>) =>
        \A s \in schemes \ incomplete :
            /\ creators[s] >= 1
            /\ \A c \in {"bank", "dax"} \cup
                        (IF s \in PpaSchemes THEN {"debt", "ledger"} ELSE {}) :
                  categories[s][c] = creators[s]
=============================================================================

------------------------- MODULE BackOffice_proofs -------------------------
(***************************************************************************)
(* Proofs about components of BackOffice, for any number of schemes,       *)
(* payments, holds, return messages and clients: the newest settlement     *)
(* wins, a bulk removal of holds is complete, a scheme has its categories  *)
(* and what is marked was announced, the queue of the metrics has one      *)
(* loop, every request is counted, the figures that are answered add up,   *)
(* and every component keeps its types.                                    *)
(***************************************************************************)
EXTENDS BackOffice, RequestTables_proofs, SumTheorems, SequenceTheorems, TLAPS

-----------------------------------------------------------------------------
(* A step of the whole is a step of the component or leaves it alone.      *)

LEMMA ComponentsInit ==
    Init => TablesInit /\ SchemesInit /\ SettlementsInit /\ MetricsInit
  BY DEF Init, TablesIdle, SettlementsIdle, MetricsIdle

LEMMA TablesStep == [Next]_vars => TablesNext \/ UNCHANGED tablesVars
  BY DEF Next, vars, Tables, Settling, Holding, Starting, Counting

LEMMA SchemesStep == [Next]_vars => SchemesNext \/ UNCHANGED schemesVars
  BY DEF Next, vars, Tables, Settling, Holding, Starting, Counting

LEMMA SettlementsStep == [Next]_vars => SettlementsNext \/ UNCHANGED settlementVars
  BY DEF Next, vars, Tables, Settling, Holding, Starting, Counting

LEMMA HoldingStep == [Next]_vars => PaymentHoldsNext \/ UNCHANGED paymentHoldsVars
  BY DEF Next, vars, Tables, Settling, Holding, Starting, Counting

LEMMA MetricsStep == [Next]_vars => MetricsNext \/ UNCHANGED metricsVars
  BY DEF Next, vars, Tables, Settling, Holding, Starting, Counting

-----------------------------------------------------------------------------
(* Sequences: those that a set is made into, and one made of many.         *)

\* A function on the first numbers is a sequence.
LEMMA FunctionIsSeq ==
    ASSUME NEW R, NEW n \in Nat, NEW q \in [1..n -> R]
    PROVE  q \in Seq(R) /\ Len(q) = n
<1>1. q = [i \in 1..n |-> q[i]]
  OBVIOUS
<1>2. [i \in 1..n |-> q[i]] \in Seq(R) /\ Len([i \in 1..n |-> q[i]]) = n
  OBVIOUS
<1>3. QED
  BY <1>1, <1>2

\* The numbers of q, the greatest first.
Descending(q) == \A j, k \in DOMAIN q : j < k => q[j] > q[k]

\* Numbers can be listed in descending order.
LEMMA DescendingExists ==
    ASSUME NEW S, S \subseteq Nat, IsFiniteSet(S)
    PROVE  \E q \in [1..Cardinality(S) -> S] : Descending(q)
<1> DEFINE C == {s \in SUBSET S : ~\E q \in [1..Cardinality(s) -> s] : Descending(q)}
<1>1. SUFFICES ASSUME C # {}
               PROVE  FALSE
  OBVIOUS
<1>2. PICK T \in C : \A U \in C : U \subseteq T => U = T
  <2>1. C \subseteq SUBSET S /\ C # {}
    BY <1>1
  <2> HIDE DEF C
  <2>2. QED
    <3>1. PICK W, D : W = S /\ D = C
      OBVIOUS
    <3>2. D \subseteq SUBSET W /\ D # {} /\ IsFiniteSet(W)
      BY <2>1, <3>1
    <3>3. \E T \in D : \A U \in D : U \subseteq T => U = T
      BY <3>2, SmallestSet
    <3>4. QED
      BY <3>1, <3>3
<1>3. IsFiniteSet(T) /\ T \subseteq Nat
  BY FS_Subset
<1>4. T # {}
  <2>1. SUFFICES ASSUME T = {}
                 PROVE  \E q \in [1..Cardinality(T) -> T] : Descending(q)
    OBVIOUS
  <2>2. 1..Cardinality(T) = {}
    BY <2>1, FS_EmptySet
  <2>3. [i \in {} |-> 0] \in [1..Cardinality(T) -> T] /\ Descending([i \in {} |-> 0])
    BY <2>1, <2>2 DEF Descending
  <2>4. QED
    BY <2>3
<1>5. PICK m \in T : \A y \in T : m <= y
  BY <1>3, <1>4, MinIsMember
<1> DEFINE U == T \ {m}
           n == Cardinality(U)
<1>6. /\ U \subseteq T /\ U # T /\ n \in Nat /\ Cardinality(T) = n + 1
      /\ \A y \in U : y \in Nat /\ y > m
  <2>1. IsFiniteSet(U) /\ Cardinality(U) = Cardinality(T) - 1
    BY <1>3, FS_RemoveElement
  <2>2. Cardinality(T) \in Nat /\ Cardinality(U) \in Nat
    BY <1>3, <2>1, FS_CardinalityType
  <2>3. QED
    BY <1>3, <1>5, <2>1, <2>2
<1>7. PICK q \in [1..n -> U] : Descending(q)
  <2>1. U \notin C
    BY <1>2, <1>6
  <2>2. U \in SUBSET S
    BY <1>6
  <2>3. QED
    BY <2>1, <2>2
<1> DEFINE p == [i \in 1..(n + 1) |-> IF i <= n THEN q[i] ELSE m]
<1> HIDE DEF U, n
<1>8. p \in [1..(n + 1) -> T]
  <2>1. ASSUME NEW i \in 1..(n + 1)
        PROVE  p[i] \in T
    <3>1. CASE i <= n
      <4>1. i \in 1..n /\ p[i] = q[i]
        BY <1>6, <3>1
      <4>2. q[i] \in U
        BY <1>7, <4>1
      <4>3. QED
        BY <1>6, <4>1, <4>2
    <3>2. CASE ~(i <= n)
      BY <3>2
    <3>3. QED
      BY <3>1, <3>2
  <2>2. QED
    BY <2>1
<1>9. Descending(p)
  <2>1. SUFFICES ASSUME NEW j \in 1..(n + 1), NEW k \in 1..(n + 1), j < k
                 PROVE  p[j] > p[k]
    BY DEF Descending
  <2>2. j \in 1..n /\ p[j] = q[j]
    BY <1>6, <2>1
  <2>3. CASE k <= n
    <3>1. k \in 1..n /\ p[k] = q[k]
      BY <1>6, <2>3
    <3>2. QED
      BY <1>7, <2>1, <2>2, <3>1 DEF Descending
  <2>4. CASE ~(k <= n)
    <3>1. p[k] = m /\ q[j] \in U
      BY <1>6, <1>7, <2>2, <2>4
    <3>2. QED
      BY <1>6, <2>2, <3>1
  <2>5. QED
    BY <2>3, <2>4
<1>10. QED
  BY <1>6, <1>8, <1>9

\* Such a list has them all.
LEMMA DescendingIsAll ==
    ASSUME NEW S, S \subseteq Nat, IsFiniteSet(S), NEW q \in [1..Cardinality(S) -> S],
           Descending(q)
    PROVE  \A x \in S : \E i \in DOMAIN q : q[i] = x
<1> DEFINE I == 1..Cardinality(S)
<1>1. Cardinality(S) \in Nat
  BY FS_CardinalityType
<1>2. \A a, b \in I : q[a] = q[b] => a = b
  <2>1. SUFFICES ASSUME NEW a \in I, NEW b \in I, q[a] = q[b]
                 PROVE  a = b
    OBVIOUS
  <2>2. q[a] \in Nat /\ a \in Nat /\ b \in Nat
    <3>1. q[a] \in S
      OBVIOUS
    <3>2. q[a] \in Nat
      BY <3>1
    <3>3. QED
      BY <1>1, <3>2
  <2>3. ~(a < b) /\ ~(b < a)
    BY <2>1, <2>2 DEF Descending
  <2>4. QED
    BY <2>2, <2>3
<1>3. q \in Injection(I, S)
  BY <1>2 DEF Injection, IsInjective
<1>4. IsFiniteSet(I) /\ Cardinality(I) = Cardinality(S)
  BY <1>1, FS_Interval
<1>5. q \in Surjection(I, S)
  BY <1>3, <1>4, FS_Injection
<1>6. QED
  BY <1>5 DEF Surjection

\* f lists what the first parts of q, one after another, come to.
FlatSteps(q, n, f) ==
    f = [i \in 1..n |-> IF i = 1 THEN q[i] ELSE f[i - 1] \o q[i]]

\* FlattenSeq is defined by such an f; there is one.
LEMMA FlatStepsExist ==
    ASSUME NEW q, NEW n \in Nat
    PROVE  \E f : FlatSteps(q, n, f)
<1> DEFINE B == {m \in Nat : ~\E f : FlatSteps(q, m, f)}
<1>1. SUFFICES ASSUME B # {}
               PROVE  FALSE
  OBVIOUS
<1>2. PICK k \in B : \A m \in B : k <= m
  <2>1. B \subseteq Nat /\ B # {}
    BY <1>1
  <2> HIDE DEF B
  <2>2. QED
    BY <2>1, MinIsMember
<1>3. k \in Nat /\ ~\E f : FlatSteps(q, k, f)
  OBVIOUS
<1>4. k # 0
  <2>1. 1..0 = {}
    OBVIOUS
  <2>2. FlatSteps(q, 0, [i \in {} |-> q])
    BY <2>1 DEF FlatSteps
  <2>3. QED
    BY <1>3, <2>2
<1>5. PICK f : FlatSteps(q, k - 1, f)
  <2>1. k - 1 \in Nat /\ ~(k <= k - 1)
    BY <1>3, <1>4
  <2>2. k - 1 \notin B
    BY <1>2, <2>1
  <2>3. QED
    BY <2>1, <2>2
<1> DEFINE g == [i \in 1..k |-> IF i <= k - 1 THEN f[i]
                                ELSE IF i = 1 THEN q[i] ELSE f[i - 1] \o q[i]]
<1>6. ASSUME NEW i \in 1..k
      PROVE  g[i] = IF i = 1 THEN q[i] ELSE g[i - 1] \o q[i]
  <2>1. i # 1 => i - 1 \in 1..(k - 1) /\ g[i - 1] = f[i - 1]
    BY <1>3
  <2>2. CASE i <= k - 1
    <3>1. i \in 1..(k - 1) /\ g[i] = f[i]
      BY <1>3, <2>2
    <3>2. f[i] = IF i = 1 THEN q[i] ELSE f[i - 1] \o q[i]
      BY <1>5, <3>1 DEF FlatSteps
    <3>3. QED
      BY <2>1, <3>1, <3>2
  <2>3. CASE ~(i <= k - 1)
    BY <2>1, <2>3
  <2>4. QED
    BY <2>2, <2>3
<1>7. FlatSteps(q, k, g)
  <2>1. g = [i \in 1..k |-> g[i]]
    OBVIOUS
  <2> HIDE DEF g
  <2>2. [i \in 1..k |-> g[i]] = [i \in 1..k |-> IF i = 1 THEN q[i] ELSE g[i - 1] \o q[i]]
    BY <1>6
  <2>3. QED
    BY <2>1, <2>2 DEF FlatSteps
<1>8. QED
  BY <1>3, <1>7

\* Every element of the first h of the sequences in q is an element of s.
HasAll(q, h, s) ==
    \A i \in 1..h : \A j \in DOMAIN q[i] : \E k \in DOMAIN s : s[k] = q[i][j]

\* A sequence made of many has the elements of each, and no others.
LEMMA FlattenedHasAll ==
    ASSUME NEW T, NEW n \in Nat \ {0}, NEW q \in [1..n -> Seq(T)]
    PROVE  FlattenSeq(q) \in Seq(T) /\ HasAll(q, n, FlattenSeq(q))
<1> DEFINE F == CHOOSE f : FlatSteps(q, n, f)
<1>1. Len(q) = n
  <2>1. n \in Nat
    OBVIOUS
  <2>2. QED
    BY <2>1, FunctionIsSeq
<1>2. FlattenSeq(q) = F[n]
  BY <1>1 DEF FlattenSeq, FlatSteps
<1>3. FlatSteps(q, n, F)
  BY FlatStepsExist
<1> HIDE DEF F
<1> DEFINE B == {i \in 1..n : ~(F[i] \in Seq(T) /\ HasAll(q, i, F[i]))}
<1>4. SUFFICES ASSUME B # {}
               PROVE  FALSE
  <2>1. n \in 1..n
    OBVIOUS
  <2>2. n \notin B => F[n] \in Seq(T) /\ HasAll(q, n, F[n])
    BY <2>1
  <2> HIDE DEF B
  <2>3. QED
    BY <1>2, <2>2
<1>5. PICK i \in B : \A m \in B : i <= m
  <2>1. B \subseteq Nat /\ B # {}
    BY <1>4
  <2> HIDE DEF B
  <2>2. QED
    BY <2>1, MinIsMember
<1>6. i \in 1..n /\ q[i] \in Seq(T)
  OBVIOUS
<1>7. F[i] = IF i = 1 THEN q[i] ELSE F[i - 1] \o q[i]
  BY <1>3, <1>6 DEF FlatSteps
<1>8. CASE i = 1
  <2>1. F[i] \in Seq(T) /\ HasAll(q, i, F[i])
    BY <1>6, <1>7, <1>8 DEF HasAll
  <2>2. QED
    BY <2>1
<1>9. CASE i # 1
  <2>1. i - 1 \in 1..n /\ ~(i <= i - 1) /\ i \in Nat
    BY <1>6, <1>9
  <2>2. F[i - 1] \in Seq(T) /\ HasAll(q, i - 1, F[i - 1])
    BY <1>5, <2>1
  <2> DEFINE s == F[i - 1]
             t == q[i]
  <2>3. F[i] = s \o t /\ s \in Seq(T) /\ t \in Seq(T)
    BY <1>6, <1>7, <1>9, <2>2
  <2> HIDE DEF s, t
  <2>4. /\ s \o t \in Seq(T) /\ Len(s \o t) = Len(s) + Len(t)
        /\ Len(s) \in Nat /\ Len(t) \in Nat
        /\ DOMAIN s = 1..Len(s) /\ DOMAIN t = 1..Len(t) /\ DOMAIN (s \o t) = 1..Len(s \o t)
    BY <2>3, ConcatProperties, LenProperties
  <2>5. \A k \in 1..(Len(s) + Len(t)) : (s \o t)[k] = IF k <= Len(s) THEN s[k] ELSE t[k - Len(s)]
    BY <2>3, ConcatProperties
  <2>6. \A k \in DOMAIN s : k \in DOMAIN (s \o t) /\ (s \o t)[k] = s[k]
    BY <2>4, <2>5
  <2>7. \A k \in DOMAIN t : Len(s) + k \in DOMAIN (s \o t) /\ (s \o t)[Len(s) + k] = t[k]
    BY <2>4, <2>5
  <2>8. HasAll(q, i, s \o t)
    <3>1. SUFFICES ASSUME NEW h \in 1..i, NEW j \in DOMAIN q[h]
                   PROVE  \E k \in DOMAIN (s \o t) : (s \o t)[k] = q[h][j]
      BY DEF HasAll
    <3>2. CASE h = i
      BY <2>7, <3>2 DEF t
    <3>3. CASE h # i
      <4>1. h \in 1..(i - 1)
        BY <2>1, <3>3
      <4>2. PICK k \in DOMAIN s : s[k] = q[h][j]
        BY <2>2, <4>1 DEF HasAll, s
      <4>3. QED
        BY <2>6, <4>2
    <3>4. QED
      BY <3>2, <3>3
  <2>9. QED
    BY <2>3, <2>4, <2>8
<1>10. QED
  BY <1>8, <1>9

-----------------------------------------------------------------------------
(* The tables of a request.                                                *)

\* A payment that a rejection has reset is on hold in every committed state:
\* the hold commits with the new reference, or a hold was there and no handler
\* lifts it (processInvalid).
THEOREM RejectedHeld == Spec => []RejectedIsHeld
<1> DEFINE Inv == TypeInv /\ HeldInv
<1>1. Init => Inv
  BY ComponentsInit, TypeInitially, HeldInitially
<1>2. Inv /\ [Next]_vars => Inv'
  BY TablesStep, TypeKept, HeldKept
<1>3. Inv => RejectedIsHeld
  BY DEF HeldInv
<1>4. QED
  BY <1>1, <1>2, <1>3, PTL DEF Spec

\* Without an outage and without another writer the removal of an agreement
\* never breaks a foreign key, however many rows it finds
\* (removeAgreementData).
THEOREM RemovalOrderSuffices == Spec => []RetentionFailsOnlyIfRaced
<1> DEFINE Inv == TypeInv /\ RetentionInv
<1>1. Init => Inv
  BY ComponentsInit, TypeInitially, RetentionInitially
<1>2. Inv /\ [Next]_vars => Inv'
  BY TablesStep, TypeKept, RetentionKept
<1>3. Inv => RetentionFailsOnlyIfRaced
  BY DEF RetentionInv
<1>4. QED
  BY <1>1, <1>2, <1>3, PTL DEF Spec

\* The lines of a request that count are those of one reply, or those it came
\* in with, however many replies and other handlers are at work at once
\* (updateRequestsAwaitingCrossBorder).
THEOREM OneReplyCounts == Spec => []LinesOfOneReply
<1> DEFINE Inv == TypeInv /\ Locks /\ RequestsInv /\ LinesInv
<1>1. Init => Inv
  BY ComponentsInit, TypeInitially, LocksInitially, RequestsInitially, LinesInitially
<1>2. Inv /\ [Next]_vars => Inv'
  BY TablesStep, TypeKept, LocksKept, RequestsKept, LinesKept
<1>3. Inv => LinesOfOneReply
  BY OneReply
<1>4. QED
  BY <1>1, <1>2, <1>3, PTL DEF Spec

\* As soon as one delivery of an invoice is off its queue there is one request
\* for it, with its lines and a schedule, until retention removes it, however
\* many deliveries there are and whichever of them fails (savePaymentRequest).
THEOREM AcceptedOnce == Spec => []AcceptedIsSaved
<1> DEFINE Inv == TypeInv /\ Locks /\ RequestsInv /\ LinesInv /\ SavedInv
<1>1. Init => Inv
  BY ComponentsInit, TypeInitially, LocksInitially, RequestsInitially, LinesInitially,
     SavedInitially
<1>2. Inv /\ [Next]_vars => Inv'
  BY TablesStep, TypeKept, LocksKept, RequestsKept, LinesKept, SavedKept
<1>3. Inv => AcceptedIsSaved
  BY Accepted
<1>4. QED
  BY <1>1, <1>2, <1>3, PTL DEF Spec

\* When no handler is under way and no reset was cut short, every request has an
\* open schedule or a payment that is not void, whatever resets, rejections and
\* the pod wrote at once (resetPaymentRequestById, ensureScheduled).
THEOREM VoidedScheduledAgain == Spec => []VoidedIsRescheduled
<1> DEFINE Inv == /\ TypeInv /\ Locks /\ HeldInv /\ RequestsInv /\ LinesInv /\ SavedInv
                  /\ RowsInv /\ SettledInv
<1>1. Init => Inv
  BY ComponentsInit, TypeInitially, LocksInitially, HeldInitially, RequestsInitially,
     LinesInitially, SavedInitially, RowsInitially
<1>2. Inv /\ [Next]_vars => Inv'
  BY TablesStep, TypeKept, LocksKept, HeldKept, RequestsKept, LinesKept, SavedKept,
     RowsKept, SettledKept
<1>3. Inv => VoidedIsRescheduled
  BY Rescheduled
<1>4. QED
  BY <1>1, <1>2, <1>3, PTL DEF Spec

-----------------------------------------------------------------------------
(* The queue of the metrics.  The flag says whether a loop is under way:   *)
(* it is at its query or at its pause, never at both.                      *)

LoopInv ==
    /\ looking \in Nat /\ pausing \in Nat
    /\ \/ processing = TRUE /\ looking + pausing = 1
       \/ processing = FALSE /\ looking + pausing = 0

LEMMA LoopInitially == MetricsInit => LoopInv
  BY DEF MetricsInit, LoopInv

LEMMA LoopKept == LoopInv /\ (MetricsNext \/ UNCHANGED metricsVars) => LoopInv'
<1> SUFFICES ASSUME LoopInv, MetricsNext \/ UNCHANGED metricsVars
             PROVE  LoopInv'
  OBVIOUS
<1> USE DEF LoopInv
<1>1. CASE UNCHANGED queueVars
  BY <1>1 DEF queueVars
<1>2. ASSUME NEW c \in Callers, NEW q \in Queries, HandleMetricsRequest(c, q)
      PROVE  LoopInv'
  <2>1. CASE Enqueue(c, q)
    BY <2>1 DEF Enqueue, AlreadyProcessing, queueVars
  <2>2. QED
    BY <1>2, <1>1, <2>1 DEF HandleMetricsRequest
<1>3. CASE CalculationEnds
  <2>1. looking > 0 /\ looking' = looking - 1
    BY <1>3 DEF CalculationEnds
  <2>2. \/ pausing' = pausing + 1 /\ processing' = processing
        \/ processing' = FALSE /\ pausing' = pausing
    BY <1>3, Zenon DEF CalculationEnds, KeepsGoing
  <2>3. QED
    BY <2>1, <2>2
<1>4. CASE PauseEnds
  BY <1>4 DEF PauseEnds
<1>5. QED
  <2>1. CASE UNCHANGED metricsVars
    BY <2>1, <1>1 DEF metricsVars
  <2>2. CASE StartRun \/ CalculateMetricsForPeriod \/ RunFails
    BY <2>2, <1>1 DEF StartRun, CalculateMetricsForPeriod, RunFails
  <2>3. ASSUME NEW r \in results, SaveMetric(r)
        PROVE  LoopInv'
    BY <2>3, <1>1 DEF SaveMetric
  <2>4. ASSUME NEW c \in Callers, FetchSnapshotDate(c) \/ FetchMetrics(c)
        PROVE  LoopInv'
    BY <2>4, <1>1 DEF FetchSnapshotDate, FetchMetrics
  <2>5. QED
    BY <1>2, <1>3, <1>4, <2>1, <2>2, <2>3, <2>4 DEF MetricsNext

\* However many clients ask at once, one query of the queue is out at a time
\* (MetricsCalculationQueue.processQueue).
THEOREM OneLoop == Spec => []OneCalculationAtATime
<1>1. Init => LoopInv
  BY ComponentsInit, LoopInitially
<1>2. LoopInv /\ [Next]_vars => LoopInv'
  BY MetricsStep, LoopKept
<1>3. LoopInv => OneCalculationAtATime
  BY DEF LoopInv, OneCalculationAtATime
<1>4. QED
  BY <1>1, <1>2, <1>3, PTL DEF Spec

-----------------------------------------------------------------------------
(* The figures.  An answer lists a sum for every scheme and a total, both  *)
(* over the same rows: summing by scheme is summing in another order.      *)

LEMMA SumFunctionIsSum ==
  ASSUME NEW f
  PROVE  SumFunction(f) = SumOf(f, DOMAIN f)
  BY DEF SumFunction, SumFunctionOnSet, FoldFunctionOnSet, SumOf, MapThenSumSet

\* Rows with figures that can be summed.
Figures(rows) ==
    /\ IsFiniteSet(rows)
    /\ \A row \in rows : row.payments \in Int /\ row.value \in Int

\* The opposite of a sum is the sum of the opposites.
LEMMA SumShown ==
  ASSUME NEW rows, Figures(rows), NEW s, \A row \in rows : row.scheme = s
  PROVE  ParseMetricValue(SumFunction([row \in rows |-> row.value]), s)
            = SumOf([row \in rows |-> ParseMetricValue(row.value, row.scheme)], rows)
<1> DEFINE f == [row \in rows |-> row.value]
           h == [row \in rows |-> ParseMetricValue(row.value, row.scheme)]
           z == [row \in rows |-> f[row] - f[row]]
<1>1. /\ SumFunction(f) = SumOf(f, rows)
      /\ \A row \in rows : f[row] \in Int /\ z[row] = f[row] - f[row] /\ z[row] \in Int
      /\ \A row \in rows : h[row] = IF s = "FPTT" THEN z[row] - f[row] ELSE f[row]
  BY SumFunctionIsSum DEF Figures, ParseMetricValue
<1>2. IsFiniteSet(rows)
  BY DEF Figures
<1> HIDE DEF f, h, z
<1>3. SumOf(f, rows) \in Int /\ SumOf(z, rows) = SumOf(f, rows) - SumOf(f, rows)
  BY <1>1, <1>2, SumMinus, SumType
<1>4. CASE s = "FPTT"
  <2>1. SumOf(h, rows) = SumOf(z, rows) - SumOf(f, rows)
    BY <1>1, <1>2, <1>4, SumMinus
  <2>2. QED
    BY <1>1, <1>3, <1>4, <2>1 DEF ParseMetricValue, f, h
<1>5. CASE s # "FPTT"
  <2>1. SumOf(h, rows) = SumOf(f, rows)
    BY <1>1, <1>2, <1>5, SumSame
  <2>2. QED
    BY <1>1, <1>5, <2>1 DEF ParseMetricValue, f, h
<1>6. QED
  BY <1>4, <1>5

\* What one answer lists.
LEMMA AnswerAddsUp ==
  ASSUME NEW rows, Figures(rows)
  PROVE  LET listed == MapSchemeMetrics(AggregateByScheme(rows))
         IN  CalculateTotals(rows) = <<SumFunction([m \in listed |-> m.payments]),
                                       SumFunction([m \in listed |-> m.value])>>
<1> DEFINE key == [row \in rows |-> row.scheme]
           K == {key[row] : row \in rows}
           Mine(s) == {row \in rows : row.scheme = s}
           pay == [row \in rows |-> row.payments]
           shown == [row \in rows |-> ParseMetricValue(row.value, row.scheme)]
           P == [s \in K |-> SumFunction([row \in Mine(s) |-> row.payments])]
           V == [s \in K |-> ParseMetricValue(
                                SumFunction([row \in Mine(s) |-> row.value]), s)]
           entry == [s \in K |-> [scheme |-> s, payments |-> P[s], value |-> V[s]]]
           listed == MapSchemeMetrics(AggregateByScheme(rows))
           p == [m \in listed |-> m.payments]
           v == [m \in listed |-> m.value]
<1>1. listed = {entry[s] : s \in K}
  <2>1. K = {row.scheme : row \in rows}
    OBVIOUS
  <2> DEFINE kept == [s \in K |->
                 [scheme |-> s,
                  payments |-> SumFunction([row \in Mine(s) |-> row.payments]),
                  value |-> SumFunction([row \in Mine(s) |-> row.value])]]
             Shown(m) == [m EXCEPT !.value = ParseMetricValue(m.value, m.scheme)]
  <2>2. AggregateByScheme(rows) = {kept[s] : s \in K}
    BY <2>1 DEF AggregateByScheme
  <2>3. ASSUME NEW s \in K PROVE Shown(kept[s]) = entry[s]
    <3> DEFINE paid == SumFunction([row \in Mine(s) |-> row.payments])
               worth == SumFunction([row \in Mine(s) |-> row.value])
    <3>1. /\ kept[s] = [scheme |-> s, payments |-> paid, value |-> worth]
          /\ entry[s] = [scheme |-> s, payments |-> paid,
                         value |-> ParseMetricValue(worth, s)]
      OBVIOUS
    <3> HIDE DEF kept, entry, paid, worth
    <3>2. QED
      BY <3>1
  <2>4. listed = {Shown(m) : m \in AggregateByScheme(rows)}
    BY DEF MapSchemeMetrics
  <2> HIDE DEF kept, entry, K, Shown, listed
  <2>5. QED
    BY <2>2, <2>3, <2>4
<1>2. GroupSums(key, pay, rows, P) /\ GroupSums(key, shown, rows, V)
  <2>1. ASSUME NEW s \in {key[row] : row \in rows}
        PROVE  /\ P[s] = SumOf(pay, {row \in rows : key[row] = s})
               /\ V[s] = SumOf(shown, {row \in rows : key[row] = s})
    <3>1. /\ Mine(s) = {row \in rows : key[row] = s} /\ Mine(s) \subseteq rows
          /\ \A row \in Mine(s) : row.scheme = s
      OBVIOUS
    <3>2. /\ P[s] = SumFunction([row \in Mine(s) |-> row.payments])
          /\ V[s] = ParseMetricValue(SumFunction([row \in Mine(s) |-> row.value]), s)
      OBVIOUS
    <3>3. /\ \A row \in Mine(s) : [z \in Mine(s) |-> z.payments][row] = pay[row]
          /\ \A row \in Mine(s) :
                [z \in Mine(s) |-> ParseMetricValue(z.value, z.scheme)][row] = shown[row]
      OBVIOUS
    <3> HIDE DEF Mine, pay, shown, P, V, key, K
    <3>4. Figures(Mine(s)) /\ IsFiniteSet(Mine(s))
      BY <3>1, FS_Subset DEF Figures
    <3>5. P[s] = SumOf([row \in Mine(s) |-> row.payments], Mine(s))
      BY <3>2, SumFunctionIsSum
    <3>6. V[s] = SumOf([row \in Mine(s) |-> ParseMetricValue(row.value, row.scheme)], Mine(s))
      BY <3>1, <3>2, <3>4, SumShown
    <3>7. P[s] = SumOf(pay, Mine(s)) /\ V[s] = SumOf(shown, Mine(s))
      BY <3>3, <3>4, <3>5, <3>6, SumSame
    <3>8. QED
      BY <3>1, <3>7
  <2> HIDE DEF key, pay, shown, P, V
  <2>2. QED
    BY <2>1 DEF GroupSums
<1>3. /\ \A row \in rows : pay[row] \in Int /\ shown[row] \in Int
      /\ IsFiniteSet(rows)
  BY DEF Figures, ParseMetricValue
<1>4. /\ IsFiniteSet(K)
      /\ SumOf(P, K) = SumOf(pay, rows)
      /\ SumOf(V, K) = SumOf(shown, rows)
  <2> HIDE DEF key, pay, shown, P, V
  <2>1. QED
    BY <1>2, <1>3, SumByGroup
<1>5. ASSUME NEW s \in K
      PROVE  P[s] \in Int /\ V[s] \in Int
  <2>1. /\ P[s] = SumOf(pay, {row \in rows : key[row] = s})
        /\ V[s] = SumOf(shown, {row \in rows : key[row] = s})
    <3> HIDE DEF key, pay, shown, P, V
    <3>1. QED
      BY <1>2 DEF GroupSums
  <2>2. /\ IsFiniteSet({row \in rows : key[row] = s})
        /\ \A row \in {row \in rows : key[row] = s} : row \in rows
    BY <1>3, FS_Subset
  <2> HIDE DEF key, pay, shown, P, V
  <2>3. QED
    BY <1>3, <2>1, <2>2, SumType
<1>6. Renames(entry, P, p, K) /\ Renames(entry, V, v, K)
  <2>1. \A s \in K : /\ entry[s] \in listed
                     /\ p[entry[s]] = entry[s].payments /\ v[entry[s]] = entry[s].value
    <3>1. \A s \in K : entry[s] \in listed
      <4> HIDE DEF entry, listed, K
      <4>1. QED
        BY <1>1
    <3> HIDE DEF listed, entry
    <3>2. QED
      BY <3>1
  <2>2. \A s \in K : /\ entry[s].payments = P[s] /\ entry[s].value = V[s]
                     /\ entry[s].scheme = s
    OBVIOUS
  <2> HIDE DEF entry, P, V, p, v, K
  <2>3. QED
    BY <1>5, <2>1, <2>2 DEF Renames
<1>7. /\ SumOf(p, {entry[s] : s \in K}) = SumOf(P, K)
      /\ SumOf(v, {entry[s] : s \in K}) = SumOf(V, K)
  <2> HIDE DEF entry, P, V, p, v, K
  <2>1. QED
    BY <1>4, <1>6, SumRenamed
<1>8. SumFunction(p) = SumOf(p, listed) /\ SumFunction(v) = SumOf(v, listed)
  <2>1. DOMAIN p = listed /\ DOMAIN v = listed
    OBVIOUS
  <2> HIDE DEF p, v, listed
  <2>2. QED
    BY <2>1, SumFunctionIsSum
<1>9. SumFunction(pay) = SumOf(pay, rows) /\ SumFunction(shown) = SumOf(shown, rows)
  <2>1. DOMAIN pay = rows /\ DOMAIN shown = rows
    OBVIOUS
  <2> HIDE DEF pay, shown
  <2>2. QED
    BY <2>1, SumFunctionIsSum
<1>10. CalculateTotals(rows) = <<SumFunction(pay), SumFunction(shown)>>
  BY DEF CalculateTotals
<1>11. SumFunction(pay) = SumFunction(p) /\ SumFunction(shown) = SumFunction(v)
  <2> HIDE DEF pay, shown, p, v, entry, listed, P, V, K
  <2>1. QED
    BY <1>1, <1>4, <1>7, <1>8, <1>9
<1>12. QED
  <2>1. CalculateTotals(rows) = <<SumFunction(p), SumFunction(v)>>
    <3> HIDE DEF pay, shown, p, v
    <3>1. QED
      BY <1>10, <1>11
  <2>2. QED
    BY <2>1

\* What a calculation finds and what is saved of it can be summed, and an answer
\* adds up.
FiguresInv ==
    /\ IsFiniteSet(DOMAIN recorded)
    /\ \A i \in DOMAIN recorded : recorded[i].value \in Int
    /\ Figures(results)
    /\ Figures(metric)
    /\ DOMAIN caller = Callers
    /\ \A c \in Callers : DOMAIN caller[c] = DOMAIN NotCalling
    /\ TotalsMatchSchemes

LEMMA ValueIsInteger ==
  ASSUME FiguresInv, NEW rs, rs \subseteq DOMAIN recorded
  PROVE  Value(rs) \in Int
<1> DEFINE f == [i \in rs |-> recorded[i].value]
<1>1. IsFiniteSet(rs) /\ \A i \in rs : f[i] \in Int
  BY FS_Subset DEF FiguresInv
<1>2. SumFunction(f) = SumOf(f, rs)
  BY SumFunctionIsSum
<1> HIDE DEF f
<1>3. SumOf(f, rs) \in Int
  BY <1>1, SumType
<1>4. QED
  BY <1>2, <1>3 DEF Value, f

LEMMA FiguresInitially == MetricsInit => FiguresInv
<1> SUFFICES ASSUME MetricsInit PROVE FiguresInv
  OBVIOUS
<1>1. PICK n \in 0..MaxRequests : recorded \in [1..n -> RequestRecords]
  BY DEF MetricsInit
<1>2. IsFiniteSet(DOMAIN recorded) /\ IsFiniteSet({})
  BY <1>1, FS_Interval, FS_EmptySet
<1>3. \A i \in DOMAIN recorded : recorded[i].value \in Int
  BY <1>1 DEF RequestRecords
<1>4. ASSUME NEW c \in Callers
      PROVE  caller[c].totals = <<0, 0>> /\ caller[c].schemes = {}
  BY DEF MetricsInit, NotCalling
<1>5. SumFunction([m \in {} |-> m.payments]) = 0 /\ SumFunction([m \in {} |-> m.value]) = 0
  BY SumFunctionIsSum, SumEmpty
<1>6. TotalsMatchSchemes
  BY <1>4, <1>5 DEF TotalsMatchSchemes
<1>7. DOMAIN caller = Callers /\ \A c \in Callers : DOMAIN caller[c] = DOMAIN NotCalling
  BY DEF MetricsInit, NotCalling
<1>8. QED
  BY <1>2, <1>3, <1>6, <1>7 DEF FiguresInv, Figures, MetricsInit

LEMMA CalculationFigures ==
  ASSUME FiguresInv, NEW c
  PROVE  Figures(FetchMetricsData(c))
<1> DEFINE I == InRange(c)
           group == [i \in I |-> GroupOf(c, recorded[i])]
           J == {group[i] : i \in I}
           Members(g) == {i \in I : GroupOf(c, recorded[i]) = g}
           processed(g) == {i \in Members(g) : IsProcessed(recorded[i])}
           pending(g) == {i \in Members(g) : IsPending(recorded[i])}
           entry == [g \in J |->
              [group |-> g,
               payments |-> Cardinality(Members(g)), value |-> Value(Members(g)),
               pending |-> Cardinality(pending(g)), pendingValue |-> Value(pending(g)),
               processed |-> Cardinality(processed(g)),
               settled |-> Cardinality({i \in Members(g) : IsSettled(recorded[i])}),
               onHold |-> FetchHoldsData(c, g)]]
<1>1. FetchMetricsData(c) = {entry[g] : g \in J}
  <2>1. J = {GroupOf(c, recorded[i]) : i \in I}
    OBVIOUS
  <2>2. FetchMetricsData(c) = {entry[g] : g \in {GroupOf(c, recorded[i]) : i \in I}}
    BY <2>1 DEF FetchMetricsData
  <2> HIDE DEF entry, J
  <2>3. QED
    BY <2>1, <2>2
<1>2. \A g \in J : entry[g].payments = Cardinality(Members(g)) /\ entry[g].value = Value(Members(g))
  OBVIOUS
<1>3. \A g : Members(g) \subseteq DOMAIN recorded
  BY DEF InRange
<1>4. I \subseteq DOMAIN recorded
  BY DEF InRange
<1> HIDE DEF Members, entry
<1>5. ASSUME NEW g \in J
      PROVE  entry[g].payments \in Int /\ entry[g].value \in Int
  <2>1. IsFiniteSet(Members(g)) /\ Cardinality(Members(g)) \in Nat
    BY <1>3, FS_Subset, FS_CardinalityType DEF FiguresInv
  <2>2. QED
    BY <1>2, <1>3, <2>1, ValueIsInteger
<1>6. IsFiniteSet({entry[g] : g \in J})
  <2>1. IsFiniteSet(I)
    BY <1>4, FS_Subset DEF FiguresInv
  <2>2. group \in Surjection(I, J)
    BY DEF Surjection
  <2>3. IsFiniteSet(J)
    <3> HIDE DEF group, I, J
    <3>1. QED
      BY <2>1, <2>2, FS_Surjection
  <2> DEFINE F == [g \in J |-> entry[g]]
             R == {entry[g] : g \in J}
  <2> HIDE DEF J
  <2>4. F \in Surjection(J, R)
    BY DEF Surjection
  <2> HIDE DEF F, R
  <2>5. IsFiniteSet(R)
    BY <2>3, <2>4, FS_Surjection
  <2>6. QED
    BY <2>5 DEF R
<1> HIDE DEF J
<1>7. QED
  BY <1>1, <1>5, <1>6 DEF Figures

LEMMA FiguresKept ==
  FiguresInv /\ (MetricsNext \/ UNCHANGED metricsVars) => FiguresInv'
<1> SUFFICES ASSUME FiguresInv, MetricsNext \/ UNCHANGED metricsVars
             PROVE  FiguresInv'
  OBVIOUS
<1>1. ASSUME NEW c \in Callers, NEW d, DOMAIN d = DOMAIN NotCalling,
             d.totals = <<SumFunction([m \in d.schemes |-> m.payments]),
                          SumFunction([m \in d.schemes |-> m.value])>>,
             caller' = [caller EXCEPT ![c] = d], UNCHANGED runVars
      PROVE  FiguresInv'
  BY <1>1 DEF FiguresInv, Figures, TotalsMatchSchemes, runVars
<1>2. CASE UNCHANGED <<caller, recorded, metric, results>>
  BY <1>2 DEF FiguresInv, Figures, TotalsMatchSchemes
<1>3. CASE UNCHANGED metricsVars \/ StartRun \/ PauseEnds
  BY <1>2, <1>3 DEF metricsVars, runVars, StartRun, PauseEnds
<1>4. CASE CalculateMetricsForPeriod
  <2>1. results' = FetchMetricsData(Head(plan)) /\ UNCHANGED <<caller, recorded, metric>>
    BY <1>4 DEF CalculateMetricsForPeriod
  <2>2. QED
    BY <2>1, CalculationFigures DEF FiguresInv, TotalsMatchSchemes
<1>5. CASE RunFails
  <2>1. IsFiniteSet({})
    BY FS_EmptySet
  <2>2. QED
    BY <1>5, <2>1 DEF RunFails, FiguresInv, Figures, TotalsMatchSchemes
<1>6. ASSUME NEW r \in results, SaveMetric(r) PROVE FiguresInv'
  <2> DEFINE kept == {row \in metric : ~SameKey(row, Head(plan), r.group.scheme)}
  <2> DEFINE c == Head(plan)
             saved == [period |-> c.period, scheme |-> r.group.scheme, year |-> c.year,
                       month |-> IF c.period = "monthInYear" THEN c.month ELSE NoMonth,
                       snapshot |-> day, payments |-> r.payments, value |-> r.value,
                       pending |-> r.pending, pendingValue |-> r.pendingValue,
                       processed |-> r.processed, settled |-> r.settled,
                       onHold |-> r.onHold]
  <2>1. PICK row : /\ metric' = kept \cup {row}
                   /\ row.payments = r.payments /\ row.value = r.value
    <3>1. metric' = kept \cup {saved}
      BY <1>6 DEF SaveMetric
    <3>2. saved.payments = r.payments /\ saved.value = r.value
      OBVIOUS
    <3> HIDE DEF kept, saved
    <3>3. QED
      BY <3>1, <3>2
  <2>2. results' = results \ {r} /\ UNCHANGED <<caller, recorded>>
    BY <1>6 DEF SaveMetric
  <2>3. kept \subseteq metric
    OBVIOUS
  <2> HIDE DEF kept
  <2>4. IsFiniteSet(kept \cup {row}) /\ IsFiniteSet(results \ {r})
    BY <2>3, FS_Subset, FS_AddElement, FS_RemoveElement DEF FiguresInv, Figures
  <2>5. QED
    BY <2>1, <2>2, <2>3, <2>4 DEF FiguresInv, Figures, TotalsMatchSchemes
<1>7. CASE CalculationEnds
  <2>1. /\ DOMAIN caller' = Callers
        /\ \A c \in Callers : /\ DOMAIN caller'[c] = DOMAIN caller[c]
                              /\ caller'[c].totals = caller[c].totals
                              /\ caller'[c].schemes = caller[c].schemes
    BY <1>7 DEF CalculationEnds
  <2>2. UNCHANGED <<recorded, metric, results>>
    BY <1>7 DEF CalculationEnds, runVars
  <2>3. QED
    BY <2>1, <2>2 DEF FiguresInv, Figures, TotalsMatchSchemes
<1>8. ASSUME NEW c \in Callers
      PROVE  /\ DOMAIN caller[c] = DOMAIN NotCalling
             /\ {"totals", "schemes", "state"} \subseteq DOMAIN caller[c]
             /\ caller[c].totals = <<SumFunction([m \in caller[c].schemes |-> m.payments]),
                                     SumFunction([m \in caller[c].schemes |-> m.value])>>
  BY DEF FiguresInv, TotalsMatchSchemes, NotCalling
<1>9. /\ NotCalling.totals = <<0, 0>> /\ NotCalling.schemes = {}
      /\ SumFunction([m \in {} |-> m.payments]) = 0 /\ SumFunction([m \in {} |-> m.value]) = 0
  BY SumFunctionIsSum, SumEmpty DEF NotCalling
<1>10. ASSUME NEW c \in Callers, NEW q \in Queries, HandleMetricsRequest(c, q)
       PROVE  FiguresInv'
  <2>1. UNCHANGED runVars
    BY <1>10 DEF HandleMetricsRequest
  <2>2. CASE ~ValidQuery(q)
    <3> DEFINE d == [NotCalling EXCEPT !.state = "badRequest"]
    <3>1. /\ DOMAIN d = DOMAIN NotCalling
          /\ d.totals = <<0, 0>> /\ d.schemes = {}
      BY <1>9
    <3>2. caller' = [caller EXCEPT ![c] = d]
      BY <1>10, <2>2 DEF HandleMetricsRequest
    <3> HIDE DEF d
    <3>3. QED
      BY <1>1, <1>9, <2>1, <3>1, <3>2
  <2>3. CASE ValidQuery(q) /\ q.period \in {"year", "monthInYear"}
    <3> DEFINE d == [caller[c] EXCEPT !.state = "waiting", !.query = q]
    <3>1. /\ DOMAIN d = DOMAIN NotCalling
          /\ d.totals = caller[c].totals /\ d.schemes = caller[c].schemes
      BY <1>8
    <3>2. caller' = [caller EXCEPT ![c] = d]
      BY <1>10, <2>3 DEF HandleMetricsRequest, Enqueue
    <3> HIDE DEF d
    <3>3. QED
      BY <1>1, <1>8, <2>1, <3>1, <3>2
  <2>4. CASE ValidQuery(q) /\ q.period \notin {"year", "monthInYear"}
    <3> DEFINE d == [NotCalling EXCEPT !.state = "reading", !.query = q]
    <3>1. /\ DOMAIN d = DOMAIN NotCalling
          /\ d.totals = <<0, 0>> /\ d.schemes = {}
      BY <1>9
    <3>2. caller' = [caller EXCEPT ![c] = d]
      BY <1>10, <2>4 DEF HandleMetricsRequest
    <3> HIDE DEF d
    <3>3. QED
      BY <1>1, <1>9, <2>1, <3>1, <3>2
  <2>5. QED
    BY <2>2, <2>3, <2>4
<1>11. ASSUME NEW c \in Callers, FetchSnapshotDate(c)
       PROVE  FiguresInv'
  <2> DEFINE date == Max({row.snapshot : row \in Selected(caller[c].query)} \cup {0})
             d == [caller[c] EXCEPT !.date = date, !.state = "fetching"]
  <2>1. caller' = [caller EXCEPT ![c] = d] /\ UNCHANGED runVars
    BY <1>11 DEF FetchSnapshotDate
  <2>2. /\ DOMAIN d = DOMAIN NotCalling
        /\ d.totals = caller[c].totals /\ d.schemes = caller[c].schemes
    <3> HIDE DEF date
    <3>1. QED
      BY <1>8
  <2> HIDE DEF d
  <2>3. QED
    BY <1>1, <1>8, <2>1, <2>2
<1>12. ASSUME NEW c \in Callers, FetchMetrics(c)
       PROVE  FiguresInv'
  <2> DEFINE q == caller[c].query
             rows == {row \in Selected(q) :
                         /\ row.snapshot = caller[c].date
                         /\ q.month # NoMonth => row.month = q.month}
             totals == CalculateTotals(rows)
             listed == MapSchemeMetrics(AggregateByScheme(rows))
             d == [caller[c] EXCEPT !.totals = totals, !.schemes = listed,
                                    !.state = "answered"]
  <2>1. caller' = [caller EXCEPT ![c] = d] /\ UNCHANGED runVars
    BY <1>12 DEF FetchMetrics
  <2>2. rows \subseteq metric
    BY DEF Selected
  <2>3. totals = <<SumFunction([m \in listed |-> m.payments]),
                   SumFunction([m \in listed |-> m.value])>>
    <3> HIDE DEF rows
    <3>1. Figures(rows)
      BY <2>2, FS_Subset DEF FiguresInv, Figures
    <3>2. QED
      BY <3>1, AnswerAddsUp
  <2>4. /\ DOMAIN d = DOMAIN NotCalling /\ d.totals = totals /\ d.schemes = listed
    <3> HIDE DEF totals, listed
    <3>1. QED
      BY <1>8
  <2> HIDE DEF d, totals, listed
  <2>5. QED
    BY <1>1, <2>1, <2>3, <2>4
<1>13. QED
  BY <1>3, <1>4, <1>5, <1>6, <1>7, <1>10, <1>11, <1>12 DEF MetricsNext

\* The totals of an answer are the sums over the schemes it lists, with the sign
\* that each is shown with, whatever was saved between the two queries the
\* answer is made from (fetchMetrics, processMetrics).
THEOREM AnswersAddUp == Spec => []TotalsMatchSchemes
<1>1. Init => FiguresInv
  BY ComponentsInit, FiguresInitially
<1>2. FiguresInv /\ [Next]_vars => FiguresInv'
  BY MetricsStep, FiguresKept
<1>3. FiguresInv => TotalsMatchSchemes
  BY DEF FiguresInv
<1>4. QED
  BY <1>1, <1>2, <1>3, PTL DEF Spec

-----------------------------------------------------------------------------
(* What the nightly calculation saves.  As long as the run has not failed, *)
(* a request is counted in what is saved for all time, for its year and    *)
(* for its month, or the run has the calculation for it still to make.     *)

\* What a remainder says of a division.
LEMMA Division ==
    ASSUME NEW m \in Nat \ {0}, NEW t \in Nat
    PROVE  /\ t \div m \in Nat /\ t % m \in 0..(m - 1)
           /\ t = (t \div m) * m + (t % m)
<1>1. t \div m \in Nat
  OBVIOUS
<1>2. t % m \in 0..(m - 1)
  OBVIOUS
<1>3. t = (t \div m) * m + (t % m)
  OBVIOUS
<1>4. QED
  BY <1>1, <1>2, <1>3

\* Multiples are as far apart as what they are multiples of.
LEMMA NextMultiple ==
    ASSUME NEW m \in Nat \ {0}, NEW a \in Nat, NEW b \in Nat, a < b
    PROVE  a * m + m <= b * m
  OBVIOUS

\* Time t is in the year and the month of the year whose range it is in.
LEMMA RangeOfYear ==
    ASSUME NEW t \in Nat, NEW y \in Nat
    PROVE  y * MonthsPerYear <= t /\ t < (y + 1) * MonthsPerYear <=> YearOf(t) = y
<1> DEFINE m == MonthsPerYear
           d == t \div m
           r == t % m
<1>1. m \in Nat \ {0}
  BY MetricsAssumption
<1>2. d \in Nat /\ r \in 0..(m - 1) /\ t = d * m + r
  BY <1>1, Division
<1> HIDE DEF m, d, r
<1>3. (y + 1) * m = y * m + m /\ y * m \in Nat /\ d * m \in Nat
  BY <1>1, <1>2
<1>4. ASSUME d < y
      PROVE  d * m + m <= y * m
  BY <1>1, <1>2, <1>4, NextMultiple
<1>5. ASSUME y < d
      PROVE  y * m + m <= d * m
  BY <1>1, <1>2, <1>5, NextMultiple
<1>6. y * m <= t /\ t < (y + 1) * m <=> d = y
  <2>1. CASE d < y
    <3>1. d * m + m <= y * m
      BY <1>4, <2>1
    <3>2. QED
      BY <1>1, <1>2, <1>3, <2>1, <3>1
  <2>2. CASE y < d
    <3>1. y * m + m <= d * m
      BY <1>5, <2>2
    <3>2. QED
      BY <1>1, <1>2, <1>3, <2>2, <3>1
  <2>3. CASE d = y
    BY <1>1, <1>2, <1>3, <2>3
  <2>4. QED
    BY <1>2, <2>1, <2>2, <2>3
<1>7. QED
  BY <1>6 DEF YearOf, m, d

\* Likewise for a month of a year; the range of the last month ends with the year.
LEMMA RangeOfMonth ==
    ASSUME NEW t \in Nat, NEW y \in Nat, NEW n \in 1..MonthsPerYear
    PROVE  /\ y * MonthsPerYear + n - 1 <= t
           /\ t < (IF n = MonthsPerYear THEN (y + 1) * MonthsPerYear
                   ELSE y * MonthsPerYear + n)
           <=> YearOf(t) = y /\ MonthOf(t) = n
<1> DEFINE m == MonthsPerYear
           d == t \div m
           r == t % m
<1>1. m \in Nat \ {0} /\ n \in 1..m
  BY MetricsAssumption
<1>2. d \in Nat /\ r \in 0..(m - 1) /\ t = d * m + r
  BY <1>1, Division
<1>3. YearOf(t) = d /\ MonthOf(t) = r + 1
  BY DEF YearOf, MonthOf
<1> HIDE DEF m, d, r
<1>4. (y + 1) * m = y * m + m /\ y * m \in Nat /\ d * m \in Nat
  BY <1>1, <1>2
<1>5. (IF n = m THEN (y + 1) * m ELSE y * m + n) = y * m + n
  BY <1>1, <1>4
<1>6. y * m + n - 1 <= t /\ t < y * m + n <=> d = y /\ r + 1 = n
  <2>1. CASE d < y
    <3>1. d * m + m <= y * m
      BY <1>1, <1>2, <2>1, NextMultiple
    <3>2. QED
      BY <1>1, <1>2, <1>4, <2>1, <3>1
  <2>2. CASE y < d
    <3>1. y * m + m <= d * m
      BY <1>1, <1>2, <2>2, NextMultiple
    <3>2. QED
      BY <1>1, <1>2, <1>4, <2>2, <3>1
  <2>3. CASE d = y
    BY <1>1, <1>2, <1>4, <2>3
  <2>4. QED
    BY <1>2, <2>1, <2>2, <2>3
<1>7. QED
  BY <1>3, <1>5, <1>6 DEF m

\* What a run may calculate.
Calculations ==
    {c \in [period : VALID_PERIODS, year : Nat, month : 0..MonthsPerYear] :
        /\ c.period = "all" => c.year = NoYear
        /\ c.month = NoMonth <=> c.period # "monthInYear"}

\* The calculations that count request i.
CalculationFor(p, i) ==
    Calculation(p, IF p = "all" THEN NoYear ELSE YearOf(recorded[i].received),
                IF p = "monthInYear" THEN MonthOf(recorded[i].received) ELSE NoMonth)

\* Requests have come in by now.
RequestsRecorded ==
    /\ recorded \in Seq(RequestRecords)
    /\ \A i \in DOMAIN recorded : recorded[i].received \in 0..Now

\* A request came in in a month of a year.
LEMMA WhenReceived ==
    ASSUME RequestsRecorded, NEW i \in DOMAIN recorded
    PROVE  /\ recorded[i].received \in Nat /\ recorded[i].received < Now + 1
           /\ YearOf(recorded[i].received) \in Nat
           /\ MonthOf(recorded[i].received) \in 1..MonthsPerYear
<1> DEFINE t == recorded[i].received
           m == MonthsPerYear
<1>1. m \in Nat \ {0} /\ t \in Nat /\ t < Now + 1
  BY MetricsAssumption DEF RequestsRecorded
<1> HIDE DEF m, t
<1>2. t \div m \in Nat /\ t % m \in 0..(m - 1)
  BY <1>1, Division
<1>3. (t % m) + 1 \in 1..m
  BY <1>1, <1>2
<1>4. QED
  BY <1>1, <1>2, <1>3 DEF YearOf, MonthOf, m, t

\* The periods that every run calculates.
LEMMA BasicPeriods == CalculateBasicPeriods \in Seq(Calculations)
<1>1. /\ Calculation("all", NoYear, NoMonth) \in Calculations
      /\ Calculation("ytd", NoYear, NoMonth) \in Calculations
      /\ Calculation("month", NoYear, NoMonth) \in Calculations
      /\ Calculation("week", NoYear, NoMonth) \in Calculations
      /\ Calculation("day", NoYear, NoMonth) \in Calculations
  BY MetricsAssumption DEF Calculations, Calculation, NoYear, NoMonth, VALID_PERIODS
<1> HIDE DEF Calculation, Calculations
<1>2. QED
  BY <1>1 DEF CalculateBasicPeriods

\* For a year there is a calculation for it and one for each of its months.
LEMMA YearlyMetrics ==
    ASSUME NEW y \in Nat
    PROVE  /\ CalculateYearlyMetrics(y) \in Seq(Calculations)
           /\ 1 \in DOMAIN CalculateYearlyMetrics(y)
           /\ CalculateYearlyMetrics(y)[1] = Calculation("year", y, NoMonth)
           /\ \A m \in 1..MonthsPerYear :
                 /\ m + 1 \in DOMAIN CalculateYearlyMetrics(y)
                 /\ CalculateYearlyMetrics(y)[m + 1] = Calculation("monthInYear", y, m)
<1> DEFINE M == MonthsPerYear
           a == <<Calculation("year", y, NoMonth)>>
           b == [m \in 1..M |-> Calculation("monthInYear", y, m)]
<1>1. M \in Nat \ {0}
  BY MetricsAssumption
<1>2. /\ Calculation("year", y, NoMonth) \in Calculations
      /\ \A m \in 1..M : Calculation("monthInYear", y, m) \in Calculations
  BY <1>1 DEF Calculations, Calculation, NoYear, NoMonth, VALID_PERIODS
<1>3. CalculateYearlyMetrics(y) = a \o b
  BY DEF CalculateYearlyMetrics
<1>4. b \in [1..M -> Calculations]
  BY <1>2
<1>5. /\ a \in Seq(Calculations) /\ Len(a) = 1 /\ a[1] = Calculation("year", y, NoMonth)
      /\ \A m \in 1..M : b[m] = Calculation("monthInYear", y, m)
  <2> HIDE DEF Calculation, Calculations
  <2>1. QED
    BY <1>2
<1> HIDE DEF a, b, M
<1>6. b \in Seq(Calculations) /\ Len(b) = M
  BY <1>1, <1>4, FunctionIsSeq
<1>7. /\ a \o b \in Seq(Calculations) /\ Len(a \o b) = M + 1
      /\ \A k \in 1..(M + 1) : (a \o b)[k] = IF k <= 1 THEN a[k] ELSE b[k - 1]
  BY <1>1, <1>5, <1>6, ConcatProperties
<1>8. DOMAIN (a \o b) = 1..(M + 1)
  BY <1>1, <1>7, LenProperties
<1>9. 1 \in 1..(M + 1) /\ (a \o b)[1] = a[1]
  BY <1>1, <1>7
<1>10. \A m \in 1..M : m + 1 \in 1..(M + 1) /\ (a \o b)[m + 1] = b[m]
  <2> TAKE m \in 1..M
  <2>1. m + 1 \in 1..(M + 1) /\ ~(m + 1 <= 1) /\ (m + 1) - 1 = m
    BY <1>1
  <2>2. QED
    BY <1>7, <2>1
<1>11. QED
  BY <1>3, <1>5, <1>7, <1>8, <1>9, <1>10 DEF M

\* Every year in which a request came in is listed.
LEMMA YearsAreListed ==
    ASSUME RequestsRecorded, recorded # <<>>
    PROVE  \E n \in Nat \ {0} :
              /\ YearsReceived \in [1..n -> Nat]
              /\ \A i \in DOMAIN recorded :
                    \E k \in 1..n : YearsReceived[k] = YearOf(recorded[i].received)
<1> DEFINE years == {YearOf(recorded[i].received) : i \in DOMAIN recorded}
           n == Cardinality(years)
<1>1. years \subseteq Nat
  BY WhenReceived
<1>2. IsFiniteSet(years)
  <2> DEFINE I == DOMAIN recorded
             g == [i \in I |-> YearOf(recorded[i].received)]
  <2>1. IsFiniteSet(I)
    <3>1. I = 1..Len(recorded) /\ Len(recorded) \in Nat
      BY LenProperties DEF RequestsRecorded
    <3>2. QED
      BY <3>1, FS_Interval
  <2>2. g \in Surjection(I, years)
    BY DEF Surjection
  <2> HIDE DEF I, g, years
  <2>3. QED
    BY <2>1, <2>2, FS_Surjection
<1>3. years # {}
  <2>1. 1 \in DOMAIN recorded
    BY LenProperties DEF RequestsRecorded
  <2>2. QED
    BY <2>1
<1>4. YearsReceived = CHOOSE q \in [1..n -> years] : Descending(q)
  BY DEF YearsReceived, Descending
<1> HIDE DEF years
<1>5. YearsReceived \in [1..n -> years] /\ Descending(YearsReceived)
  BY <1>1, <1>2, <1>4, DescendingExists
<1>6. \A x \in years : \E k \in DOMAIN YearsReceived : YearsReceived[k] = x
  BY <1>1, <1>2, <1>5, DescendingIsAll
<1>7. n \in Nat \ {0}
  BY <1>2, <1>3, FS_CardinalityType, FS_EmptySet
<1>8. \A i \in DOMAIN recorded : YearOf(recorded[i].received) \in years
  BY DEF years
<1> HIDE DEF n
<1>9. YearsReceived \in [1..n -> Nat] /\ DOMAIN YearsReceived = 1..n
  BY <1>1, <1>5
<1>10. QED
  BY <1>6, <1>7, <1>8, <1>9

\* A run calculates every period and counts every request in each.
LEMMA PlanIsComplete ==
    ASSUME RequestsRecorded, recorded # <<>>
    PROVE  /\ CalculateAllMetrics \in Seq(Calculations)
           /\ \A i \in DOMAIN recorded, p \in {"all", "year", "monthInYear"} :
                 \E k \in DOMAIN CalculateAllMetrics :
                    CalculateAllMetrics[k] = CalculationFor(p, i)
<1>1. PICK n \in Nat \ {0} :
         /\ YearsReceived \in [1..n -> Nat]
         /\ \A i \in DOMAIN recorded :
               \E k \in 1..n : YearsReceived[k] = YearOf(recorded[i].received)
  BY YearsAreListed
<1> DEFINE q == [i \in DOMAIN YearsReceived |-> CalculateYearlyMetrics(YearsReceived[i])]
           a == CalculateBasicPeriods
           b == FlattenSeq(q)
           s == a \o b
<1>2. q \in [1..n -> Seq(Calculations)]
  BY <1>1, YearlyMetrics
<1>3. b \in Seq(Calculations) /\ HasAll(q, n, b)
  <2> HIDE DEF q
  <2>1. QED
    BY <1>2, FlattenedHasAll
<1>4. a \in Seq(Calculations) /\ Len(a) = 5 /\ a[1] = Calculation("all", NoYear, NoMonth)
  BY BasicPeriods DEF CalculateBasicPeriods
<1>5. CalculateAllMetrics = s
  BY DEF CalculateAllMetrics
<1> HIDE DEF a, b
<1>6. /\ s \in Seq(Calculations) /\ Len(s) = Len(a) + Len(b)
      /\ Len(b) \in Nat
      /\ DOMAIN b = 1..Len(b) /\ DOMAIN s = 1..Len(s)
  BY <1>3, <1>4, ConcatProperties, LenProperties
<1>7. \A k \in 1..(Len(a) + Len(b)) : s[k] = IF k <= Len(a) THEN a[k] ELSE b[k - Len(a)]
  BY <1>3, <1>4, ConcatProperties
<1> HIDE DEF s
<1>8. 1 \in DOMAIN s /\ s[1] = Calculation("all", NoYear, NoMonth)
  BY <1>4, <1>6, <1>7
<1>9. \A k \in DOMAIN b : k + 5 \in DOMAIN s /\ s[k + 5] = b[k]
  BY <1>4, <1>6, <1>7
<1>10. ASSUME NEW i \in DOMAIN recorded
       PROVE  \E k \in DOMAIN s : s[k] = CalculationFor("all", i)
  BY <1>8 DEF CalculationFor
<1>11. ASSUME NEW i \in DOMAIN recorded
       PROVE  /\ \E k \in DOMAIN s : s[k] = CalculationFor("year", i)
              /\ \E k \in DOMAIN s : s[k] = CalculationFor("monthInYear", i)
  <2> DEFINE t == recorded[i].received
             y == YearOf(t)
             m == MonthOf(t)
  <2>1. y \in Nat /\ m \in 1..MonthsPerYear
    BY WhenReceived
  <2>2. PICK h \in 1..n : YearsReceived[h] = y
    BY <1>1
  <2>3. q[h] = CalculateYearlyMetrics(y)
    BY <1>1, <2>2
  <2>4. /\ 1 \in DOMAIN q[h] /\ q[h][1] = Calculation("year", y, NoMonth)
        /\ m + 1 \in DOMAIN q[h] /\ q[h][m + 1] = Calculation("monthInYear", y, m)
    <3> HIDE DEF q, y, m
    <3>1. QED
      BY <2>1, <2>3, YearlyMetrics
  <2> HIDE DEF q
  <2>5. /\ \E k \in DOMAIN b : b[k] = Calculation("year", y, NoMonth)
        /\ \E k \in DOMAIN b : b[k] = Calculation("monthInYear", y, m)
    <3> HIDE DEF y, m
    <3>1. QED
      BY <1>3, <2>4 DEF HasAll
  <2>6. /\ CalculationFor("year", i) = Calculation("year", y, NoMonth)
        /\ CalculationFor("monthInYear", i) = Calculation("monthInYear", y, m)
    BY DEF CalculationFor
  <2> HIDE DEF y, m
  <2>7. QED
    BY <1>9, <2>5, <2>6
<1>12. QED
  BY <1>5, <1>6, <1>10, <1>11

\* The periods that do not depend on the date.
ForAllTime == {"all", "year", "monthInYear"}

\* A calculation covers the requests of its period.
Covers(c, i) ==
    /\ c.period # "all" => YearOf(recorded[i].received) = c.year
    /\ c.period = "monthInYear" => MonthOf(recorded[i].received) = c.month

\* What is in the range of a calculation is what it covers.
LEMMA RangeCovers ==
    ASSUME RequestsRecorded, NEW c \in Calculations, c.period \in ForAllTime,
           NEW i \in DOMAIN recorded
    PROVE  i \in InRange(c) <=> Covers(c, i)
<1> DEFINE t == recorded[i].received
           d == CalculateDateRange(c)
<1>1. t \in Nat /\ t < Now + 1
  BY WhenReceived
<1>2. c.year \in Nat /\ (c.period = "monthInYear" => c.month \in 1..MonthsPerYear)
  BY DEF Calculations, NoMonth
<1>3. i \in InRange(c) <=> d.from <= t /\ t < d.to
  BY DEF InRange
<1>4. CASE c.period = "all"
  <2>1. d.from = 0 /\ d.to = Now + 1
    BY <1>4 DEF CalculateDateRange, Always
  <2> HIDE DEF d, t
  <2>2. QED
    BY <1>1, <1>3, <1>4, <2>1 DEF Covers
<1>5. CASE c.period = "year"
  <2>1. d.from = c.year * MonthsPerYear /\ d.to = (c.year + 1) * MonthsPerYear
    BY <1>5 DEF CalculateDateRange, GetDateRangeForYear
  <2> HIDE DEF d
  <2>2. d.from <= t /\ t < d.to <=> YearOf(t) = c.year
    <3> HIDE DEF t
    <3>1. QED
      BY <1>1, <1>2, <2>1, RangeOfYear
  <2>3. QED
    BY <1>3, <1>5, <2>2 DEF Covers
<1>6. CASE c.period = "monthInYear"
  <2>1. /\ d.from = c.year * MonthsPerYear + c.month - 1
        /\ d.to = IF c.month = MonthsPerYear THEN (c.year + 1) * MonthsPerYear
                  ELSE c.year * MonthsPerYear + c.month
    BY <1>6 DEF CalculateDateRange, GetDateRangeForMonthInYear
  <2> HIDE DEF d
  <2>2. d.from <= t /\ t < d.to <=> YearOf(t) = c.year /\ MonthOf(t) = c.month
    <3> HIDE DEF t
    <3>1. QED
      BY <1>1, <1>2, <1>6, <2>1, RangeOfMonth
  <2>3. QED
    BY <1>3, <1>6, <2>2 DEF Covers
<1>7. QED
  BY <1>4, <1>5, <1>6 DEF ForAllTime

\* The requests that a result is about.
InGroup(c, g) == {i \in InRange(c) : GroupOf(c, recorded[i]) = g}

\* A result gives the figures of the requests it is about.
LEMMA ResultOfGroup ==
    ASSUME NEW c, NEW r \in FetchMetricsData(c)
    PROVE  /\ \E i \in InRange(c) : r.group = GroupOf(c, recorded[i])
           /\ r.payments = Cardinality(InGroup(c, r.group))
           /\ r.value = Value(InGroup(c, r.group))
           /\ r.pending = Cardinality({i \in InGroup(c, r.group) : IsPending(recorded[i])})
           /\ r.processed = Cardinality({i \in InGroup(c, r.group) : IsProcessed(recorded[i])})
<1> DEFINE J == {GroupOf(c, recorded[j]) : j \in InRange(c)}
           Entry(g) ==
               LET rs == {j \in InRange(c) : GroupOf(c, recorded[j]) = g}
                   processed == {j \in rs : IsProcessed(recorded[j])}
                   pending == {j \in rs : IsPending(recorded[j])}
               IN  [group |-> g,
                    payments |-> Cardinality(rs), value |-> Value(rs),
                    pending |-> Cardinality(pending), pendingValue |-> Value(pending),
                    processed |-> Cardinality(processed),
                    settled |-> Cardinality({j \in rs : IsSettled(recorded[j])}),
                    onHold |-> FetchHoldsData(c, g)]
<1>1. FetchMetricsData(c) = {Entry(g) : g \in J}
  BY DEF FetchMetricsData
<1> HIDE DEF J, Entry
<1>2. PICK g \in J : r = Entry(g)
  BY <1>1
<1>3. /\ r.group = g
      /\ r.payments = Cardinality(InGroup(c, g))
      /\ r.value = Value(InGroup(c, g))
      /\ r.pending = Cardinality({i \in InGroup(c, g) : IsPending(recorded[i])})
      /\ r.processed = Cardinality({i \in InGroup(c, g) : IsProcessed(recorded[i])})
  BY <1>2 DEF Entry, InGroup
<1>4. \E i \in InRange(c) : g = GroupOf(c, recorded[i])
  BY DEF J
<1>5. QED
  BY <1>3, <1>4

\* A request in range is in the result for its scheme.
LEMMA GroupHasResult ==
    ASSUME NEW c, NEW i \in InRange(c)
    PROVE  \E r \in FetchMetricsData(c) : r.group.scheme = recorded[i].scheme
<1> DEFINE J == {GroupOf(c, recorded[j]) : j \in InRange(c)}
           e == [g \in J |->
               LET rs == {j \in InRange(c) : GroupOf(c, recorded[j]) = g}
                   processed == {j \in rs : IsProcessed(recorded[j])}
                   pending == {j \in rs : IsPending(recorded[j])}
               IN  [group |-> g,
                    payments |-> Cardinality(rs), value |-> Value(rs),
                    pending |-> Cardinality(pending), pendingValue |-> Value(pending),
                    processed |-> Cardinality(processed),
                    settled |-> Cardinality({j \in rs : IsSettled(recorded[j])}),
                    onHold |-> FetchHoldsData(c, g)]]
           g == GroupOf(c, recorded[i])
<1>1. FetchMetricsData(c) = {e[h] : h \in J}
  BY DEF FetchMetricsData
<1>2. g \in J /\ e[g].group = g
  OBVIOUS
<1>3. g.scheme = recorded[i].scheme
  BY DEF GroupOf
<1> HIDE DEF e, J, g
<1>4. QED
  BY <1>1, <1>2, <1>3

\* A result counts every request of its period and its scheme.
LEMMA ResultCounts ==
    ASSUME RequestsRecorded, NEW c \in Calculations, c.period \in ForAllTime,
           NEW r \in FetchMetricsData(c)
    PROVE  /\ InGroup(c, r.group) =
                 {i \in DOMAIN recorded : r.group.scheme = recorded[i].scheme /\ Covers(c, i)}
           /\ r.pending + r.processed = r.payments
<1> DEFINE rs == InGroup(c, r.group)
           P == {i \in rs : IsPending(recorded[i])}
           Q == {i \in rs : IsProcessed(recorded[i])}
<1>1. InRange(c) = {i \in DOMAIN recorded : Covers(c, i)}
  <2>1. InRange(c) \subseteq DOMAIN recorded
    BY DEF InRange
  <2>2. QED
    BY <2>1, RangeCovers
<1>2. PICK j \in InRange(c) : r.group = GroupOf(c, recorded[j])
  BY ResultOfGroup
<1>3. r.group.scheme = recorded[j].scheme
  BY <1>2 DEF GroupOf
<1>4. ASSUME NEW i \in InRange(c)
      PROVE  GroupOf(c, recorded[i]) = r.group <=> recorded[i].scheme = r.group.scheme
  <2>1. Covers(c, i) /\ Covers(c, j)
    BY <1>1
  <2>2. GroupOf(c, recorded[i]) = r.group => recorded[i].scheme = r.group.scheme
    BY DEF GroupOf
  <2>3. recorded[i].scheme = recorded[j].scheme => GroupOf(c, recorded[i]) = GroupOf(c, recorded[j])
    BY <2>1 DEF GroupOf, Covers, ForAllTime
  <2>4. QED
    BY <1>2, <1>3, <2>2, <2>3
<1>5. rs = {i \in DOMAIN recorded : r.group.scheme = recorded[i].scheme /\ Covers(c, i)}
  BY <1>1, <1>4 DEF InGroup
<1>6. IsFiniteSet(rs)
  <2>1. IsFiniteSet(DOMAIN recorded)
    <3>1. DOMAIN recorded = 1..Len(recorded) /\ Len(recorded) \in Nat
      BY LenProperties DEF RequestsRecorded
    <3>2. QED
      BY <3>1, FS_Interval
  <2>2. rs \subseteq DOMAIN recorded
    BY <1>5
  <2> HIDE DEF rs
  <2>3. QED
    BY <2>1, <2>2, FS_Subset
<1>7. Cardinality(P) + Cardinality(Q) = Cardinality(rs)
  <2>1. P \subseteq rs /\ Q = rs \ P
    BY DEF IsPending
  <2> HIDE DEF rs, P, Q
  <2>2. IsFiniteSet(P) /\ Cardinality(rs \ P) = Cardinality(rs) - Cardinality(P)
    <3>1. IsFiniteSet(P)
      BY <1>6, <2>1, FS_Subset
    <3>2. Cardinality(rs \ P) = Cardinality(rs) - Cardinality(rs \cap P) /\ rs \cap P = P
      BY <1>6, <2>1, FS_Difference
    <3>3. QED
      BY <3>1, <3>2
  <2>3. Cardinality(rs) \in Nat /\ Cardinality(P) \in Nat
    BY <1>6, <2>2, FS_CardinalityType
  <2>4. QED
    BY <2>1, <2>2, <2>3
<1>8. r.pending = Cardinality(P) /\ r.processed = Cardinality(Q) /\ r.payments = Cardinality(rs)
  BY ResultOfGroup
<1>9. QED
  BY <1>5, <1>7, <1>8

\* The row is about request i.
Counts(row, i) ==
    /\ row.scheme = recorded[i].scheme
    /\ row.period # "all" => YearOf(recorded[i].received) = row.year
    /\ row.period = "monthInYear" => MonthOf(recorded[i].received) = row.month

\* The figures of a row are those of all requests it is about.
RowCounts(row) ==
    row.period \in ForAllTime =>
        LET mine == {i \in DOMAIN recorded : Counts(row, i)}
        IN  /\ row.payments = Cardinality(mine)
            /\ row.value = Value(mine)
            /\ row.pending + row.processed = row.payments

\* The current run has saved a row for the period p of request i.
Counted(p, i) ==
    \E row \in metric : row.period = p /\ row.snapshot = day /\ Counts(row, i)

\* The run has still to save what counts the request, or is about to.
Owed(p, i) ==
    \E k \in DOMAIN plan :
        /\ plan[k] = CalculationFor(p, i)
        /\ k = 1 /\ results # {} =>
              \E r \in results : r.group.scheme = recorded[i].scheme

\* Rows are right, and none is missing that the run does not still owe.
CountedInv ==
    /\ RequestsRecorded
    /\ day \in Nat
    /\ plan \in Seq(Calculations)
    /\ results # {} => plan # <<>> /\ results \subseteq FetchMetricsData(Head(plan))
    /\ \A row \in metric : RowCounts(row)
    /\ day > 0 /\ ~failed =>
          \A i \in DOMAIN recorded, p \in ForAllTime : Counted(p, i) \/ Owed(p, i)

LEMMA CountedInitially == MetricsInit => CountedInv
<1> SUFFICES ASSUME MetricsInit PROVE CountedInv
  OBVIOUS
<1>1. PICK n \in 0..MaxRequests : recorded \in [1..n -> RequestRecords]
  BY DEF MetricsInit
<1>2. n \in Nat /\ recorded \in Seq(RequestRecords) /\ Len(recorded) = n
  <2>1. n \in Nat
    OBVIOUS
  <2>2. QED
    BY <1>1, <2>1, FunctionIsSeq
<1>3. \A i \in DOMAIN recorded : recorded[i].received \in 0..Now
  BY <1>1, MetricsAssumption DEF RequestRecords
<1>4. <<>> \in Seq(Calculations)
  OBVIOUS
<1>5. metric = {} /\ day = 0 /\ plan = <<>> /\ results = {}
  BY DEF MetricsInit
<1>6. QED
  BY <1>2, <1>3, <1>4, <1>5 DEF CountedInv, RequestsRecorded

\* What was recorded stays as it is.
LEMMA SameRecords ==
    ASSUME RequestsRecorded, UNCHANGED recorded
    PROVE  /\ RequestsRecorded'
           /\ \A row : RowCounts(row) => RowCounts(row)'
           /\ \A row, i : Counts(row, i)' <=> Counts(row, i)
           /\ \A p, i : CalculationFor(p, i)' = CalculationFor(p, i)
<1>1. RequestsRecorded'
  BY DEF RequestsRecorded
<1>2. \A row, i : Counts(row, i)' <=> Counts(row, i)
  BY DEF Counts
<1>3. \A p, i : CalculationFor(p, i)' = CalculationFor(p, i)
  BY DEF CalculationFor
<1>4. ASSUME NEW row, RowCounts(row)
      PROVE  RowCounts(row)'
  BY <1>4 DEF RowCounts, Counts, Value
<1>5. QED
  BY <1>1, <1>2, <1>3, <1>4

\* Nor does what a calculation would find.
LEMMA SameCalculation ==
    ASSUME UNCHANGED <<recorded, plan>>
    PROVE  FetchMetricsData(Head(plan))' = FetchMetricsData(Head(plan))
  BY DEF FetchMetricsData, InRange, GroupOf, FetchHoldsData, Value

LEMMA CountedKept == CountedInv /\ (MetricsNext \/ UNCHANGED metricsVars) => CountedInv'
<1> SUFFICES ASSUME CountedInv, MetricsNext \/ UNCHANGED metricsVars
             PROVE  CountedInv'
  OBVIOUS
<1>0. /\ RequestsRecorded /\ day \in Nat /\ plan \in Seq(Calculations)
      /\ results # {} => plan # <<>> /\ results \subseteq FetchMetricsData(Head(plan))
      /\ \A row \in metric : RowCounts(row)
      /\ day > 0 /\ ~failed =>
            \A i \in DOMAIN recorded, p \in ForAllTime : Counted(p, i) \/ Owed(p, i)
  BY DEF CountedInv
<1>1. CASE UNCHANGED runVars
  <2>1. UNCHANGED <<recorded, metric, day, plan, results, failed>>
    BY <1>1 DEF runVars
  <2>2. FetchMetricsData(Head(plan))' = FetchMetricsData(Head(plan))
    BY <2>1, SameCalculation
  <2>3. RequestsRecorded' /\ (\A row \in metric' : RowCounts(row)')
    BY <1>0, <2>1, SameRecords
  <2>4. \A p, i : /\ Counted(p, i) => Counted(p, i)'
                  /\ Owed(p, i) => Owed(p, i)'
    BY <2>1 DEF Counted, Counts, Owed, CalculationFor
  <2>5. results' # {} => plan' # <<>> /\ results' \subseteq FetchMetricsData(Head(plan))'
    BY <1>0, <2>1, <2>2
  <2>6. day' \in Nat /\ plan' \in Seq(Calculations)
    BY <1>0, <2>1
  <2>7. day' > 0 /\ ~failed' =>
            \A i \in DOMAIN recorded', p \in ForAllTime : Counted(p, i)' \/ Owed(p, i)'
    BY <1>0, <2>1, <2>4
  <2>8. QED
    BY <2>3, <2>5, <2>6, <2>7 DEF CountedInv
<1>2. CASE StartRun
  <2>1. /\ plan = <<>> /\ recorded # <<>> /\ day' = day + 1 /\ plan' = CalculateAllMetrics
        /\ UNCHANGED <<recorded, metric, results>>
    BY <1>2 DEF StartRun
  <2>2. results = {}
    BY <1>0, <2>1
  <2>3. RequestsRecorded' /\ (\A row \in metric' : RowCounts(row)')
    BY <1>0, <2>1, SameRecords
  <2>4. plan' \in Seq(Calculations)
    BY <1>0, <2>1, PlanIsComplete
  <2>5. ASSUME NEW i \in DOMAIN recorded', NEW p \in ForAllTime
        PROVE  Owed(p, i)'
    <3>1. \E k \in DOMAIN plan' : plan'[k] = CalculationFor(p, i)
      BY <1>0, <2>1, PlanIsComplete DEF ForAllTime
    <3>2. results' = {} /\ CalculationFor(p, i)' = CalculationFor(p, i)
      BY <1>0, <2>1, <2>2, SameRecords
    <3>3. QED
      BY <3>1, <3>2 DEF Owed
  <2>6. day' \in Nat
    BY <1>0, <2>1
  <2>7. QED
    BY <2>1, <2>2, <2>3, <2>4, <2>5, <2>6 DEF CountedInv
<1>3. CASE CalculateMetricsForPeriod
  <2>1. /\ plan # <<>> /\ results = {} /\ results' = FetchMetricsData(Head(plan))
        /\ plan' = IF results' = {} THEN Tail(plan) ELSE plan
        /\ UNCHANGED <<recorded, metric, day, failed>>
    BY <1>3 DEF CalculateMetricsForPeriod
  <2>2. RequestsRecorded' /\ (\A row \in metric' : RowCounts(row)')
    BY <1>0, <2>1, SameRecords
  <2>3. /\ plan' \in Seq(Calculations) /\ Head(plan) \in Calculations
        /\ Head(plan) = plan[1] /\ DOMAIN plan = 1..Len(plan) /\ Len(plan) \in Nat
        /\ Tail(plan) \in Seq(Calculations) /\ DOMAIN Tail(plan) = 1..(Len(plan) - 1)
        /\ \A k \in 1..(Len(plan) - 1) : Tail(plan)[k] = plan[k + 1]
    BY <1>0, <2>1, HeadTailProperties, LenProperties
  <2>4. results' # {} => plan' # <<>> /\ results' \subseteq FetchMetricsData(Head(plan))'
    <3>1. SUFFICES ASSUME results' # {}
                   PROVE  plan' # <<>> /\ results' \subseteq FetchMetricsData(Head(plan))'
      OBVIOUS
    <3>2. plan' = plan
      BY <2>1, <3>1
    <3>3. FetchMetricsData(Head(plan))' = FetchMetricsData(Head(plan))
      BY <2>1, <3>2, SameCalculation
    <3>4. QED
      BY <2>1, <3>2, <3>3
  <2>5. ASSUME NEW i \in DOMAIN recorded, NEW p \in ForAllTime, Owed(p, i)
        PROVE  Owed(p, i)'
    <3>1. PICK k \in DOMAIN plan : plan[k] = CalculationFor(p, i)
      BY <2>5 DEF Owed
    <3>2. CalculationFor(p, i)' = CalculationFor(p, i)
      BY <1>0, <2>1, SameRecords
    <3>3. CASE k = 1
      <4>1. plan[1].period \in ForAllTime /\ Covers(plan[1], i)
        BY <3>1, <3>3 DEF CalculationFor, Calculation, Covers, ForAllTime
      <4>2. i \in InRange(plan[1])
        BY <1>0, <2>3, <4>1, RangeCovers
      <4>3. \E r \in results' : r.group.scheme = recorded[i].scheme
        BY <2>1, <2>3, <4>2, GroupHasResult
      <4>4. plan' = plan /\ recorded' = recorded
        BY <2>1, <4>3
      <4>5. QED
        BY <3>1, <3>2, <4>3, <4>4 DEF Owed
    <3>4. CASE k # 1
      <4>1. CASE results' = {}
        <5>1. k \in 1..Len(plan) /\ Len(plan) \in Nat
          BY <2>3
        <5>2. k - 1 \in 1..(Len(plan) - 1) /\ (k - 1) + 1 = k
          BY <3>4, <5>1
        <5>3. plan' = Tail(plan)
          BY <2>1, <4>1
        <5>4. k - 1 \in DOMAIN plan' /\ plan'[k - 1] = plan[k]
          BY <2>3, <5>2, <5>3
        <5>5. QED
          BY <3>1, <3>2, <4>1, <5>4 DEF Owed
      <4>2. CASE results' # {}
        BY <2>1, <3>1, <3>2, <3>4, <4>2 DEF Owed
      <4>3. QED
        BY <4>1, <4>2
    <3>5. QED
      BY <3>3, <3>4
  <2>6. \A p, i : Counted(p, i) => Counted(p, i)'
    BY <2>1 DEF Counted, Counts
  <2>7. day' > 0 /\ ~failed' =>
            \A i \in DOMAIN recorded', p \in ForAllTime : Counted(p, i)' \/ Owed(p, i)'
    BY <1>0, <2>1, <2>5, <2>6
  <2>8. day' \in Nat
    BY <1>0, <2>1
  <2>9. QED
    BY <2>2, <2>3, <2>4, <2>7, <2>8 DEF CountedInv
<1>4. CASE RunFails
  <2>1. plan' = <<>> /\ results' = {} /\ failed' = TRUE /\ UNCHANGED <<recorded, metric, day>>
    BY <1>4 DEF RunFails
  <2>2. RequestsRecorded' /\ (\A row \in metric' : RowCounts(row)')
    BY <1>0, <2>1, SameRecords
  <2>3. <<>> \in Seq(Calculations)
    OBVIOUS
  <2>4. QED
    BY <1>0, <2>1, <2>2, <2>3 DEF CountedInv
<1>5. ASSUME NEW r \in results, SaveMetric(r)
      PROVE  CountedInv'
  <2> DEFINE c == Head(plan)
             kept == {row \in metric : ~SameKey(row, c, r.group.scheme)}
             saved == [period |-> c.period, scheme |-> r.group.scheme, year |-> c.year,
                       month |-> IF c.period = "monthInYear" THEN c.month ELSE NoMonth,
                       snapshot |-> day, payments |-> r.payments, value |-> r.value,
                       pending |-> r.pending, pendingValue |-> r.pendingValue,
                       processed |-> r.processed, settled |-> r.settled,
                       onHold |-> r.onHold]
  <2>1. /\ metric' = kept \cup {saved} /\ results' = results \ {r}
        /\ plan' = IF results' = {} THEN Tail(plan) ELSE plan
        /\ UNCHANGED <<recorded, day, failed>>
    BY <1>5 DEF SaveMetric
  <2>2. r \in FetchMetricsData(c) /\ plan # <<>>
    BY <1>0
  <2>3. /\ plan' \in Seq(Calculations) /\ c \in Calculations
        /\ c = plan[1] /\ DOMAIN plan = 1..Len(plan) /\ Len(plan) \in Nat
        /\ Tail(plan) \in Seq(Calculations) /\ DOMAIN Tail(plan) = 1..(Len(plan) - 1)
        /\ \A k \in 1..(Len(plan) - 1) : Tail(plan)[k] = plan[k + 1]
    BY <1>0, <2>1, <2>2, HeadTailProperties, LenProperties
  <2>4. /\ saved.period = c.period /\ saved.scheme = r.group.scheme /\ saved.year = c.year
        /\ saved.period = "monthInYear" => saved.month = c.month
        /\ saved.snapshot = day /\ saved.payments = r.payments /\ saved.value = r.value
        /\ saved.pending = r.pending /\ saved.processed = r.processed
    OBVIOUS
  <2>5. kept \subseteq metric /\ \A row \in metric : row \in kept \/ SameKey(row, c, r.group.scheme)
    OBVIOUS
  <2> HIDE DEF kept, saved, c
  <2>6. RowCounts(saved)
    <3>1. SUFFICES ASSUME c.period \in ForAllTime
                   PROVE  LET mine == {i \in DOMAIN recorded : Counts(saved, i)}
                          IN  /\ saved.payments = Cardinality(mine)
                              /\ saved.value = Value(mine)
                              /\ saved.pending + saved.processed = saved.payments
      BY <2>4 DEF RowCounts
    <3>2. /\ InGroup(c, r.group) =
                 {i \in DOMAIN recorded : r.group.scheme = recorded[i].scheme /\ Covers(c, i)}
          /\ r.pending + r.processed = r.payments
      BY <1>0, <2>2, <2>3, <3>1, ResultCounts
    <3>3. \A i : Counts(saved, i) <=> r.group.scheme = recorded[i].scheme /\ Covers(c, i)
      BY <2>4 DEF Counts, Covers
    <3>4. {i \in DOMAIN recorded : Counts(saved, i)} = InGroup(c, r.group)
      BY <3>2, <3>3
    <3>5. r.payments = Cardinality(InGroup(c, r.group)) /\ r.value = Value(InGroup(c, r.group))
      BY <2>2, ResultOfGroup
    <3>6. QED
      BY <2>4, <3>2, <3>4, <3>5
  <2>7. RequestsRecorded' /\ (\A row \in metric' : RowCounts(row)')
    BY <1>0, <2>1, <2>5, <2>6, SameRecords
  <2>8. results' # {} => plan' # <<>> /\ results' \subseteq FetchMetricsData(Head(plan))'
    <3>1. SUFFICES ASSUME results' # {}
                   PROVE  plan' # <<>> /\ results' \subseteq FetchMetricsData(Head(plan))'
      OBVIOUS
    <3>2. plan' = plan
      BY <2>1, <3>1
    <3>3. FetchMetricsData(Head(plan))' = FetchMetricsData(Head(plan))
      BY <2>1, <3>2, SameCalculation
    <3>4. QED
      BY <1>0, <2>1, <2>2, <3>2, <3>3
  <2>9. ASSUME NEW i \in DOMAIN recorded, NEW p \in ForAllTime, Counted(p, i)
        PROVE  Counted(p, i)'
    <3>1. PICK row \in metric : row.period = p /\ row.snapshot = day /\ Counts(row, i)
      BY <2>9 DEF Counted
    <3>2. CASE row \in kept
      BY <2>1, <3>1, <3>2 DEF Counted, Counts
    <3>3. CASE SameKey(row, c, r.group.scheme)
      <4>1. saved.period = p /\ saved.snapshot = day /\ Counts(saved, i)
        BY <2>4, <3>1, <3>3 DEF SameKey, Counts
      <4>2. QED
        BY <2>1, <4>1 DEF Counted, Counts
    <3>4. QED
      BY <2>5, <3>2, <3>3
  <2>10. ASSUME NEW i \in DOMAIN recorded, NEW p \in ForAllTime, Owed(p, i)
         PROVE  Counted(p, i)' \/ Owed(p, i)'
    <3>1. PICK k \in DOMAIN plan :
             /\ plan[k] = CalculationFor(p, i)
             /\ k = 1 => \E x \in results : x.group.scheme = recorded[i].scheme
      BY <2>10 DEF Owed
    <3>2. CalculationFor(p, i)' = CalculationFor(p, i)
      BY <1>0, <2>1, SameRecords
    <3>3. CASE k = 1
      <4>1. PICK x \in results : x.group.scheme = recorded[i].scheme
        BY <3>1, <3>3
      <4>2. CASE x = r
        <5>1. c = CalculationFor(p, i)
          BY <2>3, <3>1, <3>3
        <5>2. c.period = p /\ Covers(c, i)
          BY <5>1 DEF CalculationFor, Calculation, Covers
        <5>3. saved.period = p /\ saved.snapshot = day /\ Counts(saved, i)
          BY <2>4, <4>1, <4>2, <5>2 DEF Counts, Covers
        <5>4. QED
          BY <2>1, <5>3 DEF Counted, Counts
      <4>3. CASE x # r
        <5>1. x \in results' /\ plan' = plan
          BY <2>1, <4>3
        <5>2. QED
          BY <2>1, <3>1, <3>2, <4>1, <5>1 DEF Owed
      <4>4. QED
        BY <4>2, <4>3
    <3>4. CASE k # 1
      <4>1. CASE results' = {}
        <5>1. k \in 1..Len(plan) /\ Len(plan) \in Nat
          BY <2>3
        <5>2. k - 1 \in 1..(Len(plan) - 1) /\ (k - 1) + 1 = k
          BY <3>4, <5>1
        <5>3. plan' = Tail(plan)
          BY <2>1, <4>1
        <5>4. k - 1 \in DOMAIN plan' /\ plan'[k - 1] = plan[k]
          BY <2>3, <5>2, <5>3
        <5>5. QED
          BY <3>1, <3>2, <4>1, <5>4 DEF Owed
      <4>2. CASE results' # {}
        BY <2>1, <3>1, <3>2, <3>4, <4>2 DEF Owed
      <4>3. QED
        BY <4>1, <4>2
    <3>5. QED
      BY <3>3, <3>4
  <2>11. day' > 0 /\ ~failed' =>
            \A i \in DOMAIN recorded', p \in ForAllTime : Counted(p, i)' \/ Owed(p, i)'
    BY <1>0, <2>1, <2>9, <2>10
  <2>12. day' \in Nat
    BY <1>0, <2>1
  <2>13. QED
    BY <2>3, <2>7, <2>8, <2>11, <2>12 DEF CountedInv
<1>6. CASE UNCHANGED metricsVars \/ CalculationEnds \/ PauseEnds
  BY <1>1, <1>6 DEF metricsVars, CalculationEnds, PauseEnds, runVars
<1>7. ASSUME NEW c \in Callers, NEW q \in Queries, HandleMetricsRequest(c, q)
      PROVE  CountedInv'
  BY <1>1, <1>7 DEF HandleMetricsRequest
<1>8. ASSUME NEW c \in Callers, FetchSnapshotDate(c) \/ FetchMetrics(c)
      PROVE  CountedInv'
  BY <1>1, <1>8 DEF FetchSnapshotDate, FetchMetrics
<1>9. QED
  BY <1>2, <1>3, <1>4, <1>5, <1>6, <1>7, <1>8 DEF MetricsNext

LEMMA CountedWhenSaved == CountedInv => SavedIsCounted
<1> SUFFICES ASSUME CountedInv
             PROVE  SavedIsCounted
  OBVIOUS
<1>1. ASSUME NEW row \in metric, row.period \in {"all", "year", "monthInYear"}
      PROVE  LET mine == {i \in DOMAIN recorded : Counts(row, i)}
             IN  /\ row.payments = Cardinality(mine)
                 /\ row.value = Value(mine)
                 /\ row.pending + row.processed = row.payments
  BY <1>1 DEF CountedInv, RowCounts, ForAllTime
<1>2. ASSUME day > 0, plan = <<>>, ~failed,
             NEW i \in DOMAIN recorded, NEW p \in {"all", "year", "monthInYear"}
      PROVE  \E row \in metric : row.period = p /\ row.snapshot = day /\ Counts(row, i)
  <2>1. Counted(p, i) \/ Owed(p, i)
    BY <1>2 DEF CountedInv, ForAllTime
  <2>2. ~Owed(p, i)
    BY <1>2 DEF Owed
  <2>3. QED
    BY <2>1, <2>2 DEF Counted
<1>3. QED
  BY <1>1, <1>2 DEF SavedIsCounted, Counts

\* Whatever is received when, and however many runs there are and fail, the rows
\* for all time, for a year and for a month of it count each request of theirs
\* once, as pending or as processed, and a run that got through has saved all
\* three for every request (calculateAllMetrics).
THEOREM CalculatedOnce == Spec => []SavedIsCounted
<1>1. Init => CountedInv
  BY ComponentsInit, CountedInitially
<1>2. CountedInv /\ [Next]_vars => CountedInv'
  BY MetricsStep, CountedKept
<1>3. CountedInv => SavedIsCounted
  BY CountedWhenSaved
<1>4. QED
  BY <1>1, <1>2, <1>3, PTL DEF Spec

-----------------------------------------------------------------------------
(* The table of schemes.  Of what is left for a pod to do, a mark comes    *)
(* only after an announcement, or the scheme has been announced.           *)

Statements == Categories \cup {"upsert", "announce", "mark"}

MarksInOrder(left) ==
    \A i \in 1..Len(left) :
        left[i] = "mark" => \E j \in 1..(i - 1) : left[j] = "announce"

SchemesInv ==
    /\ starting \in [StartPods -> [scheme : NewSchemes \cup {"none"},
                                   left : Seq(Statements)]]
    /\ \A p \in StartPods :
          \/ MarksInOrder(starting[p].left)
          \/ starting[p].scheme \in announced
    /\ MarkedIsAnnounced

LEMMA SchemesInitially == SchemesInit => SchemesInv
  BY DEF SchemesInit, SchemesInv, MarksInOrder, MarkedIsAnnounced

\* Statements without a mark among them.
Unmarked(left) ==
    left \in Seq(Statements) /\ \A i \in 1..Len(left) : left[i] # "mark"

LEMMA UnmarkedConcat ==
  ASSUME NEW a, NEW b, Unmarked(a), Unmarked(b)
  PROVE  Unmarked(a \o b)
<1>1. /\ a \o b \in Seq(Statements)
      /\ Len(a \o b) = Len(a) + Len(b)
      /\ \A i \in 1..(Len(a) + Len(b)) :
            (a \o b)[i] = IF i <= Len(a) THEN a[i] ELSE b[i - Len(a)]
  BY ConcatProperties DEF Unmarked
<1>2. Len(a) \in Nat /\ Len(b) \in Nat
  BY LenProperties DEF Unmarked
<1>3. QED
  BY <1>1, <1>2 DEF Unmarked

LEMMA UnmarkedCategories ==
  ASSUME NEW s
  PROVE  Unmarked(<<"upsert">>) /\ Unmarked(<<>>) /\ Unmarked(RequiredCategories(s))
<1>1. Unmarked(<<>>) /\ Unmarked(<<"upsert">>)
  BY DEF Unmarked, Statements
<1>2. Unmarked(<<"bank", "dax">>) /\ Unmarked(<<"debt", "ledger">>)
  BY DEF Unmarked, Statements, Categories
<1>3. Unmarked(IF s \in PpaSchemes THEN <<"debt", "ledger">> ELSE <<>>)
  BY <1>1, <1>2
<1>4. QED
  BY <1>1, <1>2, <1>3, UnmarkedConcat DEF RequiredCategories

LEMMA AnnouncementInOrder ==
  ASSUME NEW first, Unmarked(first)
  PROVE  /\ first \o Announcement \in Seq(Statements)
         /\ MarksInOrder(first \o Announcement)
<1> DEFINE left == first \o <<"announce", "mark">>
<1>1. /\ left \in Seq(Statements)
      /\ Len(left) = Len(first) + 2
      /\ \A i \in 1..(Len(first) + 2) :
            left[i] = IF i <= Len(first) THEN first[i]
                      ELSE <<"announce", "mark">>[i - Len(first)]
  <2>1. <<"announce", "mark">> \in Seq(Statements)
    BY DEF Statements
  <2>2. QED
    BY <2>1, ConcatProperties DEF Unmarked
<1>2. Len(first) \in Nat
  BY LenProperties DEF Unmarked
<1> HIDE DEF left
<1>3. ASSUME NEW i \in 1..Len(left), left[i] = "mark"
      PROVE  \E j \in 1..(i - 1) : left[j] = "announce"
  <2>1. i = Len(first) + 2
    BY <1>1, <1>2, <1>3 DEF Unmarked
  <2>2. left[Len(first) + 1] = "announce"
    BY <1>1, <1>2
  <2>3. QED
    BY <1>2, <2>1, <2>2
<1>4. QED
  BY <1>1, <1>3 DEF Announcement, MarksInOrder, left

\* What a start leaves to be done for a scheme is in order.
LEMMA StartsInOrder ==
  ASSUME NEW s \in NewSchemes, NEW left,
         left = <<"upsert">> \o (IF s \in schemes THEN <<>> ELSE RequiredCategories(s))
                             \o (IF s \in marked THEN <<>> ELSE Announcement)
  PROVE  left \in Seq(Statements) /\ MarksInOrder(left)
<1> DEFINE cats == IF s \in schemes THEN <<>> ELSE RequiredCategories(s)
<1> DEFINE first == <<"upsert">> \o cats
<1>1. Unmarked(cats)
  BY UnmarkedCategories
<1>2. Unmarked(first)
  <2> HIDE DEF cats
  <2>1. QED
    BY <1>1, UnmarkedCategories, UnmarkedConcat
<1>3. left = first \o (IF s \in marked THEN <<>> ELSE Announcement)
  OBVIOUS
<1> HIDE DEF cats, first
<1>4. CASE s \in marked
  <2>1. left = first
    BY <1>2, <1>3, <1>4, ConcatEmptySeq DEF Unmarked
  <2>2. QED
    BY <1>2, <2>1 DEF Unmarked, MarksInOrder
<1>5. CASE s \notin marked
  BY <1>2, <1>3, <1>5, AnnouncementInOrder
<1>6. QED
  BY <1>4, <1>5

\* Once an announcement is not the first thing left, order is kept.
LEMMA TailInOrder ==
  ASSUME NEW left \in Seq(Statements), left # <<>>, MarksInOrder(left),
         Head(left) # "announce"
  PROVE  MarksInOrder(Tail(left))
<1> SUFFICES ASSUME NEW i \in 1..Len(Tail(left)), Tail(left)[i] = "mark"
             PROVE  \E j \in 1..(i - 1) : Tail(left)[j] = "announce"
  BY DEF MarksInOrder
<1>1. i + 1 \in 1..Len(left) /\ left[i + 1] = "mark"
  OBVIOUS
<1>2. PICK j \in 1..i : left[j] = "announce"
  BY <1>1 DEF MarksInOrder
<1>3. j # 1
  BY <1>2
<1>4. j - 1 \in 1..(i - 1) /\ Tail(left)[j - 1] = "announce"
  BY <1>1, <1>2, <1>3
<1>5. QED
  BY <1>4

LEMMA SchemesKept == SchemesInv /\ (SchemesNext \/ UNCHANGED schemesVars) => SchemesInv'
<1> SUFFICES ASSUME SchemesInv, SchemesNext \/ UNCHANGED schemesVars
             PROVE  SchemesInv'
  OBVIOUS
<1>1. CASE UNCHANGED schemesVars
  BY <1>1 DEF schemesVars, SchemesInv, MarkedIsAnnounced
<1>2. ASSUME NEW p \in StartPods, NEW s \in NewSchemes, FindScheme(p, s)
      PROVE  SchemesInv'
  <2> DEFINE left == starting'[p].left
  <2>1. left = <<"upsert">> \o (IF s \in schemes THEN <<>> ELSE RequiredCategories(s))
                            \o (IF s \in marked THEN <<>> ELSE Announcement)
    BY <1>2 DEF FindScheme, SchemesInv
  <2>2. left \in Seq(Statements) /\ MarksInOrder(left)
    <3> HIDE DEF left
    <3>1. QED
      BY <2>1, StartsInOrder
  <2>3. starting' = [starting EXCEPT ![p] = [scheme |-> s, left |-> left]]
    BY <1>2, <2>1 DEF FindScheme
  <2>4. QED
    BY <1>2, <2>2, <2>3 DEF FindScheme, SchemesInv, MarkedIsAnnounced
<1>3. ASSUME NEW p \in StartPods, NEW statement \in Statements, Does(p, statement)
      PROVE  /\ starting' \in [StartPods -> [scheme : NewSchemes \cup {"none"},
                                             left : Seq(Statements)]]
             /\ \A q \in StartPods :
                   /\ starting'[q].scheme = starting[q].scheme
                   /\ q # p => starting'[q] = starting[q]
             /\ MarksInOrder(starting[p].left) /\ statement # "announce"
                   => MarksInOrder(starting'[p].left)
  <2>1. /\ starting[p].left \in Seq(Statements) /\ starting[p].left # <<>>
        /\ Head(starting[p].left) = statement
        /\ starting' = [starting EXCEPT ![p].left = Tail(@)]
    BY <1>3 DEF Does, SchemesInv
  <2>2. Tail(starting[p].left) \in Seq(Statements)
    BY <2>1
  <2>3. QED
    BY <2>1, <2>2, TailInOrder DEF SchemesInv
<1>4. ASSUME NEW p \in StartPods, UpsertScheme(p) PROVE SchemesInv'
  <2>1. Does(p, "upsert") /\ "upsert" \in Statements \ {"announce"}
    BY <1>4 DEF UpsertScheme, Statements
  <2>2. QED
    BY <1>4, <1>3, <2>1 DEF UpsertScheme, SchemesInv, MarkedIsAnnounced
<1>5. ASSUME NEW p \in StartPods, AddCategory(p) PROVE SchemesInv'
  <2>1. PICK c \in Categories : Does(p, c)
    BY <1>5 DEF AddCategory
  <2>2. c \in Statements \ {"announce"}
    BY DEF Statements, Categories
  <2>3. QED
    BY <1>5, <1>3, <2>1, <2>2 DEF AddCategory, SchemesInv, MarkedIsAnnounced
<1>6. ASSUME NEW p \in StartPods, SendSchemeAddedEvent(p) PROVE SchemesInv'
  <2>1. Does(p, "announce") /\ "announce" \in Statements
    BY <1>6 DEF SendSchemeAddedEvent, Statements
  <2>2. announced' = announced \cup {starting[p].scheme} /\ UNCHANGED marked
    BY <1>6 DEF SendSchemeAddedEvent
  <2>3. QED
    BY <1>3, <2>1, <2>2 DEF SchemesInv, MarkedIsAnnounced
<1>7. ASSUME NEW p \in StartPods, MarkSchemeAddedEventPublished(p) PROVE SchemesInv'
  <2>1. starting[p].scheme \in announced
    <3>1. starting[p].left \in Seq(Statements) /\ starting[p].left # <<>>
      BY <1>7 DEF MarkSchemeAddedEventPublished, Does, SchemesInv
    <3>2. starting[p].left[1] = "mark" /\ 1 \in 1..Len(starting[p].left)
      BY <1>7, <3>1 DEF MarkSchemeAddedEventPublished, Does
    <3>3. ~MarksInOrder(starting[p].left)
      BY <3>2 DEF MarksInOrder
    <3>4. QED
      BY <3>3 DEF SchemesInv
  <2>2. Does(p, "mark") /\ "mark" \in Statements \ {"announce"}
    BY <1>7 DEF MarkSchemeAddedEventPublished, Statements
  <2>3. marked' = marked \cup {starting[p].scheme} /\ UNCHANGED announced
    BY <1>7 DEF MarkSchemeAddedEventPublished
  <2>4. QED
    BY <1>3, <2>1, <2>2, <2>3 DEF SchemesInv, MarkedIsAnnounced
<1>8. ASSUME NEW p \in StartPods, Stop(p) PROVE SchemesInv'
  <2>1. <<>> \in Seq(Statements) /\ MarksInOrder(<<>>)
    BY DEF MarksInOrder
  <2>2. QED
    BY <1>8, <2>1 DEF Stop, SchemesInv, MarkedIsAnnounced
<1>9. QED
  BY <1>1, <1>2, <1>4, <1>5, <1>6, <1>7, <1>8 DEF SchemesNext

\* A scheme that is marked as announced was announced, whatever pods start and
\* stop (updateSchemesDatabase).
THEOREM AnnouncedBeforeMarked == Spec => []MarkedIsAnnounced
<1>1. Init => SchemesInv
  BY ComponentsInit, SchemesInitially
<1>2. SchemesInv /\ [Next]_vars => SchemesInv'
  BY SchemesStep, SchemesKept
<1>3. SchemesInv => MarkedIsAnnounced
  BY DEF SchemesInv
<1>4. QED
  BY <1>1, <1>2, <1>3, PTL DEF Spec

-----------------------------------------------------------------------------
(* The categories of a scheme.  Of the pods that found it missing each has *)
(* inserted a category or has it left to insert, unless one was stopped.   *)

Required(s) ==
    {"bank", "dax"} \cup (IF s \in PpaSchemes THEN {"debt", "ledger"} ELSE {})

\* A pod has no statement left twice.
OnceEach(left) ==
    \A i \in 1..Len(left), j \in 1..Len(left) : left[i] = left[j] => i = j

IsLeft(left, c) == \E i \in 1..Len(left) : left[i] = c

\* How many insertions of category c for scheme s pod p has left.
Owes(p, s, c) == IF starting[p].scheme = s /\ IsLeft(starting[p].left, c) THEN 1 ELSE 0

CategoriesInv ==
    /\ starting \in [StartPods -> [scheme : NewSchemes \cup {"none"},
                                   left : Seq(Statements)]]
    /\ categories \in [NewSchemes -> [Categories -> Nat]]
    /\ creators \in [NewSchemes -> Nat]
    /\ \A p \in StartPods :
          /\ OnceEach(starting[p].left)
          /\ starting[p].left # <<>> =>
                starting[p].scheme \in NewSchemes /\ creators[starting[p].scheme] >= 1
    /\ schemes \subseteq NewSchemes
    /\ \A s \in schemes : creators[s] >= 1
    /\ \A s \in NewSchemes \ incomplete : \A c \in Required(s) :
          categories[s][c] + Owes(1, s, c) + Owes(2, s, c) = creators[s]

LEMMA CategoriesInitially == SchemesInit => CategoriesInv
<1> SUFFICES ASSUME SchemesInit PROVE CategoriesInv
  OBVIOUS
<1>1. \A p \in StartPods : starting[p].left = <<>> /\ starting[p].scheme = "none"
  BY DEF SchemesInit
<1>2. \A s, c : Owes(1, s, c) = 0 /\ Owes(2, s, c) = 0
  BY <1>1 DEF Owes, IsLeft, StartPods
<1>3. \A s : Required(s) \subseteq Categories
  BY DEF Required, Categories
<1>4. /\ starting \in [StartPods -> [scheme : NewSchemes \cup {"none"},
                                   left : Seq(Statements)]]
      /\ categories \in [NewSchemes -> [Categories -> Nat]]
      /\ creators \in [NewSchemes -> Nat]
      /\ schemes = {}
  BY DEF SchemesInit
<1>5. \A s \in NewSchemes : creators[s] = 0 /\ \A c \in Categories : categories[s][c] = 0
  BY DEF SchemesInit
<1>6. QED
  BY <1>1, <1>2, <1>3, <1>4, <1>5 DEF CategoriesInv, OnceEach

\* Sequences that share no statement may follow one another.
LEMMA ConcatOnceEach ==
  ASSUME NEW a \in Seq(Statements), NEW b \in Seq(Statements),
         OnceEach(a), OnceEach(b), \A c : ~(IsLeft(a, c) /\ IsLeft(b, c))
  PROVE  /\ a \o b \in Seq(Statements)
         /\ OnceEach(a \o b)
         /\ \A c : IsLeft(a \o b, c) <=> IsLeft(a, c) \/ IsLeft(b, c)
<1> DEFINE d == a \o b
<1>1. /\ d \in Seq(Statements)
      /\ Len(d) = Len(a) + Len(b)
      /\ \A i \in 1..(Len(a) + Len(b)) :
            d[i] = IF i <= Len(a) THEN a[i] ELSE b[i - Len(a)]
  BY ConcatProperties
<1>2. Len(a) \in Nat /\ Len(b) \in Nat
  BY LenProperties
<1> HIDE DEF d
<1>3. \A i \in 1..Len(a) : i \in 1..Len(d) /\ d[i] = a[i]
  BY <1>1, <1>2
<1>4. ASSUME NEW i \in 1..Len(b)
      PROVE  i + Len(a) \in 1..Len(d) /\ d[i + Len(a)] = b[i]
  <2>1. i + Len(a) \in 1..Len(d) /\ ~(i + Len(a) <= Len(a)) /\ (i + Len(a)) - Len(a) = i
    BY <1>1, <1>2
  <2>2. QED
    BY <1>1, <2>1
<1>5. ASSUME NEW i \in 1..Len(d)
      PROVE  \/ i \in 1..Len(a) /\ d[i] = a[i]
             \/ i - Len(a) \in 1..Len(b) /\ d[i] = b[i - Len(a)]
  BY <1>1, <1>2
<1>6. \A c : IsLeft(d, c) <=> IsLeft(a, c) \/ IsLeft(b, c)
  BY <1>3, <1>4, <1>5 DEF IsLeft
<1>7. ASSUME NEW i \in 1..Len(d), NEW j \in 1..Len(d), d[i] = d[j]
      PROVE  i = j
  <2>1. CASE i \in 1..Len(a) /\ j \in 1..Len(a) /\ d[i] = a[i] /\ d[j] = a[j]
    BY <1>7, <2>1 DEF OnceEach
  <2>2. CASE /\ i - Len(a) \in 1..Len(b) /\ d[i] = b[i - Len(a)]
             /\ j - Len(a) \in 1..Len(b) /\ d[j] = b[j - Len(a)]
    <3>1. i - Len(a) = j - Len(a)
      BY <1>7, <2>2 DEF OnceEach
    <3>2. QED
      BY <1>1, <1>2, <3>1
  <2>3. QED
    BY <1>5, <1>7, <2>1, <2>2 DEF IsLeft
<1>8. QED
  BY <1>1, <1>6, <1>7 DEF d, OnceEach

\* What a start leaves to be done for a scheme it has not twice, and a category
\* only if the scheme was not there.
LEMMA StartsOnceEach ==
  ASSUME NEW s \in NewSchemes, NEW left,
         left = <<"upsert">> \o (IF s \in schemes THEN <<>> ELSE RequiredCategories(s))
                             \o (IF s \in marked THEN <<>> ELSE Announcement)
  PROVE  /\ left \in Seq(Statements)
         /\ OnceEach(left)
         /\ \A c \in Required(s) : IsLeft(left, c) <=> s \notin schemes
         /\ \A c \in Categories : IsLeft(left, c) => s \notin schemes
<1> DEFINE cats == IF s \in schemes THEN <<>> ELSE RequiredCategories(s)
           more == IF s \in PpaSchemes THEN <<"debt", "ledger">> ELSE <<>>
           last == IF s \in marked THEN <<>> ELSE Announcement
           set == IF s \in schemes THEN {} ELSE Required(s)
<1>1. /\ <<>> \in Seq(Statements) /\ OnceEach(<<>>) /\ \A c : ~IsLeft(<<>>, c)
      /\ <<"upsert">> \in Seq(Statements) /\ OnceEach(<<"upsert">>)
      /\ \A c : IsLeft(<<"upsert">>, c) <=> c = "upsert"
  BY DEF Statements, OnceEach, IsLeft
<1>2. /\ <<"bank", "dax">> \in Seq(Statements) /\ OnceEach(<<"bank", "dax">>)
      /\ \A c : IsLeft(<<"bank", "dax">>, c) <=> c \in {"bank", "dax"}
  BY DEF Statements, Categories, OnceEach, IsLeft
<1>3. /\ <<"debt", "ledger">> \in Seq(Statements) /\ OnceEach(<<"debt", "ledger">>)
      /\ \A c : IsLeft(<<"debt", "ledger">>, c) <=> c \in {"debt", "ledger"}
  BY DEF Statements, Categories, OnceEach, IsLeft
<1>4. /\ last \in Seq(Statements) /\ OnceEach(last)
      /\ \A c : IsLeft(last, c) => c \in {"announce", "mark"}
  <2>1. /\ Announcement \in Seq(Statements) /\ OnceEach(Announcement)
        /\ \A c : IsLeft(Announcement, c) => c \in {"announce", "mark"}
    BY DEF Announcement, Statements, OnceEach, IsLeft
  <2>2. QED
    BY <1>1, <2>1
<1>5. /\ more \in Seq(Statements) /\ OnceEach(more)
      /\ \A c : IsLeft(more, c) <=> s \in PpaSchemes /\ c \in {"debt", "ledger"}
  BY <1>1, <1>3
<1>6. RequiredCategories(s) = <<"bank", "dax">> \o more
  BY DEF RequiredCategories
<1> HIDE DEF more, last
<1>7. \A c : c \in Required(s) <=>
            c \in {"bank", "dax"} \/ (s \in PpaSchemes /\ c \in {"debt", "ledger"})
  BY DEF Required
<1>8. /\ RequiredCategories(s) \in Seq(Statements) /\ OnceEach(RequiredCategories(s))
      /\ \A c : IsLeft(RequiredCategories(s), c) <=> c \in Required(s)
  <2>1. \A c : ~(IsLeft(<<"bank", "dax">>, c) /\ IsLeft(more, c))
    BY <1>2, <1>5
  <2>2. /\ <<"bank", "dax">> \o more \in Seq(Statements)
        /\ OnceEach(<<"bank", "dax">> \o more)
        /\ \A c : IsLeft(<<"bank", "dax">> \o more, c)
                   <=> IsLeft(<<"bank", "dax">>, c) \/ IsLeft(more, c)
    BY <1>2, <1>5, <2>1, ConcatOnceEach
  <2>3. QED
    BY <1>2, <1>5, <1>6, <1>7, <2>2
<1>9. /\ cats \in Seq(Statements) /\ OnceEach(cats)
      /\ \A c : IsLeft(cats, c) <=> c \in set
  BY <1>1, <1>8
<1>10. left = <<"upsert">> \o cats \o last
  BY DEF last
<1> HIDE DEF cats
<1>11. \A c : c \in set => c \in Categories
  BY <1>7 DEF Categories
<1> HIDE DEF set
<1>12. /\ <<"upsert">> \o cats \in Seq(Statements) /\ OnceEach(<<"upsert">> \o cats)
       /\ \A c : IsLeft(<<"upsert">> \o cats, c) <=> c = "upsert" \/ c \in set
  <2>1. \A c : ~(IsLeft(<<"upsert">>, c) /\ IsLeft(cats, c))
    BY <1>1, <1>9, <1>11 DEF Categories
  <2>2. QED
    BY <1>1, <1>9, <2>1, ConcatOnceEach
<1>13. /\ left \in Seq(Statements) /\ OnceEach(left)
       /\ \A c : IsLeft(left, c) <=> c = "upsert" \/ c \in set \/ IsLeft(last, c)
  <2> DEFINE first == <<"upsert">> \o cats
  <2>1. /\ first \in Seq(Statements) /\ OnceEach(first) /\ left = first \o last
        /\ \A c : IsLeft(first, c) <=> c = "upsert" \/ c \in set
    BY <1>10, <1>12
  <2> HIDE DEF first
  <2>2. \A c : ~(IsLeft(first, c) /\ IsLeft(last, c))
    BY <1>4, <1>11, <2>1 DEF Categories
  <2>3. /\ first \o last \in Seq(Statements) /\ OnceEach(first \o last)
        /\ \A c : IsLeft(first \o last, c) <=> IsLeft(first, c) \/ IsLeft(last, c)
    BY <1>4, <2>1, <2>2, ConcatOnceEach
  <2>4. QED
    BY <2>1, <2>3
<1>14. \A c \in Categories : IsLeft(left, c) => c \in set
  BY <1>4, <1>13 DEF Categories
<1>15. QED
  BY <1>4, <1>7, <1>13, <1>14 DEF set

\* A statement that is carried out is no longer left; the others are.
LEMMA TailOnceEach ==
  ASSUME NEW left \in Seq(Statements), left # <<>>, OnceEach(left)
  PROVE  /\ Tail(left) \in Seq(Statements)
         /\ OnceEach(Tail(left))
         /\ \A c : IsLeft(Tail(left), c) <=> IsLeft(left, c) /\ c # Head(left)
<1>1. /\ Len(left) \in Nat \ {0} /\ Head(left) = left[1]
      /\ Tail(left) \in Seq(Statements) /\ Len(Tail(left)) = Len(left) - 1
      /\ \A i \in 1..(Len(left) - 1) : Tail(left)[i] = left[i + 1]
  OBVIOUS
<1>2. OnceEach(Tail(left))
  BY <1>1 DEF OnceEach
<1>3. ASSUME NEW i \in 1..(Len(left) - 1) PROVE left[i + 1] # Head(left)
  BY <1>1 DEF OnceEach
<1>4. ASSUME NEW i \in 1..Len(left), left[i] # Head(left)
      PROVE  i - 1 \in 1..(Len(left) - 1) /\ Tail(left)[i - 1] = left[i]
  <2>1. i # 1
    BY <1>1, <1>4
  <2>2. i - 1 \in 1..(Len(left) - 1)
    BY <1>1, <2>1
  <2>3. QED
    BY <1>1, <2>2
<1>5. QED
  BY <1>1, <1>2, <1>3, <1>4 DEF IsLeft

\* What a pod has carried out it has no longer left; the other pod is as it was.
LEMMA OwesKept ==
  ASSUME CategoriesInv, NEW p \in StartPods, NEW statement \in Statements,
         Does(p, statement)
  PROVE  /\ starting' \in [StartPods -> [scheme : NewSchemes \cup {"none"},
                                         left : Seq(Statements)]]
         /\ starting[p].scheme \in NewSchemes
         /\ creators[starting[p].scheme] >= 1
         /\ \A q \in StartPods :
               /\ OnceEach(starting'[q].left)
               /\ starting'[q].left # <<>> =>
                     /\ starting'[q].scheme \in NewSchemes
                     /\ creators[starting'[q].scheme] >= 1
               /\ \A s, c :
                     Owes(q, s, c)' =
                        IF q = p /\ s = starting[p].scheme /\ c = statement
                        THEN 0 ELSE Owes(q, s, c)
         /\ Owes(p, starting[p].scheme, statement) = 1
<1>1. /\ starting[p].left \in Seq(Statements) /\ starting[p].left # <<>>
      /\ OnceEach(starting[p].left)
      /\ Head(starting[p].left) = statement
      /\ starting' = [starting EXCEPT ![p].left = Tail(@)]
  BY DEF Does, CategoriesInv
<1>2. /\ Tail(starting[p].left) \in Seq(Statements)
      /\ OnceEach(Tail(starting[p].left))
      /\ \A c : IsLeft(Tail(starting[p].left), c)
                 <=> IsLeft(starting[p].left, c) /\ c # statement
  BY <1>1, TailOnceEach
<1>3. \A q \in StartPods :
         /\ starting'[q].scheme = starting[q].scheme
         /\ starting'[q].left = IF q = p THEN Tail(starting[p].left) ELSE starting[q].left
  BY <1>1 DEF CategoriesInv
<1>4. IsLeft(starting[p].left, statement)
  <2>1. 1 \in 1..Len(starting[p].left) /\ starting[p].left[1] = statement
    BY <1>1
  <2>2. QED
    BY <2>1 DEF IsLeft
<1>5. starting' \in [StartPods -> [scheme : NewSchemes \cup {"none"},
                                  left : Seq(Statements)]]
  BY <1>1, <1>2 DEF CategoriesInv
<1>6. ASSUME NEW q \in StartPods, NEW s, NEW c
      PROVE  Owes(q, s, c)' =
                IF q = p /\ s = starting[p].scheme /\ c = statement
                THEN 0 ELSE Owes(q, s, c)
  <2>1. Owes(q, s, c)' =
           IF starting'[q].scheme = s /\ IsLeft(starting'[q].left, c) THEN 1 ELSE 0
    BY DEF Owes, IsLeft
  <2>2. QED
    BY <1>2, <1>3, <2>1 DEF Owes
<1>7. QED
  BY <1>1, <1>2, <1>3, <1>4, <1>5, <1>6 DEF CategoriesInv, Owes

LEMMA CategoriesKept ==
  CategoriesInv /\ (SchemesNext \/ UNCHANGED schemesVars) => CategoriesInv'
<1> SUFFICES ASSUME CategoriesInv, SchemesNext \/ UNCHANGED schemesVars
             PROVE  CategoriesInv'
  OBVIOUS
<1>0. /\ 1 \in StartPods /\ 2 \in StartPods /\ \A p \in StartPods : p = 1 \/ p = 2
      /\ \A s : Required(s) \subseteq Categories
      /\ \A p, s, c : Owes(p, s, c) \in {0, 1}
  BY DEF StartPods, Required, Categories, Owes
<1>1. CASE UNCHANGED schemesVars
  <2>1. \A p, s, c : Owes(p, s, c)' = Owes(p, s, c)
    BY <1>1 DEF schemesVars, Owes, IsLeft
  <2>2. QED
    BY <1>1, <2>1 DEF schemesVars, CategoriesInv, OnceEach
<1>2. ASSUME NEW p \in StartPods, NEW s \in NewSchemes, FindScheme(p, s)
      PROVE  CategoriesInv'
  <2> DEFINE left == starting'[p].left
  <2>1. left = <<"upsert">> \o (IF s \in schemes THEN <<>> ELSE RequiredCategories(s))
                            \o (IF s \in marked THEN <<>> ELSE Announcement)
    BY <1>2 DEF FindScheme, CategoriesInv
  <2>2. /\ left \in Seq(Statements) /\ OnceEach(left)
        /\ \A c \in Required(s) : IsLeft(left, c) <=> s \notin schemes
    <3> HIDE DEF left
    <3>1. QED
      BY <2>1, StartsOnceEach
  <2>3. /\ starting[p].left = <<>>
        /\ starting' = [starting EXCEPT ![p] = [scheme |-> s, left |-> left]]
        /\ creators' = IF s \in schemes THEN creators
                       ELSE [creators EXCEPT ![s] = @ + 1]
        /\ UNCHANGED <<schemes, categories, incomplete>>
    BY <1>2, <2>1 DEF FindScheme
  <2> HIDE DEF left
  <2>4. /\ starting'[p].scheme = s /\ starting'[p].left = left
        /\ \A q \in StartPods : q # p => starting'[q] = starting[q]
    BY <2>3 DEF CategoriesInv
  <2>5. /\ creators' \in [NewSchemes -> Nat]
        /\ \A z \in NewSchemes : creators'[z] = IF z = s /\ s \notin schemes
                                              THEN creators[z] + 1 ELSE creators[z]
    BY <2>3 DEF CategoriesInv
  <2>6. creators'[s] >= 1
    BY <2>5 DEF CategoriesInv
  <2>7. \A z, c : Owes(p, z, c) = 0
    BY <2>3 DEF Owes, IsLeft
  <2>8. ASSUME NEW z \in NewSchemes, NEW c \in Required(z)
        PROVE  Owes(p, z, c)' = IF z = s /\ s \notin schemes THEN 1 ELSE 0
    <3>1. Owes(p, z, c)' = IF starting'[p].scheme = z /\ IsLeft(starting'[p].left, c)
                           THEN 1 ELSE 0
      BY DEF Owes, IsLeft
    <3>2. QED
      BY <2>2, <2>4, <3>1
  <2>9. \A q \in StartPods : q # p => \A z, c : Owes(q, z, c)' = Owes(q, z, c)
    <3>1. \A q, z, c : Owes(q, z, c)' =
             IF starting'[q].scheme = z /\ IsLeft(starting'[q].left, c) THEN 1 ELSE 0
      BY DEF Owes, IsLeft
    <3>2. QED
      BY <2>4, <3>1 DEF Owes
  <2>10. ASSUME NEW z \in NewSchemes \ incomplete', NEW c \in Required(z)
         PROVE  categories'[z][c] + Owes(1, z, c)' + Owes(2, z, c)' = creators'[z]
    <3>1. categories[z][c] + Owes(1, z, c) + Owes(2, z, c) = creators[z]
      BY <2>3 DEF CategoriesInv
    <3>2. categories'[z][c] = categories[z][c] /\ categories[z][c] \in Nat
          /\ creators[z] \in Nat
      BY <1>0, <2>3 DEF CategoriesInv
    <3>3. CASE p = 1
      BY <1>0, <2>5, <2>7, <2>8, <2>9, <3>1, <3>2, <3>3
    <3>4. CASE p = 2
      BY <1>0, <2>5, <2>7, <2>8, <2>9, <3>1, <3>2, <3>4
    <3>5. QED
      BY <1>0, <3>3, <3>4
  <2>11. starting' \in [StartPods -> [scheme : NewSchemes \cup {"none"},
                                     left : Seq(Statements)]]
    BY <2>2, <2>3 DEF CategoriesInv
  <2>12. ASSUME NEW q \in StartPods
         PROVE  /\ OnceEach(starting'[q].left)
                /\ starting'[q].left # <<>> =>
                      /\ starting'[q].scheme \in NewSchemes
                      /\ creators'[starting'[q].scheme] >= 1
    BY <2>2, <2>4, <2>5, <2>6 DEF CategoriesInv
  <2>13. \A z \in schemes' : creators'[z] >= 1
    BY <2>3, <2>5 DEF CategoriesInv
  <2>14. /\ categories' \in [NewSchemes -> [Categories -> Nat]]
         /\ schemes' \subseteq NewSchemes
    BY <2>3 DEF CategoriesInv
  <2>15. QED
    BY <2>5, <2>10, <2>11, <2>12, <2>13, <2>14 DEF CategoriesInv, OnceEach
<1>3. ASSUME NEW p \in StartPods, NEW statement \in Statements \ Categories,
             Does(p, statement), UNCHANGED categories,
             schemes' \subseteq schemes \cup {starting[p].scheme}
      PROVE  CategoriesInv'
  <2>1. UNCHANGED <<creators, incomplete>>
    BY <1>3 DEF Does
  <2>2. \A q \in StartPods, c \in Categories : \A z : Owes(q, z, c)' = Owes(q, z, c)
    BY <1>3, OwesKept
  <2>3. /\ starting' \in [StartPods -> [scheme : NewSchemes \cup {"none"},
                                        left : Seq(Statements)]]
        /\ starting[p].scheme \in NewSchemes
        /\ creators[starting[p].scheme] >= 1
        /\ \A q \in StartPods :
               /\ OnceEach(starting'[q].left)
               /\ starting'[q].left # <<>> =>
                     /\ starting'[q].scheme \in NewSchemes
                     /\ creators[starting'[q].scheme] >= 1
    BY <1>3, OwesKept
  <2>4. ASSUME NEW z \in NewSchemes \ incomplete', NEW c \in Required(z)
        PROVE  categories'[z][c] + Owes(1, z, c)' + Owes(2, z, c)' = creators'[z]
    <3>1. categories[z][c] + Owes(1, z, c) + Owes(2, z, c) = creators[z]
      BY <2>1 DEF CategoriesInv
    <3>2. Owes(1, z, c)' = Owes(1, z, c) /\ Owes(2, z, c)' = Owes(2, z, c)
      BY <1>0, <2>2
    <3>3. QED
      BY <1>3, <2>1, <3>1, <3>2
  <2>5. schemes' \subseteq NewSchemes /\ \A z \in schemes' : creators'[z] >= 1
    BY <1>3, <2>1, <2>3 DEF CategoriesInv
  <2>6. QED
    BY <1>3, <2>1, <2>3, <2>4, <2>5 DEF CategoriesInv, OnceEach
<1>4. ASSUME NEW p \in StartPods, AddCategory(p) PROVE CategoriesInv'
  <2>1. PICK d \in Categories :
          /\ Does(p, d)
          /\ categories' = [categories EXCEPT ![starting[p].scheme][d] = @ + 1]
    BY <1>4 DEF AddCategory
  <2>2. d \in Statements
    BY DEF Statements
  <2>3. UNCHANGED <<schemes, creators, incomplete>>
    BY <1>4, <2>1 DEF AddCategory, Does
  <2>4. starting[p].scheme \in NewSchemes
    BY <2>1, <2>2, OwesKept
  <2>5. /\ categories' \in [NewSchemes -> [Categories -> Nat]]
        /\ \A z \in NewSchemes, c \in Categories :
              categories'[z][c] = IF z = starting[p].scheme /\ c = d
                                  THEN categories[z][c] + 1 ELSE categories[z][c]
    BY <2>1, <2>4 DEF CategoriesInv
  <2>6. \A q \in StartPods : \A z, c :
           Owes(q, z, c)' = IF q = p /\ z = starting[p].scheme /\ c = d
                            THEN 0 ELSE Owes(q, z, c)
    BY <2>1, <2>2, OwesKept
  <2>7. Owes(p, starting[p].scheme, d) = 1
    BY <2>1, <2>2, OwesKept
  <2>8. ASSUME NEW z \in NewSchemes \ incomplete', NEW c \in Required(z)
        PROVE  categories'[z][c] + Owes(1, z, c)' + Owes(2, z, c)' = creators'[z]
    <3>1. categories[z][c] + Owes(1, z, c) + Owes(2, z, c) = creators[z]
      BY <2>3 DEF CategoriesInv
    <3>2. c \in Categories /\ categories[z][c] \in Nat /\ creators'[z] = creators[z]
      BY <1>0, <2>3 DEF CategoriesInv
    <3>3. CASE p = 1
      BY <1>0, <2>5, <2>6, <2>7, <3>1, <3>2, <3>3
    <3>4. CASE p = 2
      BY <1>0, <2>5, <2>6, <2>7, <3>1, <3>2, <3>4
    <3>5. QED
      BY <1>0, <3>3, <3>4
  <2>9. /\ starting' \in [StartPods -> [scheme : NewSchemes \cup {"none"},
                                        left : Seq(Statements)]]
        /\ \A q \in StartPods :
               /\ OnceEach(starting'[q].left)
               /\ starting'[q].left # <<>> =>
                     /\ starting'[q].scheme \in NewSchemes
                     /\ creators[starting'[q].scheme] >= 1
    BY <2>1, <2>2, OwesKept
  <2>10. QED
    BY <2>3, <2>5, <2>8, <2>9 DEF CategoriesInv, OnceEach
<1>5. ASSUME NEW p \in StartPods, Stop(p) PROVE CategoriesInv'
  <2>1. /\ starting' = [starting EXCEPT ![p].left = <<>>]
        /\ incomplete' =
              IF \E i \in DOMAIN starting[p].left : starting[p].left[i] \in Categories
              THEN incomplete \cup {starting[p].scheme} ELSE incomplete
        /\ UNCHANGED <<schemes, categories, creators>>
    BY <1>5 DEF Stop
  <2>2. /\ <<>> \in Seq(Statements) /\ OnceEach(<<>>)
        /\ starting'[p].left = <<>>
        /\ \A q \in StartPods : q # p => starting'[q] = starting[q]
    BY <2>1 DEF CategoriesInv, OnceEach
  <2>3. starting' \in [StartPods -> [scheme : NewSchemes \cup {"none"},
                                    left : Seq(Statements)]]
    <3>1. <<>> \in Seq(Statements)
      OBVIOUS
    <3>2. QED
      BY <2>1, <3>1 DEF CategoriesInv
  <2>4. ASSUME NEW z \in NewSchemes \ incomplete', NEW c \in Required(z), NEW q \in StartPods
        PROVE  Owes(q, z, c)' = Owes(q, z, c)
    <3>1. Owes(q, z, c)' =
             IF starting'[q].scheme = z /\ IsLeft(starting'[q].left, c) THEN 1 ELSE 0
      BY DEF Owes, IsLeft
    <3>2. CASE q # p
      BY <2>2, <3>1, <3>2 DEF Owes
    <3>3. CASE q = p
      <4>1. DOMAIN starting[p].left = 1..Len(starting[p].left)
        BY DEF CategoriesInv
      <4>2. ~(starting[p].scheme = z /\ IsLeft(starting[p].left, c))
        BY <1>0, <2>1, <4>1 DEF IsLeft
      <4>3. QED
        BY <2>2, <3>1, <3>3, <4>2 DEF Owes, IsLeft
    <3>4. QED
      BY <3>2, <3>3
  <2>5. \A q \in StartPods :
           /\ OnceEach(starting'[q].left)
           /\ starting'[q].left # <<>> =>
                 /\ starting'[q].scheme \in NewSchemes
                 /\ creators[starting'[q].scheme] >= 1
    BY <2>2 DEF CategoriesInv
  <2>6. incomplete \subseteq incomplete'
    BY <2>1
  <2>7. QED
    BY <1>0, <2>1, <2>3, <2>4, <2>5, <2>6 DEF CategoriesInv, OnceEach
<1>6. ASSUME NEW p \in StartPods,
             UpsertScheme(p) \/ SendSchemeAddedEvent(p) \/ MarkSchemeAddedEventPublished(p)
      PROVE  CategoriesInv'
  <2>1. PICK statement \in {"upsert", "announce", "mark"} : Does(p, statement)
    BY <1>6 DEF UpsertScheme, SendSchemeAddedEvent, MarkSchemeAddedEventPublished
  <2>2. statement \in Statements \ Categories
    BY DEF Statements, Categories
  <2>3. UNCHANGED categories /\ schemes' \subseteq schemes \cup {starting[p].scheme}
    BY <1>6 DEF UpsertScheme, SendSchemeAddedEvent, MarkSchemeAddedEventPublished
  <2>4. QED
    BY <1>3, <2>1, <2>2, <2>3
<1>7. QED
  BY <1>1, <1>2, <1>4, <1>5, <1>6 DEF SchemesNext

\* Once no pod has anything left to do, a scheme has each category it needs once
\* for every pod that found it missing, however the pods' statements interleave,
\* unless a pod was stopped before it had added them (updateSchemesDatabase).
THEOREM CategoriesComplete == Spec => []CategoriesForEveryScheme
<1>1. Init => CategoriesInv
  BY ComponentsInit, CategoriesInitially
<1>2. CategoriesInv /\ [Next]_vars => CategoriesInv'
  BY SchemesStep, CategoriesKept
<1>3. CategoriesInv => CategoriesForEveryScheme
  <2> SUFFICES ASSUME CategoriesInv, \A p \in StartPods : starting[p].left = <<>>,
                      NEW s \in schemes \ incomplete
               PROVE  /\ creators[s] >= 1
                      /\ \A c \in Required(s) : categories[s][c] = creators[s]
    BY DEF CategoriesForEveryScheme, Required
  <2>1. \A c : Owes(1, s, c) = 0 /\ Owes(2, s, c) = 0
    BY DEF Owes, IsLeft, StartPods
  <2>2. \A c \in Required(s) : categories[s][c] \in Nat
    BY DEF CategoriesInv, Required, Categories
  <2>3. QED
    BY <2>1, <2>2 DEF CategoriesInv
<1>4. QED
  BY <1>1, <1>2, <1>3, PTL DEF Spec

-----------------------------------------------------------------------------
(* Settlements.  A payment shows a settlement that was applied to it and   *)
(* that none applied to it is later than.                                  *)

AppliedTo(i) == {m \in applied : i \in GetSettlementFilter(m)}

Newest(i, m) ==
    m \in AppliedTo(i) /\ \A n \in AppliedTo(i) : n.date <= m.date

ShowsNewest(i) ==
    \/ AppliedTo(i) = {} /\ settled[i] = [last |-> 0, value |-> 0]
    \/ \E m \in AppliedTo(i) :
          Newest(i, m) /\ settled[i] = [last |-> m.date, value |-> SettledValue(m)]

SettlementsInv ==
    /\ applied \subseteq Returns
    /\ returning \in [ReturnPods -> [returns : SUBSET Returns, value : Nat]]
    /\ \A p \in ReturnPods : \A m \in returning[p].returns :
          returning[p].value = SettledValue(m)
    /\ \A i \in Invoices : ShowsNewest(i)

LEMMA SettledValueTyped ==
  ASSUME NEW m \in Returns
  PROVE  SettledValue(m) \in Nat
  BY SettlementsAssumption DEF SettledValue

LEMMA SettlementsInitially == SettlementsInit => SettlementsInv
  BY DEF SettlementsInit, SettlementsInv, ShowsNewest, AppliedTo, Idle

\* One more settlement: the later of the two is shown.
LEMMA SupersededByNewer ==
  ASSUME SettlementsInv, NEW i \in Invoices, NEW m \in Returns,
         applied' = applied \cup {m}, UNCHANGED source,
         settled'[i] = IF i \in GetSettlementFilter(m) /\ SupersedesLast(i, m)
                       THEN [last |-> m.date, value |-> SettledValue(m)]
                       ELSE settled[i]
  PROVE  ShowsNewest(i)'
<1>1. \A n : SettledValue(n)' = SettledValue(n)
  BY DEF SettledValue
<1>2. \A n : i \in GetSettlementFilter(n)' <=> i \in GetSettlementFilter(n)
  BY DEF GetSettlementFilter
<1>3. \A n \in Returns : n.date \in Nat \ {0}
  BY SettlementsAssumption
<1>4. applied \subseteq Returns /\ ShowsNewest(i)
  BY DEF SettlementsInv
<1>5. CASE i \notin GetSettlementFilter(m)
  <2>1. AppliedTo(i)' = AppliedTo(i)
    BY <1>2, <1>5 DEF AppliedTo
  <2>2. settled'[i] = settled[i]
    BY <1>5
  <2>3. QED
    BY <1>1, <1>4, <2>1, <2>2 DEF ShowsNewest, Newest
<1>6. CASE i \in GetSettlementFilter(m)
  <2>1. AppliedTo(i)' = AppliedTo(i) \cup {m}
    BY <1>2, <1>6 DEF AppliedTo
  <2>2. CASE AppliedTo(i) = {}
    <3>1. settled'[i] = [last |-> m.date, value |-> SettledValue(m)]
      BY <1>4, <1>6, <2>2 DEF ShowsNewest, SupersedesLast
    <3>2. Newest(i, m)'
      BY <1>3, <2>1, <2>2 DEF Newest
    <3>3. QED
      BY <1>1, <2>1, <3>1, <3>2 DEF ShowsNewest
  <2>3. ASSUME NEW n \in AppliedTo(i), Newest(i, n),
               settled[i] = [last |-> n.date, value |-> SettledValue(n)]
        PROVE  ShowsNewest(i)'
    <3>1. n \in Returns /\ AppliedTo(i) \subseteq Returns
      BY <1>4 DEF AppliedTo
    <3>2. SupersedesLast(i, m) <=> n.date < m.date
      BY <1>3, <2>3, <3>1 DEF SupersedesLast
    <3>3. CASE n.date < m.date
      <4>1. Newest(i, m)'
        BY <1>3, <2>1, <2>3, <3>1, <3>3 DEF Newest
      <4>2. QED
        BY <1>1, <1>6, <2>1, <3>2, <3>3, <4>1 DEF ShowsNewest
    <3>4. CASE ~(n.date < m.date)
      <4>1. Newest(i, n)'
        BY <1>3, <2>1, <2>3, <3>1, <3>4 DEF Newest
      <4>2. settled'[i] = settled[i]
        BY <3>2, <3>4
      <4>3. QED
        BY <1>1, <2>1, <2>3, <4>1, <4>2 DEF ShowsNewest
    <3>5. QED
      BY <3>3, <3>4
  <2>4. QED
    BY <1>4, <2>2, <2>3 DEF ShowsNewest
<1>7. QED
  BY <1>5, <1>6

LEMMA SettlementsKept ==
  SettlementsInv /\ (SettlementsNext \/ UNCHANGED settlementVars) => SettlementsInv'
<1> SUFFICES ASSUME SettlementsInv, SettlementsNext \/ UNCHANGED settlementVars
             PROVE  SettlementsInv'
  OBVIOUS
<1>1. ASSUME UNCHANGED <<source, settled, applied>>
      PROVE  /\ \A m : SettledValue(m)' = SettledValue(m)
             /\ applied' \subseteq Returns
             /\ \A i \in Invoices : ShowsNewest(i)'
  BY <1>1 DEF SettlementsInv, SettledValue, ShowsNewest, Newest, AppliedTo,
              GetSettlementFilter
<1>2. CASE UNCHANGED settlementVars
  BY <1>1, <1>2 DEF settlementVars, SettlementsInv
<1>3. ASSUME NEW p \in ReturnPods, NEW m \in Returns, ProcessReturnMessage(p, m)
      PROVE  SettlementsInv'
  <2>1. /\ UNCHANGED <<source, settled, applied>>
        /\ returning' = [returning EXCEPT ![p] =
                            [returns |-> {m}, value |-> SettledValue(m)]]
    BY <1>3 DEF ProcessReturnMessage
  <2>2. ASSUME NEW q \in ReturnPods, NEW n \in returning'[q].returns
        PROVE  returning'[q].value = SettledValue(n)
    BY <2>1, <2>2 DEF SettlementsInv
  <2>3. returning' \in [ReturnPods -> [returns : SUBSET Returns, value : Nat]]
    BY <2>1, SettledValueTyped DEF SettlementsInv
  <2>4. QED
    BY <1>1, <2>1, <2>2, <2>3 DEF SettlementsInv
<1>4. ASSUME NEW p \in ReturnPods, NEW m \in Returns, DeadLetterReturn(p, m)
      PROVE  SettlementsInv'
  BY <1>1, <1>4 DEF DeadLetterReturn, SettlementsInv
<1>5. ASSUME NEW p \in ReturnPods, UpdateSettlementStatus(p)
      PROVE  SettlementsInv'
  <2>1. PICK m \in returning[p].returns :
          /\ settled' = [i \in Invoices |->
                            IF i \in GetSettlementFilter(m) /\ SupersedesLast(i, m)
                            THEN [last |-> m.date, value |-> returning[p].value]
                            ELSE settled[i]]
          /\ applied' = applied \cup {m}
          /\ returning' = [returning EXCEPT ![p] = Idle]
          /\ UNCHANGED source
    BY <1>5 DEF UpdateSettlementStatus
  <2>2. m \in Returns /\ returning[p].value = SettledValue(m)
    BY <2>1 DEF SettlementsInv
  <2>3. ASSUME NEW i \in Invoices PROVE ShowsNewest(i)'
    BY <2>1, <2>2, SupersededByNewer
  <2>4. \A n : SettledValue(n)' = SettledValue(n)
    BY <2>1 DEF SettledValue
  <2>5. ASSUME NEW q \in ReturnPods, NEW n \in returning'[q].returns
        PROVE  returning'[q].value = SettledValue(n)
    BY <2>1, <2>5 DEF SettlementsInv, Idle
  <2>6. returning' \in [ReturnPods -> [returns : SUBSET Returns, value : Nat]]
    BY <2>1 DEF SettlementsInv, Idle
  <2>7. QED
    BY <2>1, <2>2, <2>3, <2>4, <2>5, <2>6 DEF SettlementsInv
<1>6. QED
  BY <1>2, <1>3, <1>4, <1>5 DEF SettlementsNext

\* In whatever order settlements arrive and however often, a payment shows the
\* latest of those that were applied (updateSettlementStatus).
THEOREM NewestSettlementShown == Spec => []SettledByNewest
<1>1. Init => SettlementsInv
  BY ComponentsInit, SettlementsInitially
<1>2. SettlementsInv /\ [Next]_vars => SettlementsInv'
  BY SettlementsStep, SettlementsKept
<1>3. SettlementsInv => SettledByNewest
  BY DEF SettlementsInv, SettledByNewest, ShowsNewest, Newest, AppliedTo
<1>4. QED
  BY <1>1, <1>2, <1>3, PTL DEF Spec

-----------------------------------------------------------------------------
(* The holds of users.  What a bulk removal has passed of the holds that   *)
(* it found open is closed: nothing opens a hold again.                    *)

\* A bulk removal under way.
Removal == [left : SUBSET Frns, category : HoldTypes, found : SUBSET Frns, old : SUBSET Nat]

\* The holds it found are holds of its category; those of customers it is done
\* with are closed.
RemovedIsClosed(r, hs) ==
    \A i \in r.old :
        /\ i \in DOMAIN hs
        /\ hs[i].category = r.category
        /\ hs[i].frn \notin r.left => ~hs[i].open

\* A removal that is under way has closed what it has passed.
HoldsInv ==
    /\ holds \in Seq([frn : Frns, category : HoldTypes, open : BOOLEAN])
    /\ unsaved \subseteq [frn : Frns, category : HoldTypes]
    /\ removing \subseteq Removal
    /\ \A r \in removing : RemovedIsClosed(r, holds)

LEMMA HoldsInitially == PaymentHoldsInit => HoldsInv
  BY DEF PaymentHoldsInit, HoldsInv

LEMMA Inserted ==
    ASSUME HoldsInv, NEW f \in Frns, NEW k \in HoldTypes, Insert(f, k)
    PROVE  /\ holds' \in Seq([frn : Frns, category : HoldTypes, open : BOOLEAN])
           /\ DOMAIN holds \subseteq DOMAIN holds'
           /\ \A i \in DOMAIN holds : holds'[i] = holds[i]
<1> DEFINE R == [frn : Frns, category : HoldTypes, open : BOOLEAN]
           h == [frn |-> f, category |-> k, open |-> TRUE]
<1>1. holds \in Seq(R) /\ h \in R /\ holds' = Append(holds, h)
  BY DEF HoldsInv, Insert
<1> HIDE DEF R, h
<1>2. QED
  BY <1>1, AppendProperties DEF R

LEMMA HoldsKept == HoldsInv /\ (PaymentHoldsNext \/ UNCHANGED paymentHoldsVars) => HoldsInv'
<1> SUFFICES ASSUME HoldsInv, PaymentHoldsNext \/ UNCHANGED paymentHoldsVars
             PROVE  HoldsInv'
  OBVIOUS
<1> DEFINE R == [frn : Frns, category : HoldTypes, open : BOOLEAN]
<1>0. holds \in Seq(R) /\ DOMAIN holds \subseteq Nat
  BY DEF HoldsInv
<1>00. holds \in [1..Len(holds) -> R] /\ Len(holds) \in Nat /\ DOMAIN holds = 1..Len(holds)
  BY <1>0, LenProperties DEF R
<1>a. ASSUME NEW f \in Frns, NEW k \in HoldTypes, Insert(f, k), UNCHANGED removing,
             unsaved' \subseteq unsaved
      PROVE  HoldsInv'
  BY <1>a, Inserted DEF HoldsInv, RemovedIsClosed
<1>1. ASSUME NEW f \in Frns, NEW k \in HoldTypes, AddHold(f, k)
      PROVE  HoldsInv'
  BY <1>1, <1>a DEF AddHold
<1>2. ASSUME NEW fs \in SUBSET Frns, NEW k \in HoldTypes, AddBulkHold(fs, k)
      PROVE  HoldsInv'
  BY <1>2 DEF AddBulkHold, HoldsInv, RemovedIsClosed
<1>3. ASSUME NEW fs \in SUBSET Frns, NEW k \in HoldTypes, StartBulkRemoval(fs, k)
      PROVE  HoldsInv'
  <2> DEFINE r == [left |-> fs, category |-> k, found |-> {},
                     old |-> {i \in DOMAIN holds : Open(i)
                                 /\ holds[i].frn \in fs
                                 /\ holds[i].category = k}]
  <2>1. removing' = {r} /\ UNCHANGED <<holds, unsaved>>
    BY <1>3 DEF StartBulkRemoval
  <2>2. r \in Removal
    BY <1>0 DEF Removal
  <2>3. RemovedIsClosed(r, holds)
    BY DEF RemovedIsClosed
  <2> HIDE DEF r
  <2>4. QED
    BY <2>1, <2>2, <2>3 DEF HoldsInv
<1>4. ASSUME NEW u \in unsaved, SaveBulkHold(u)
      PROVE  HoldsInv'
  <2>1. u.frn \in Frns /\ u.category \in HoldTypes
    BY DEF HoldsInv
  <2>2. CASE u.category \in holdTypes
    BY <1>4, <1>a, <2>1, <2>2 DEF SaveBulkHold
  <2>3. CASE u.category \notin holdTypes
    <3>1. UNCHANGED holds /\ unsaved' = {} /\ removing' \subseteq removing
      BY <1>4, <2>3 DEF SaveBulkHold
    <3>2. QED
      BY <3>1 DEF HoldsInv, RemovedIsClosed
  <2>4. QED
    BY <2>2, <2>3
<1>5. ASSUME NEW i \in DOMAIN holds, RemoveHoldById(i)
      PROVE  HoldsInv'
  <2>1. holds' = [holds EXCEPT ![i].open = FALSE] /\ UNCHANGED <<unsaved, removing>>
    BY <1>5 DEF RemoveHoldById
  <2>2. holds' \in Seq(R) /\ DOMAIN holds' = DOMAIN holds
    <3>1. \A j \in 1..Len(holds) : holds'[j] \in R
      BY <1>00, <2>1
    <3>2. holds' \in [1..Len(holds) -> R]
      BY <1>00, <2>1, <3>1
    <3>3. QED
      BY <1>00, <3>2, FunctionIsSeq DEF R
  <2>3. \A j \in DOMAIN holds : /\ holds'[j].frn = holds[j].frn
                                /\ holds'[j].category = holds[j].category
                                /\ holds'[j].open => holds[j].open
    BY <1>0, <2>1
  <2>4. QED
    BY <2>1, <2>2, <2>3 DEF HoldsInv, RemovedIsClosed
<1>6. ASSUME NEW r \in removing, NEW f \in r.left, FindHeld(r, f)
      PROVE  HoldsInv'
  <2>0. r \in Removal /\ RemovedIsClosed(r, holds) /\ f \in Frns
    BY DEF HoldsInv, Removal
  <2>1. CASE \E i \in DOMAIN holds : Open(i) /\ holds[i].frn = f
                                      /\ holds[i].category = r.category
    <3> DEFINE s == [r EXCEPT !.found = {f}]
    <3>1. removing' = (removing \ {r}) \cup {s} /\ UNCHANGED <<holds, unsaved>>
      BY <1>6, <2>1 DEF FindHeld
    <3>2. s \in Removal /\ s.left = r.left /\ s.category = r.category /\ s.old = r.old
      BY <2>0 DEF Removal
    <3>3. RemovedIsClosed(s, holds)
      BY <2>0, <3>2 DEF RemovedIsClosed
    <3> HIDE DEF s
    <3>4. QED
      BY <3>1, <3>2, <3>3 DEF HoldsInv
  <2>2. CASE ~\E i \in DOMAIN holds : Open(i) /\ holds[i].frn = f
                                      /\ holds[i].category = r.category
    <3> DEFINE s == [r EXCEPT !.left = @ \ {f}]
    <3>1. removing' = (removing \ {r}) \cup {s} /\ UNCHANGED <<holds, unsaved>>
      BY <1>6, <2>2 DEF FindHeld
    <3>2. s \in Removal /\ s.left = r.left \ {f} /\ s.category = r.category /\ s.old = r.old
      BY <2>0 DEF Removal
    <3>3. RemovedIsClosed(s, holds)
      BY <2>0, <2>2, <3>2 DEF RemovedIsClosed, Open
    <3> HIDE DEF s
    <3>4. QED
      BY <3>1, <3>2, <3>3 DEF HoldsInv
  <2>3. QED
    BY <2>1, <2>2
<1>7. ASSUME NEW r \in removing, NEW f \in r.left, CloseHeld(r, f)
      PROVE  HoldsInv'
  <2>0. r \in Removal /\ RemovedIsClosed(r, holds) /\ f \in Frns
    BY DEF HoldsInv, Removal
  <2> DEFINE s == [r EXCEPT !.left = @ \ {f}, !.found = {}]
  <2>1. removing' = (removing \ {r}) \cup {s} /\ UNCHANGED unsaved
    BY <1>7 DEF CloseHeld
  <2>2. s \in Removal /\ s.left = r.left \ {f} /\ s.category = r.category /\ s.old = r.old
    BY <2>0 DEF Removal
  <2>3. holds' = CloseAll(f, r.category)
    BY <1>7 DEF CloseHeld
  <2>4. holds' \in Seq(R) /\ DOMAIN holds' = DOMAIN holds
    <3>1. \A i \in 1..Len(holds) : holds'[i] \in R
      BY <1>00, <2>3 DEF CloseAll
    <3>2. holds' \in [1..Len(holds) -> R]
      BY <1>00, <2>3, <3>1 DEF CloseAll
    <3>3. QED
      BY <1>00, <3>2, FunctionIsSeq DEF R
  <2>5. \A j \in DOMAIN holds :
           /\ holds'[j].frn = holds[j].frn
           /\ holds'[j].category = holds[j].category
           /\ holds'[j].open => holds[j].open /\ ~(holds[j].frn = f /\ holds[j].category = r.category)
    BY <1>0, <2>3 DEF CloseAll
  <2>6. RemovedIsClosed(s, holds')
    BY <2>0, <2>2, <2>4, <2>5 DEF RemovedIsClosed
  <2>7. \A q \in removing : RemovedIsClosed(q, holds')
    BY <2>4, <2>5 DEF RemovedIsClosed, HoldsInv
  <2> HIDE DEF s
  <2>8. QED
    BY <2>1, <2>2, <2>4, <2>6, <2>7 DEF HoldsInv
<1>8. ASSUME NEW r \in removing, AnswerRemoval(r)
      PROVE  HoldsInv'
  BY <1>8 DEF AnswerRemoval, HoldsInv, RemovedIsClosed
<1>9. ASSUME NEW k \in HoldTypes, AddHoldType(k) \/ RemoveHoldType(k)
      PROVE  HoldsInv'
  BY <1>9 DEF AddHoldType, RemoveHoldType, HoldsInv, RemovedIsClosed
<1>10. CASE UNCHANGED paymentHoldsVars
  BY <1>10 DEF paymentHoldsVars, HoldsInv, RemovedIsClosed
<1>11. QED
  BY <1>1, <1>2, <1>3, <1>4, <1>5, <1>6, <1>7, <1>8, <1>9, <1>10
  DEF PaymentHoldsNext, SomeFrns

\* What was open when a bulk removal began is off the list as soon as the
\* removal is done with its customer, for every customer and any number of
\* holds, of removals and of holds added or removed meanwhile (removeBulkHold,
\* getHolds).
THEOREM RemovalIsComplete == Spec => []RemovedIsUnlisted
<1>1. Init => HoldsInv
  BY HoldsInitially DEF Init
<1>2. HoldsInv /\ [Next]_vars => HoldsInv'
  BY HoldingStep, HoldsKept
<1>3. HoldsInv => RemovedIsUnlisted
  BY DEF HoldsInv, RemovedIsClosed, RemovedIsUnlisted, GetHolds, Open
<1>4. QED
  BY <1>1, <1>2, <1>3, PTL DEF Spec

-----------------------------------------------------------------------------
(* Types.  Each component keeps its type invariant; what bounds its        *)
(* counters says where they come from.                                     *)

\* A message is on the queue, dead-lettered or applied.
SettlementsTyped ==
    /\ source \in {"ES", "FC", "IMPS", "BPS", "SFI"}
    /\ settled \in [Invoices -> [last : Nat, value : Nat]]
    /\ returns \subseteq Returns /\ unmatched \subseteq Returns

LEMMA SettlementsTypedInitially == SettlementsInit => SettlementsTyped
  BY DEF SettlementsInit, SettlementsTyped

LEMMA SettlementsTypedKept ==
    SettlementsInv /\ SettlementsTyped /\ (SettlementsNext \/ UNCHANGED settlementVars)
        => SettlementsTyped'
<1> SUFFICES ASSUME SettlementsInv, SettlementsTyped,
                    SettlementsNext \/ UNCHANGED settlementVars
             PROVE  SettlementsTyped'
  OBVIOUS
<1>1. CASE UNCHANGED settlementVars
  BY <1>1 DEF settlementVars, SettlementsTyped
<1>2. ASSUME NEW p \in ReturnPods, NEW m \in Returns,
             ProcessReturnMessage(p, m) \/ DeadLetterReturn(p, m)
      PROVE  SettlementsTyped'
  BY <1>2 DEF ProcessReturnMessage, DeadLetterReturn, SettlementsTyped
<1>3. ASSUME NEW p \in ReturnPods, UpdateSettlementStatus(p)
      PROVE  SettlementsTyped'
  <2>1. PICK m \in returning[p].returns :
          /\ settled' = [i \in Invoices |->
                            IF i \in GetSettlementFilter(m) /\ SupersedesLast(i, m)
                            THEN [last |-> m.date, value |-> returning[p].value]
                            ELSE settled[i]]
          /\ returns' \in {returns, returns \ {m}}
          /\ UNCHANGED <<source, unmatched>>
    BY <1>3 DEF UpdateSettlementStatus
  <2>2. m \in Returns /\ returning[p].value \in Nat
    BY DEF SettlementsInv
  <2>3. m.date \in Nat
    BY <2>2, SettlementsAssumption
  <2>4. settled' \in [Invoices -> [last : Nat, value : Nat]]
    BY <2>1, <2>2, <2>3 DEF SettlementsTyped
  <2>5. QED
    BY <2>1, <2>4 DEF SettlementsTyped
<1>4. QED
  BY <1>1, <1>2, <1>3 DEF SettlementsNext

LEMMA SettlementsAreTyped == SettlementsInv /\ SettlementsTyped => SettlementsTypeOK
  BY DEF SettlementsInv, SettlementsTyped, SettlementsTypeOK

\* A hold has its category, saved or not the holds are no more than may be, and
\* a removal has found nobody who is not left for it.
HoldsBounded ==
    /\ IsFiniteSet(unsaved)
    /\ Len(holds) + Cardinality(unsaved) <= MaxHolds
    /\ \A i \in DOMAIN holds : holds[i].category \in holdTypes
    /\ \A r \in removing : r.found \subseteq r.left
    /\ \A r \in removing : r.found = {} \/ \E f : r.found = {f}

LEMMA HoldsBoundedInitially == PaymentHoldsInit => HoldsBounded
<1> SUFFICES ASSUME PaymentHoldsInit PROVE HoldsBounded
  OBVIOUS
<1>1. holds = <<>> /\ unsaved = {} /\ removing = {}
  BY DEF PaymentHoldsInit
<1>2. IsFiniteSet({}) /\ Cardinality({}) = 0 /\ Len(holds) = 0 /\ DOMAIN holds = {}
  BY <1>1, FS_EmptySet
<1>3. QED
  BY <1>1, <1>2, PaymentHoldsAssumption DEF HoldsBounded

\* One hold more.
LEMMA InsertedLast ==
    ASSUME HoldsInv, NEW f \in Frns, NEW k \in HoldTypes, Insert(f, k), k \in holdTypes,
           UNCHANGED holdTypes, \A i \in DOMAIN holds : holds[i].category \in holdTypes
    PROVE  /\ Len(holds') = Len(holds) + 1
           /\ \A i \in DOMAIN holds' : holds'[i].category \in holdTypes'
<1> DEFINE h == [frn |-> f, category |-> k, open |-> TRUE]
           R == [frn : Frns, category : HoldTypes, open : BOOLEAN]
<1>1. holds \in Seq(R) /\ h \in R /\ holds' = Append(holds, h) /\ h.category = k
  BY DEF Insert, HoldsInv
<1> HIDE DEF R, h
<1>2. /\ Len(holds) \in Nat /\ Len(holds') = Len(holds) + 1
      /\ DOMAIN holds = 1..Len(holds) /\ DOMAIN holds' = 1..(Len(holds) + 1)
      /\ \A i \in DOMAIN holds : holds'[i] = holds[i]
      /\ holds'[Len(holds) + 1] = h
  BY <1>1, AppendProperties, LenProperties
<1>3. ASSUME NEW i \in DOMAIN holds'
      PROVE  holds'[i].category \in holdTypes'
  <2>1. i \in DOMAIN holds \/ i = Len(holds) + 1
    BY <1>2
  <2>2. QED
    BY <1>1, <1>2, <2>1
<1>4. QED
  BY <1>2, <1>3

LEMMA HoldsBoundedKept ==
    ASSUME IsFiniteSet(Frns), HoldsInv, HoldsBounded,
           PaymentHoldsNext \/ UNCHANGED paymentHoldsVars
    PROVE  HoldsBounded'
<1>0. /\ Len(holds) \in Nat /\ Cardinality(unsaved) \in Nat /\ MaxHolds \in Nat
      /\ DOMAIN holds = 1..Len(holds)
      /\ \A r \in removing : r \in Removal
      /\ \A i \in DOMAIN holds : holds[i].category \in holdTypes
  BY FS_CardinalityType, LenProperties, PaymentHoldsAssumption DEF HoldsInv, HoldsBounded
<1>1. ASSUME UNCHANGED <<holds, unsaved, holdTypes>>, NEW r \in removing, NEW s,
             removing' = (removing \ {r}) \cup {s}, s.found \subseteq s.left,
             s.found = {} \/ \E f : s.found = {f}
      PROVE  HoldsBounded'
  BY <1>1 DEF HoldsBounded
<1>2. ASSUME NEW f \in Frns, NEW k \in HoldTypes, AddHold(f, k)
      PROVE  HoldsBounded'
  <2>1. /\ Len(holds) + Cardinality(unsaved) < MaxHolds
        /\ k \in holdTypes /\ Insert(f, k) /\ UNCHANGED <<holdTypes, unsaved, removing>>
    BY <1>2 DEF AddHold
  <2>2. /\ Len(holds') = Len(holds) + 1
        /\ \A i \in DOMAIN holds' : holds'[i].category \in holdTypes'
    BY <1>0, <2>1, InsertedLast
  <2>3. Len(holds') + Cardinality(unsaved') <= MaxHolds
    BY <1>0, <2>1, <2>2
  <2>4. QED
    BY <2>1, <2>2, <2>3 DEF HoldsBounded
<1>3. ASSUME NEW fs \in SUBSET Frns, NEW k \in HoldTypes, AddBulkHold(fs, k)
      PROVE  HoldsBounded'
  <2> DEFINE u == {[frn |-> f, category |-> k] : f \in fs}
             F == [f \in fs |-> [frn |-> f, category |-> k]]
  <2>1. IsFiniteSet(fs) /\ Cardinality(fs) \in Nat
    BY FS_Subset, FS_CardinalityType
  <2>2. F \in Surjection(fs, u)
    BY DEF Surjection
  <2>3. IsFiniteSet(u) /\ Cardinality(u) <= Cardinality(fs) /\ Cardinality(u) \in Nat
    <3> HIDE DEF F, u
    <3>1. QED
      BY <2>1, <2>2, FS_Surjection, FS_CardinalityType
  <2>4. /\ unsaved' = u /\ UNCHANGED <<holds, holdTypes, removing>>
        /\ Len(holds) + Cardinality(fs) <= MaxHolds
    BY <1>3 DEF AddBulkHold
  <2> HIDE DEF u
  <2>5. IsFiniteSet(unsaved') /\ Len(holds') + Cardinality(unsaved') <= MaxHolds
    <3>1. PICK x, y, z : x = Len(holds) /\ y = Cardinality(fs) /\ z = Cardinality(u)
      OBVIOUS
    <3>2. Len(holds') = x /\ Cardinality(unsaved') = z
      BY <2>4, <3>1
    <3>3. x + z <= MaxHolds
      BY <1>0, <2>1, <2>3, <2>4, <3>1
    <3>4. QED
      BY <2>3, <2>4, <3>2, <3>3
  <2>6. QED
    BY <2>4, <2>5 DEF HoldsBounded
<1>4. ASSUME NEW fs \in SUBSET Frns, NEW k \in HoldTypes, StartBulkRemoval(fs, k)
      PROVE  HoldsBounded'
  BY <1>4 DEF StartBulkRemoval, HoldsBounded
<1>5. ASSUME NEW u \in unsaved, SaveBulkHold(u)
      PROVE  HoldsBounded'
  <2>1. /\ IsFiniteSet(unsaved \ {u})
        /\ Cardinality(unsaved \ {u}) = Cardinality(unsaved) - 1
    BY FS_RemoveElement DEF HoldsBounded
  <2>2. Len(holds) + Cardinality(unsaved) <= MaxHolds
    BY DEF HoldsBounded
  <2>3. CASE u.category \in holdTypes
    <3>1. /\ Insert(u.frn, u.category)
          /\ unsaved' = unsaved \ {u} /\ UNCHANGED <<holdTypes, removing>>
      BY <1>5, <2>3 DEF SaveBulkHold
    <3>2. u.frn \in Frns /\ u.category \in HoldTypes
      BY DEF HoldsInv
    <3>3. /\ Len(holds') = Len(holds) + 1
          /\ \A i \in DOMAIN holds' : holds'[i].category \in holdTypes'
      BY <1>0, <2>3, <3>1, <3>2, InsertedLast
    <3>4. Len(holds') + Cardinality(unsaved') <= MaxHolds
      BY <1>0, <2>1, <2>2, <3>1, <3>3
    <3>5. QED
      BY <2>1, <3>1, <3>3, <3>4 DEF HoldsBounded
  <2>4. CASE u.category \notin holdTypes
    <3>1. /\ UNCHANGED <<holds, holdTypes>>
          /\ unsaved' = {} /\ removing' \subseteq removing
      BY <1>5, <2>4 DEF SaveBulkHold
    <3>2. IsFiniteSet(unsaved') /\ Len(holds') + Cardinality(unsaved') <= MaxHolds
      BY <1>0, <2>2, <3>1, FS_EmptySet
    <3>3. QED
      BY <3>1, <3>2 DEF HoldsBounded
  <2>5. QED
    BY <2>3, <2>4
<1>6. ASSUME NEW hs, holds' = hs, UNCHANGED <<unsaved, holdTypes>>, DOMAIN hs = 1..Len(holds),
             Len(hs) = Len(holds),
             \A i \in 1..Len(holds) : hs[i].category = holds[i].category
      PROVE  /\ IsFiniteSet(unsaved')
             /\ Len(holds') + Cardinality(unsaved') <= MaxHolds
             /\ \A i \in DOMAIN holds' : holds'[i].category \in holdTypes'
  BY <1>0, <1>6 DEF HoldsBounded
<1>7. ASSUME NEW i \in DOMAIN holds, RemoveHoldById(i)
      PROVE  HoldsBounded'
  <2>1. holds' = [holds EXCEPT ![i].open = FALSE] /\ UNCHANGED <<unsaved, removing, holdTypes>>
    BY <1>7 DEF RemoveHoldById
  <2>2. holds \in [1..Len(holds) -> [frn : Frns, category : HoldTypes, open : BOOLEAN]]
    BY LenProperties DEF HoldsInv
  <2>3. DOMAIN holds' = 1..Len(holds)
        /\ \A j \in 1..Len(holds) : holds'[j].category = holds[j].category
    BY <2>1, <2>2
  <2>4. Len(holds') = Len(holds)
    BY <1>0, <2>3
  <2>5. QED
    BY <1>6, <2>1, <2>3, <2>4 DEF HoldsBounded
<1>8. ASSUME NEW r \in removing, NEW f \in r.left, FindHeld(r, f)
      PROVE  HoldsBounded'
  <2>0. r \in Removal /\ r.found = {}
    BY <1>0, <1>8 DEF FindHeld
  <2>1. CASE \E i \in DOMAIN holds : Open(i) /\ holds[i].frn = f
                                      /\ holds[i].category = r.category
    <3> DEFINE s == [r EXCEPT !.found = {f}]
    <3>1. removing' = (removing \ {r}) \cup {s} /\ UNCHANGED <<holds, unsaved, holdTypes>>
      BY <1>8, <2>1 DEF FindHeld
    <3>2. s.found = {f} /\ s.left = r.left
      BY <2>0 DEF Removal
    <3> HIDE DEF s
    <3>3. QED
      BY <1>1, <3>1, <3>2
  <2>2. CASE ~\E i \in DOMAIN holds : Open(i) /\ holds[i].frn = f
                                      /\ holds[i].category = r.category
    <3> DEFINE s == [r EXCEPT !.left = @ \ {f}]
    <3>1. removing' = (removing \ {r}) \cup {s} /\ UNCHANGED <<holds, unsaved, holdTypes>>
      BY <1>8, <2>2 DEF FindHeld
    <3>2. s.found = {}
      BY <2>0 DEF Removal
    <3> HIDE DEF s
    <3>3. QED
      BY <1>1, <3>1, <3>2
  <2>3. QED
    BY <2>1, <2>2
<1>9. ASSUME NEW r \in removing, NEW f \in r.left, CloseHeld(r, f)
      PROVE  HoldsBounded'
  <2> DEFINE s == [r EXCEPT !.left = @ \ {f}, !.found = {}]
  <2>1. removing' = (removing \ {r}) \cup {s} /\ UNCHANGED <<unsaved, holdTypes>>
    BY <1>9 DEF CloseHeld
  <2>2. s.found = {}
    BY <1>0 DEF Removal
  <2>3. holds' = CloseAll(f, r.category)
    BY <1>9 DEF CloseHeld
  <2>4. holds \in [1..Len(holds) -> [frn : Frns, category : HoldTypes, open : BOOLEAN]]
    BY LenProperties DEF HoldsInv
  <2>5. DOMAIN holds' = 1..Len(holds)
        /\ \A j \in 1..Len(holds) : holds'[j].category = holds[j].category
    BY <2>3, <2>4 DEF CloseAll
  <2>6. Len(holds') = Len(holds)
    BY <1>0, <2>3, <2>5 DEF CloseAll
  <2> HIDE DEF s
  <2>7. QED
    BY <1>6, <2>1, <2>2, <2>5, <2>6 DEF HoldsBounded
<1>10. ASSUME NEW r \in removing, AnswerRemoval(r)
       PROVE  HoldsBounded'
  BY <1>10 DEF AnswerRemoval, HoldsBounded
<1>11. ASSUME NEW k \in HoldTypes, AddHoldType(k) \/ RemoveHoldType(k)
       PROVE  HoldsBounded'
  BY <1>11 DEF AddHoldType, RemoveHoldType, HoldsBounded
<1>12. CASE UNCHANGED paymentHoldsVars
  BY <1>12 DEF paymentHoldsVars, HoldsBounded
<1>13. QED
  BY <1>2, <1>3, <1>4, <1>5, <1>7, <1>8, <1>9, <1>10, <1>11, <1>12
  DEF PaymentHoldsNext, SomeFrns

LEMMA HoldsAreTyped == HoldsInv /\ HoldsBounded => PaymentHoldsTypeOK
<1> SUFFICES ASSUME HoldsInv, HoldsBounded PROVE PaymentHoldsTypeOK
  OBVIOUS
<1>1. Len(holds) \in Nat /\ Cardinality(unsaved) \in Nat /\ MaxHolds \in Nat
  BY FS_CardinalityType, LenProperties, PaymentHoldsAssumption DEF HoldsInv, HoldsBounded
<1>2. Len(holds) <= MaxHolds
  BY <1>1 DEF HoldsBounded
<1>3. QED
  BY <1>2 DEF HoldsInv, HoldsBounded, PaymentHoldsTypeOK, RemovedIsClosed

\* 1 when the pod is done with the scheme or at work on it.
Took(p, s) == IF s \in checked[p] THEN 1 ELSE 0

\* A pod finds a scheme missing once, or stops and starts over; what it inserts
\* it does for a scheme it found missing.
SchemesBounded ==
    /\ marked \subseteq NewSchemes
    /\ announced \subseteq NewSchemes
    /\ incomplete \subseteq NewSchemes
    /\ checked \in [StartPods -> SUBSET NewSchemes]
    /\ stops \in 0..MaxStops
    /\ \A s \in NewSchemes :
          /\ creators[s] <= Took(1, s) + Took(2, s) + stops
          /\ \A c \in Categories :
                categories[s][c] + Owes(1, s, c) + Owes(2, s, c) <= creators[s]

LEMMA SchemesBoundedInitially == SchemesInit => SchemesBounded
<1> SUFFICES ASSUME SchemesInit PROVE SchemesBounded
  OBVIOUS
<1>1. \A p \in StartPods : starting[p].left = <<>> /\ starting[p].scheme = "none"
  BY DEF SchemesInit
<1>2. \A s, c : Owes(1, s, c) = 0 /\ Owes(2, s, c) = 0
  BY <1>1 DEF Owes, IsLeft, StartPods
<1>3. \A s : Took(1, s) = 0 /\ Took(2, s) = 0
  BY DEF Took, SchemesInit, StartPods
<1>4. QED
  BY <1>2, <1>3, SchemeStartupAssumption DEF SchemesInit, SchemesBounded

LEMMA SchemesBoundedKept ==
    ASSUME CategoriesInv, SchemesBounded, SchemesNext \/ UNCHANGED schemesVars
    PROVE  SchemesBounded'
<1>0. /\ 1 \in StartPods /\ 2 \in StartPods /\ \A p \in StartPods : p = 1 \/ p = 2
      /\ \A p, s, c : Owes(p, s, c) \in {0, 1}
      /\ \A p, s : Took(p, s) \in {0, 1}
      /\ stops \in Nat /\ MaxStops \in Nat
      /\ \A s \in NewSchemes : creators[s] \in Nat
      /\ \A s \in NewSchemes, c \in Categories : categories[s][c] \in Nat
  BY SchemeStartupAssumption DEF StartPods, Owes, Took, SchemesBounded, CategoriesInv
<1>1. CASE UNCHANGED schemesVars
  <2>1. \A p, s, c : Owes(p, s, c)' = Owes(p, s, c) /\ Took(p, s)' = Took(p, s)
    BY <1>1 DEF schemesVars, Owes, IsLeft, Took
  <2>2. QED
    BY <1>1, <2>1 DEF schemesVars, SchemesBounded
<1>2. ASSUME NEW p \in StartPods, NEW s \in NewSchemes, FindScheme(p, s)
      PROVE  SchemesBounded'
  <2> DEFINE left == starting'[p].left
  <2>1. left = <<"upsert">> \o (IF s \in schemes THEN <<>> ELSE RequiredCategories(s))
                            \o (IF s \in marked THEN <<>> ELSE Announcement)
    BY <1>2 DEF FindScheme, CategoriesInv
  <2>2. \A c \in Categories : IsLeft(left, c) => s \notin schemes
    <3> HIDE DEF left
    <3>1. QED
      BY <2>1, StartsOnceEach
  <2>3. /\ starting' = [starting EXCEPT ![p] = [scheme |-> s, left |-> left]]
        /\ s \notin checked[p]
        /\ checked' = [checked EXCEPT ![p] = @ \cup {s}]
        /\ creators' = IF s \in schemes THEN creators
                       ELSE [creators EXCEPT ![s] = @ + 1]
        /\ starting[p].left = <<>>
        /\ UNCHANGED <<schemes, marked, categories, announced, incomplete, stops>>
    BY <1>2, <2>1 DEF FindScheme
  <2> HIDE DEF left
  <2>4. \A q \in StartPods : q # p => starting'[q] = starting[q] /\ checked'[q] = checked[q]
    BY <2>3 DEF CategoriesInv, SchemesBounded
  <2>5. starting'[p].scheme = s /\ starting'[p].left = left /\ checked'[p] = checked[p] \cup {s}
    BY <2>3 DEF CategoriesInv, SchemesBounded
  <2>6. checked' \in [StartPods -> SUBSET NewSchemes]
    BY <2>3 DEF SchemesBounded
  <2>7. ASSUME NEW t \in NewSchemes
        PROVE  /\ \A q \in StartPods : q # p => Took(q, t)' = Took(q, t)
               /\ Took(p, t)' = IF t = s THEN 1 ELSE Took(p, t)
               /\ t = s => Took(p, t) = 0
    BY <2>3, <2>4, <2>5 DEF Took
  <2>8. ASSUME NEW t \in NewSchemes, NEW c \in Categories
        PROVE  /\ \A q \in StartPods : q # p => Owes(q, t, c)' = Owes(q, t, c)
               /\ Owes(p, t, c) = 0
               /\ t # s \/ s \in schemes => Owes(p, t, c)' = 0
               /\ Owes(p, t, c)' \in {0, 1}
    <3>1. \A q \in StartPods :
             Owes(q, t, c)' =
                IF starting'[q].scheme = t /\ IsLeft(starting'[q].left, c) THEN 1 ELSE 0
      BY DEF Owes, IsLeft
    <3>2. Owes(p, t, c) = 0
      BY <2>3 DEF Owes, IsLeft
    <3>3. QED
      BY <2>2, <2>4, <2>5, <3>1, <3>2 DEF Owes
  <2>9. ASSUME NEW t \in NewSchemes
        PROVE  creators'[t] = creators[t] + (IF t = s /\ s \notin schemes THEN 1 ELSE 0)
    BY <2>3 DEF CategoriesInv
  <2>10. ASSUME NEW t \in NewSchemes
         PROVE  creators'[t] <= Took(1, t)' + Took(2, t)' + stops'
    <3>1. creators[t] <= Took(1, t) + Took(2, t) + stops
      BY DEF SchemesBounded
    <3>2. QED
      BY <1>0, <2>3, <2>7, <2>9, <3>1
  <2>11. ASSUME NEW t \in NewSchemes, NEW c \in Categories
         PROVE  categories'[t][c] + Owes(1, t, c)' + Owes(2, t, c)' <= creators'[t]
    <3>1. categories[t][c] + Owes(1, t, c) + Owes(2, t, c) <= creators[t]
      BY DEF SchemesBounded
    <3>2. QED
      BY <1>0, <2>3, <2>8, <2>9, <3>1
  <2>12. QED
    BY <2>3, <2>6, <2>10, <2>11 DEF SchemesBounded
<1>3. ASSUME NEW p \in StartPods, NEW statement \in Statements, Does(p, statement),
             \A s \in NewSchemes, c \in Categories :
                 categories'[s][c] = IF s = starting[p].scheme /\ c = statement
                                     THEN categories[s][c] + 1 ELSE categories[s][c],
             marked' \subseteq marked \cup {starting[p].scheme},
             announced' \subseteq announced \cup {starting[p].scheme}
      PROVE  SchemesBounded'
  <2>1. /\ starting[p].scheme \in NewSchemes
        /\ \A q \in StartPods : \A s, c :
              Owes(q, s, c)' =
                 IF q = p /\ s = starting[p].scheme /\ c = statement
                 THEN 0 ELSE Owes(q, s, c)
        /\ Owes(p, starting[p].scheme, statement) = 1
    BY <1>3, OwesKept
  <2>2. UNCHANGED <<checked, creators, incomplete, stops>>
    BY <1>3 DEF Does
  <2>3. \A q, s : Took(q, s)' = Took(q, s)
    BY <2>2 DEF Took
  <2>4. ASSUME NEW t \in NewSchemes, NEW c \in Categories
        PROVE  categories'[t][c] + Owes(1, t, c)' + Owes(2, t, c)' <= creators'[t]
    <3>1. categories[t][c] + Owes(1, t, c) + Owes(2, t, c) <= creators[t]
      BY DEF SchemesBounded
    <3>2. CASE t = starting[p].scheme /\ c = statement
      <4>1. categories'[t][c] = categories[t][c] + 1
        BY <1>3, <3>2
      <4>2. Owes(p, t, c)' = 0 /\ Owes(p, t, c) = 1
            /\ \A q \in StartPods : q # p => Owes(q, t, c)' = Owes(q, t, c)
        BY <2>1, <3>2
      <4>3. QED
        BY <1>0, <2>2, <3>1, <4>1, <4>2
    <3>3. CASE ~(t = starting[p].scheme /\ c = statement)
      <4>1. categories'[t][c] = categories[t][c]
        BY <1>3, <3>3
      <4>2. \A q \in StartPods : Owes(q, t, c)' = Owes(q, t, c)
        BY <2>1, <3>3
      <4>3. QED
        BY <1>0, <2>2, <3>1, <4>1, <4>2
    <3>4. QED
      BY <3>2, <3>3
  <2>5. QED
    BY <1>3, <2>1, <2>2, <2>3, <2>4 DEF SchemesBounded
<1>4. ASSUME NEW p \in StartPods,
             UpsertScheme(p) \/ SendSchemeAddedEvent(p) \/ MarkSchemeAddedEventPublished(p)
      PROVE  SchemesBounded'
  <2>1. PICK statement \in {"upsert", "announce", "mark"} : Does(p, statement)
    BY <1>4 DEF UpsertScheme, SendSchemeAddedEvent, MarkSchemeAddedEventPublished
  <2>2. /\ UNCHANGED categories
        /\ marked' \subseteq marked \cup {starting[p].scheme}
        /\ announced' \subseteq announced \cup {starting[p].scheme}
    BY <1>4 DEF UpsertScheme, SendSchemeAddedEvent, MarkSchemeAddedEventPublished
  <2>3. statement \in Statements /\ \A c \in Categories : c # statement
    BY DEF Statements, Categories
  <2>4. QED
    BY <1>3, <2>1, <2>2, <2>3
<1>5. ASSUME NEW p \in StartPods, AddCategory(p)
      PROVE  SchemesBounded'
  <2>1. PICK d \in Categories :
          /\ Does(p, d)
          /\ categories' = [categories EXCEPT ![starting[p].scheme][d] = @ + 1]
          /\ UNCHANGED <<schemes, marked, announced>>
    BY <1>5 DEF AddCategory
  <2>2. \A s \in NewSchemes, c \in Categories :
           categories'[s][c] = IF s = starting[p].scheme /\ c = d
                               THEN categories[s][c] + 1 ELSE categories[s][c]
    BY <2>1 DEF CategoriesInv
  <2>3. d \in Statements
    BY DEF Statements
  <2>4. QED
    BY <1>3, <2>1, <2>2, <2>3
<1>6. ASSUME NEW p \in StartPods, Stop(p)
      PROVE  SchemesBounded'
  <2>1. /\ stops < MaxStops /\ stops' = stops + 1
        /\ starting' = [starting EXCEPT ![p].left = <<>>]
        /\ checked' = [checked EXCEPT ![p] = {}]
        /\ UNCHANGED <<schemes, marked, categories, announced, creators>>
    BY <1>6 DEF Stop
  <2>2. incomplete' \subseteq NewSchemes
    <3>1. CASE \E i \in DOMAIN starting[p].left : starting[p].left[i] \in Categories
      <4>1. starting[p].left # <<>>
        BY <3>1
      <4>2. starting[p].scheme \in NewSchemes
        BY <4>1 DEF CategoriesInv
      <4>3. QED
        BY <1>6, <3>1, <4>2 DEF Stop, SchemesBounded
    <3>2. CASE ~\E i \in DOMAIN starting[p].left : starting[p].left[i] \in Categories
      BY <1>6, <3>2 DEF Stop, SchemesBounded
    <3>3. QED
      BY <3>1, <3>2
  <2>3. \A q \in StartPods :
           /\ q # p => starting'[q] = starting[q] /\ checked'[q] = checked[q]
           /\ starting'[p].left = <<>>
    BY <2>1 DEF CategoriesInv, SchemesBounded
  <2>4. checked' \in [StartPods -> SUBSET NewSchemes]
    BY <2>1 DEF SchemesBounded
  <2>5. ASSUME NEW t \in NewSchemes
        PROVE  /\ \A q \in StartPods : q # p => Took(q, t)' = Took(q, t)
               /\ \A q \in StartPods : Took(q, t)' \in {0, 1}
    BY <2>3 DEF Took
  <2>6. ASSUME NEW t \in NewSchemes, NEW c \in Categories
        PROVE  \A q \in StartPods : Owes(q, t, c)' \in {0, 1} /\ Owes(q, t, c)' <= Owes(q, t, c)
    <3>1. \A q \in StartPods :
             Owes(q, t, c)' =
                IF starting'[q].scheme = t /\ IsLeft(starting'[q].left, c) THEN 1 ELSE 0
      BY DEF Owes, IsLeft
    <3>2. Owes(p, t, c)' = 0
      BY <2>3, <3>1 DEF IsLeft
    <3>3. QED
      BY <1>0, <2>3, <3>1, <3>2 DEF Owes
  <2>7. ASSUME NEW t \in NewSchemes
        PROVE  creators'[t] <= Took(1, t)' + Took(2, t)' + stops'
    <3>1. creators[t] <= Took(1, t) + Took(2, t) + stops
      BY DEF SchemesBounded
    <3>2. QED
      BY <1>0, <2>1, <2>5, <3>1
  <2>8. ASSUME NEW t \in NewSchemes, NEW c \in Categories
        PROVE  categories'[t][c] + Owes(1, t, c)' + Owes(2, t, c)' <= creators'[t]
    <3>1. categories[t][c] + Owes(1, t, c) + Owes(2, t, c) <= creators[t]
      BY DEF SchemesBounded
    <3>2. QED
      BY <1>0, <2>1, <2>6, <3>1
  <2>9. stops' \in 0..MaxStops
    BY <1>0, <2>1
  <2>10. QED
    BY <2>1, <2>2, <2>4, <2>7, <2>8, <2>9 DEF SchemesBounded
<1>7. QED
  BY <1>1, <1>2, <1>4, <1>5, <1>6 DEF SchemesNext

LEMMA SchemesAreTyped == CategoriesInv /\ SchemesBounded => SchemesTypeOK
<1> SUFFICES ASSUME CategoriesInv, SchemesBounded PROVE SchemesTypeOK
  OBVIOUS
<1>1. /\ \A p, s, c : Owes(p, s, c) \in {0, 1}
      /\ \A p, s : Took(p, s) \in {0, 1}
      /\ stops \in Nat /\ MaxStops \in Nat /\ stops <= MaxStops
  BY SchemeStartupAssumption DEF Owes, Took, SchemesBounded
<1>2. ASSUME NEW s \in NewSchemes
      PROVE  creators[s] \in 0..(2 + MaxStops)
  <2>1. creators[s] \in Nat /\ creators[s] <= Took(1, s) + Took(2, s) + stops
    BY DEF CategoriesInv, SchemesBounded
  <2>2. QED
    BY <1>1, <2>1
<1>3. ASSUME NEW s \in NewSchemes, NEW c \in Categories
      PROVE  categories[s][c] \in 0..(2 + MaxStops)
  <2>1. /\ categories[s][c] \in Nat /\ creators[s] \in Nat
        /\ categories[s][c] + Owes(1, s, c) + Owes(2, s, c) <= creators[s]
    BY DEF CategoriesInv, SchemesBounded
  <2>2. QED
    BY <1>1, <1>2, <2>1
<1>4. /\ creators \in [NewSchemes -> 0..(2 + MaxStops)]
      /\ categories \in [NewSchemes -> [Categories -> 0..(2 + MaxStops)]]
  BY <1>2, <1>3 DEF CategoriesInv
<1>5. QED
  BY <1>4 DEF CategoriesInv, SchemesBounded, SchemesTypeOK

\* Where a client can be.
CallerStates ==
    {"none", "idle", "waiting", "reading", "fetching", "answered", "badRequest", "error"}

\* A run that is under way has begun, and a row was saved by a run that has.
MetricsTyped ==
    /\ day \in 0..MaxCounted
    /\ plan # <<>> => day > 0
    /\ \A row \in metric : row.snapshot \in 1..day /\ row.period \in VALID_PERIODS
    /\ failed \in BOOLEAN
    /\ queue \in Seq(Queries)
    /\ current \in Queries \cup {NoCalculation}
    /\ \A c \in Callers : caller[c].state \in CallerStates

LEMMA MetricsTypedInitially == MetricsInit => MetricsTyped
<1> SUFFICES ASSUME MetricsInit PROVE MetricsTyped
  OBVIOUS
<1>1. \A c \in Callers : caller[c].state \in {"none", "idle"}
  BY DEF MetricsInit, NotCalling
<1>2. /\ metric = {} /\ day = 0 /\ plan = <<>> /\ failed = FALSE
      /\ queue = <<>> /\ current = NoCalculation
  BY DEF MetricsInit
<1>3. queue \in Seq(Queries) /\ current \in Queries \cup {NoCalculation}
  BY <1>2
<1>4. failed \in BOOLEAN
  BY <1>2, Zenon
<1>5. day \in 0..MaxCounted
  BY <1>2, MetricsAssumption
<1>6. QED
  BY <1>1, <1>2, <1>3, <1>4, <1>5 DEF MetricsTyped, CallerStates

LEMMA MetricsTypedKept ==
    ASSUME FiguresInv, CountedInv, MetricsTyped, MetricsNext \/ UNCHANGED metricsVars
    PROVE  MetricsTyped'
<1> DEFINE Run == /\ day \in 0..MaxCounted
                  /\ plan # <<>> => day > 0
                  /\ \A row \in metric : row.snapshot \in 1..day /\ row.period \in VALID_PERIODS
                  /\ failed \in BOOLEAN
           Queue == queue \in Seq(Queries) /\ current \in Queries \cup {NoCalculation}
           Clients == \A c \in Callers : caller[c].state \in CallerStates
<1>0. /\ Run /\ Queue /\ Clients
      /\ Run' /\ Queue' /\ Clients' => MetricsTyped'
  BY DEF MetricsTyped
<1>1. ASSUME UNCHANGED runVars PROVE Run'
  BY <1>0, <1>1 DEF runVars
<1>2. ASSUME UNCHANGED queueVars PROVE Queue'
  BY <1>0, <1>2 DEF queueVars
<1>3. ASSUME UNCHANGED caller PROVE Clients'
  BY <1>0, <1>3
<1>4. ASSUME NEW c \in Callers, NEW d, d.state \in CallerStates,
             caller' = [caller EXCEPT ![c] = d]
      PROVE  Clients'
  BY <1>0, <1>4 DEF FiguresInv
<1> HIDE DEF Run, Queue, Clients
<1>5. CASE UNCHANGED metricsVars
  BY <1>0, <1>1, <1>2, <1>3, <1>5 DEF metricsVars
<1>6. CASE StartRun
  <2>1. /\ recorded # <<>> /\ (day + 1) * Len(recorded) <= MaxCounted
        /\ day' = day + 1 /\ failed' = FALSE /\ UNCHANGED <<metric, queueVars, caller>>
    BY <1>6 DEF StartRun
  <2>2. day' \in 1..MaxCounted
    <3>1. PICK n, d : n = Len(recorded) /\ d = day + 1
      OBVIOUS
    <3>2. n \in Nat \ {0} /\ d \in Nat \ {0} /\ MaxCounted \in Nat
      BY <1>0, <2>1, <3>1, MetricsAssumption, LenProperties
      DEF Run, CountedInv, RequestsRecorded
    <3>3. d * n <= MaxCounted
      BY <2>1, <3>1
    <3>4. d <= d * n
      <4>1. d * n = d * (n - 1) + d /\ d * (n - 1) >= 0
        BY <3>2
      <4>2. d * n \in Nat /\ d * (n - 1) \in Nat
        BY <3>2
      <4>3. QED
        BY <3>2, <4>1, <4>2
    <3>5. d * n \in Nat
      BY <3>2
    <3>6. QED
      BY <2>1, <3>1, <3>2, <3>3, <3>4, <3>5
  <2>3. day' \in 0..MaxCounted /\ day' > 0 /\ 1..day \subseteq 1..day'
    <3>1. day \in Nat /\ day' = day + 1 /\ MaxCounted \in Nat
      BY <1>0, <2>1, MetricsAssumption DEF Run
    <3>2. QED
      BY <2>2, <3>1
  <2>4. Run'
    <3>1. \A row \in metric' : row.snapshot \in 1..day' /\ row.period \in VALID_PERIODS
      BY <1>0, <2>1, <2>3 DEF Run
    <3>2. failed' \in BOOLEAN
      BY <2>1
    <3>3. QED
      BY <2>3, <3>1, <3>2 DEF Run
  <2>5. QED
    BY <1>0, <1>2, <1>3, <2>1, <2>4
<1>7. CASE CalculateMetricsForPeriod
  <2>1. /\ UNCHANGED <<metric, day, failed, queueVars, caller>>
        /\ plan # <<>>
    BY <1>7 DEF CalculateMetricsForPeriod
  <2>2. Run'
    BY <1>0, <2>1 DEF Run
  <2>3. QED
    BY <1>0, <1>2, <1>3, <2>1, <2>2
<1>8. CASE RunFails
  <2>1. /\ UNCHANGED <<metric, day, queueVars, caller>>
        /\ plan # <<>> /\ failed' = TRUE
    BY <1>8 DEF RunFails
  <2>2. Run'
    BY <1>0, <2>1 DEF Run
  <2>3. QED
    BY <1>0, <1>2, <1>3, <2>1, <2>2
<1>9. ASSUME NEW r \in results, SaveMetric(r)
      PROVE  MetricsTyped'
  <2> DEFINE c == Head(plan)
             saved == [period |-> c.period, scheme |-> r.group.scheme, year |-> c.year,
                       month |-> IF c.period = "monthInYear" THEN c.month ELSE NoMonth,
                       snapshot |-> day, payments |-> r.payments, value |-> r.value,
                       pending |-> r.pending, pendingValue |-> r.pendingValue,
                       processed |-> r.processed, settled |-> r.settled,
                       onHold |-> r.onHold]
             kept == {row \in metric : ~SameKey(row, c, r.group.scheme)}
  <2>1. metric' = kept \cup {saved} /\ UNCHANGED <<recorded, day, failed, queueVars, caller>>
    BY <1>9 DEF SaveMetric
  <2>2. plan # <<>> /\ plan \in Seq(Calculations)
    BY DEF CountedInv
  <2>3. c.period \in VALID_PERIODS
    <3>1. Head(plan) \in Calculations
      BY <2>2
    <3>2. QED
      BY <3>1 DEF Calculations
  <2>4. saved.snapshot = day /\ saved.period \in VALID_PERIODS
    <3> HIDE DEF c
    <3>1. QED
      BY <2>3
  <2>5. kept \subseteq metric
    OBVIOUS
  <2> HIDE DEF saved, kept
  <2>6. day \in 1..day
    BY <1>0, <2>2 DEF Run
  <2>7. Run'
    BY <1>0, <2>1, <2>2, <2>4, <2>5, <2>6 DEF Run
  <2>8. QED
    BY <1>0, <1>2, <1>3, <2>1, <2>7
<1>10. CASE CalculationEnds
  <2>1. /\ current' = NoCalculation /\ UNCHANGED <<queue, runVars>>
        /\ \A c \in Callers : \/ caller'[c] = caller[c]
                              \/ \E st \in {"reading", "error"} :
                                    caller'[c] = [caller[c] EXCEPT !.state = st]
    BY <1>10 DEF CalculationEnds
  <2>2. Queue'
    BY <1>0, <2>1 DEF Queue
  <2>3. ASSUME NEW c \in Callers
        PROVE  caller'[c].state \in CallerStates
    <3>1. "state" \in DOMAIN caller[c]
      BY DEF FiguresInv, NotCalling
    <3>2. QED
      BY <1>0, <2>1, <3>1 DEF Clients, CallerStates
  <2>4. QED
    BY <1>0, <1>1, <2>1, <2>2, <2>3 DEF Clients
<1>11. CASE PauseEnds
  <2>1. UNCHANGED <<caller, runVars>>
    BY <1>11 DEF PauseEnds
  <2>2. Queue'
    <3>1. CASE queue = <<>>
      BY <1>0, <1>11, <3>1 DEF PauseEnds, Queue
    <3>2. CASE queue # <<>>
      <4>1. current' = Head(queue) /\ queue' = Tail(queue)
        BY <1>11, <3>2 DEF PauseEnds
      <4>2. queue \in Seq(Queries)
        BY <1>0 DEF Queue
      <4>3. Head(queue) \in Queries /\ Tail(queue) \in Seq(Queries)
        BY <3>2, <4>2
      <4>4. QED
        BY <4>1, <4>3 DEF Queue
    <3>3. QED
      BY <3>1, <3>2
  <2>3. QED
    BY <1>0, <1>1, <1>3, <2>1, <2>2
<1>12. ASSUME NEW c \in Callers
       PROVE  /\ {"state", "query", "date", "totals", "schemes"} \subseteq DOMAIN caller[c]
              /\ {"state", "query", "date", "totals", "schemes"} \subseteq DOMAIN NotCalling
  BY DEF FiguresInv, NotCalling
<1>13. ASSUME NEW c \in Callers, NEW q \in Queries, HandleMetricsRequest(c, q)
       PROVE  MetricsTyped'
  <2>1. UNCHANGED runVars
    BY <1>13 DEF HandleMetricsRequest
  <2>2. Queue'
    <3>1. CASE UNCHANGED queueVars
      BY <1>2, <3>1
    <3>2. CASE Enqueue(c, q)
      <4>1. CASE UNCHANGED queueVars
        BY <1>2, <4>1
      <4>2. CASE queue' = Append(queue, q) /\ UNCHANGED current
        BY <1>0, <4>2 DEF Queue
      <4>3. CASE current' = q /\ UNCHANGED queue
        BY <1>0, <4>3 DEF Queue
      <4>4. QED
        BY <3>2, <4>1, <4>2, <4>3 DEF Enqueue
    <3>3. QED
      BY <1>13, <3>1, <3>2 DEF HandleMetricsRequest
  <2>3. \E d : d.state \in CallerStates /\ caller' = [caller EXCEPT ![c] = d]
    <3>1. CASE ~ValidQuery(q)
      <4> DEFINE d == [NotCalling EXCEPT !.state = "badRequest"]
      <4>1. caller' = [caller EXCEPT ![c] = d]
        BY <1>13, <3>1 DEF HandleMetricsRequest
      <4>2. d.state \in CallerStates
        BY DEF CallerStates, NotCalling
      <4> HIDE DEF d
      <4>3. QED
        BY <4>1, <4>2
    <3>2. CASE ValidQuery(q) /\ q.period \in {"year", "monthInYear"}
      <4> DEFINE d == [caller[c] EXCEPT !.state = "waiting", !.query = q]
      <4>1. caller' = [caller EXCEPT ![c] = d]
        BY <1>13, <3>2 DEF HandleMetricsRequest, Enqueue
      <4>2. d.state \in CallerStates
        BY <1>12 DEF CallerStates
      <4> HIDE DEF d
      <4>3. QED
        BY <4>1, <4>2
    <3>3. CASE ValidQuery(q) /\ q.period \notin {"year", "monthInYear"}
      <4> DEFINE d == [NotCalling EXCEPT !.state = "reading", !.query = q]
      <4>1. caller' = [caller EXCEPT ![c] = d]
        BY <1>13, <3>3 DEF HandleMetricsRequest
      <4>2. d.state \in CallerStates
        BY DEF CallerStates, NotCalling
      <4> HIDE DEF d
      <4>3. QED
        BY <4>1, <4>2
    <3>4. QED
      BY <3>1, <3>2, <3>3
  <2>4. QED
    BY <1>0, <1>1, <1>4, <2>1, <2>2, <2>3
<1>14. ASSUME NEW c \in Callers, FetchSnapshotDate(c)
       PROVE  MetricsTyped'
  <2> DEFINE date == Max({row.snapshot : row \in Selected(caller[c].query)} \cup {0})
             d == [caller[c] EXCEPT !.date = date, !.state = "fetching"]
  <2>1. caller' = [caller EXCEPT ![c] = d] /\ UNCHANGED <<runVars, queueVars>>
    BY <1>14 DEF FetchSnapshotDate
  <2>2. d.state \in CallerStates
    <3> HIDE DEF date
    <3>1. QED
      BY <1>12 DEF CallerStates
  <2> HIDE DEF d
  <2>3. QED
    BY <1>0, <1>1, <1>2, <1>4, <2>1, <2>2
<1>15. ASSUME NEW c \in Callers, FetchMetrics(c)
       PROVE  MetricsTyped'
  <2> DEFINE q == caller[c].query
             rows == {row \in Selected(q) :
                         /\ row.snapshot = caller[c].date
                         /\ q.month # NoMonth => row.month = q.month}
             totals == CalculateTotals(rows)
             listed == MapSchemeMetrics(AggregateByScheme(rows))
             d == [caller[c] EXCEPT !.totals = totals, !.schemes = listed,
                                    !.state = "answered"]
  <2>1. caller' = [caller EXCEPT ![c] = d] /\ UNCHANGED <<runVars, queueVars>>
    BY <1>15 DEF FetchMetrics
  <2>2. d.state \in CallerStates
    <3> HIDE DEF totals, listed
    <3>1. QED
      BY <1>12 DEF CallerStates
  <2> HIDE DEF d
  <2>3. QED
    BY <1>0, <1>1, <1>2, <1>4, <2>1, <2>2
<1>16. QED
  BY <1>5, <1>6, <1>7, <1>8, <1>9, <1>10, <1>11, <1>13, <1>14, <1>15 DEF MetricsNext

LEMMA MetricsAreTyped == LoopInv /\ CountedInv /\ MetricsTyped => MetricsTypeOK
<1> SUFFICES ASSUME LoopInv, CountedInv, MetricsTyped PROVE MetricsTypeOK
  OBVIOUS
<1>1. Range(recorded) \subseteq RequestRecords
  <2>1. recorded \in Seq(RequestRecords)
    BY DEF CountedInv, RequestsRecorded
  <2>2. recorded \in [DOMAIN recorded -> RequestRecords]
    BY <2>1, LenProperties
  <2>3. QED
    BY <2>2 DEF Range
<1>2. Range(queue) \subseteq Queries
  <2>1. queue \in Seq(Queries)
    BY DEF MetricsTyped
  <2>2. queue \in [DOMAIN queue -> Queries]
    BY <2>1, LenProperties
  <2>3. QED
    BY <2>2 DEF Range
<1>3. {processing, failed} \subseteq BOOLEAN
  BY DEF LoopInv, MetricsTyped
<1>4. QED
  BY <1>1, <1>2, <1>3 DEF MetricsTyped, MetricsTypeOK, CallerStates

\* Every variable of every component has its type and its bounds in every
\* reachable state, whatever handlers, pods, users and clients there are at
\* once, if the customers, the retention messages and the replies are finitely
\* many: a hold has its category, a transaction that has ended holds no row, a
\* scheme has each category at the most once for every start that found it
\* missing, and a saved figure names a run that took place.
THEOREM TypesHold ==
    ASSUME IsFiniteSet(Frns), IsFiniteSet(Retentions), IsFiniteSet(Replies)
    PROVE  Spec => []TypeOK
<1> DEFINE Part == part \in {"tables", "settlements", "holds", "schemes", "metrics"}
           TablesOK == /\ TypeInv /\ Locks /\ HeldInv /\ RequestsInv /\ LinesInv
                       /\ SavedInv /\ RowsInv /\ PlacesInv /\ NumbersInv
                       /\ RemovalsCounted /\ MarksInv
           SettlementsOK == SettlementsInv /\ SettlementsTyped
           HoldsOK == HoldsInv /\ HoldsBounded
           SchemesOK == CategoriesInv /\ SchemesBounded
           MetricsOK == LoopInv /\ FiguresInv /\ CountedInv /\ MetricsTyped
           Inv == Part /\ TablesOK /\ SettlementsOK /\ HoldsOK /\ SchemesOK /\ MetricsOK
<1>1. Init => Inv
  <2> SUFFICES ASSUME Init PROVE Inv
    OBVIOUS
  <2>1. Part /\ PaymentHoldsInit
    BY DEF Init
  <2>2. TablesOK
    BY ComponentsInit, TypeInitially, LocksInitially, HeldInitially, RequestsInitially,
       LinesInitially, SavedInitially, RowsInitially, PlacesInitially, NumbersInitially,
       RemovalsInitially, MarksInitially
  <2>3. SettlementsOK /\ HoldsOK
    BY <2>1, ComponentsInit, SettlementsInitially, SettlementsTypedInitially, HoldsInitially,
       HoldsBoundedInitially
  <2>4. SchemesOK
    BY ComponentsInit, CategoriesInitially, SchemesBoundedInitially
  <2>5. MetricsOK
    BY ComponentsInit, LoopInitially, FiguresInitially, CountedInitially,
       MetricsTypedInitially
  <2>6. QED
    BY <2>1, <2>2, <2>3, <2>4, <2>5
<1>2. Inv /\ [Next]_vars => Inv'
  <2> SUFFICES ASSUME Inv, [Next]_vars PROVE Inv'
    OBVIOUS
  <2>1. Part'
    BY DEF Next, vars, Tables, Settling, Holding, Starting, Counting
  <2>2. TablesOK'
    BY TablesStep, TypeKept, LocksKept, HeldKept, RequestsKept, LinesKept, SavedKept,
       RowsKept, PlacesKept, NumbersKept, RemovalsKept, MarksKept
  <2>3. SettlementsOK'
    BY SettlementsStep, SettlementsKept, SettlementsTypedKept
  <2>4. HoldsOK'
    BY HoldingStep, HoldsKept, HoldsBoundedKept
  <2>5. SchemesOK'
    BY SchemesStep, CategoriesKept, SchemesBoundedKept
  <2>6. MetricsOK'
    BY MetricsStep, LoopKept, FiguresKept, CountedKept, MetricsTypedKept
  <2>7. QED
    BY <2>1, <2>2, <2>3, <2>4, <2>5, <2>6
<1>3. Inv => TypeOK
  BY TablesAreTyped, SettlementsAreTyped, HoldsAreTyped, SchemesAreTyped, MetricsAreTyped
  DEF TypeOK
<1>4. QED
  BY <1>1, <1>2, <1>3, PTL DEF Spec
=============================================================================

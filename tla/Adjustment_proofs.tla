-------------------------- MODULE Adjustment_proofs --------------------------
(***************************************************************************)
(* Proofs about Adjustment, for all claims of finitely many lines, any     *)
(* number of requests, settlements and instalments: money is neither made  *)
(* nor lost by the way a claim is split over lines, ledgers and requests.  *)
(***************************************************************************)
EXTENDS Adjustment, SumTheorems, SequenceTheorems

-----------------------------------------------------------------------------
(* Lines and requests.                                                     *)

Funds == {"DOM00", "DOM01", "DRD00", "DRD05", "DRD01", "DRD10"}
Keys == (UNION {DOMAIN c : c \in Claims}) \X Funds
Lines == UNION {[K -> Int] : K \in {K \in SUBSET Keys : IsFiniteSet(K)}}

PaymentRequest ==
    [number : Nat, ledger : {"AP", "AR"}, value : Int, lines : Lines,
     settled : Int, settledOn : Date, original : BOOLEAN, settlementDate : Date,
     due : Nat, instalments : Nat, sent : BOOLEAN]

\* Lines are values of finitely many keys.
LEMMA LinesType ==
    ASSUME NEW l
    PROVE  l \in Lines <=> /\ l \in [DOMAIN l -> Int]
                           /\ DOMAIN l \subseteq Keys
                           /\ IsFiniteSet(DOMAIN l)
<1>1. ASSUME NEW K \in SUBSET Keys, IsFiniteSet(K), l \in [K -> Int]
      PROVE  l \in [DOMAIN l -> Int] /\ DOMAIN l \subseteq Keys /\ IsFiniteSet(DOMAIN l)
  <2>1. DOMAIN l = K
    BY <1>1
  <2>2. QED
    BY <1>1, <2>1
<1>2. QED
  BY <1>1 DEF Lines

\* The total of a function sums over its domain.
LEMMA TotalIsSum ==
    ASSUME NEW f
    PROVE  Total(f) = SumOf(f, DOMAIN f) /\ LineTotal(f) = SumOf(f, DOMAIN f)
  BY DEF Total, SumOf, LineTotal

\* The total of some lines is a number of pence.
LEMMA LineTotalType ==
    ASSUME NEW l \in Lines
    PROVE  LineTotal(l) \in Int
<1>1. IsFiniteSet(DOMAIN l) /\ \A k \in DOMAIN l : l[k] \in Int
  BY LinesType
<1>2. QED
  BY <1>1, TotalIsSum, SumType

\* Some of the lines.
LEMMA RestrictedLines ==
    ASSUME NEW l \in Lines, NEW K \in SUBSET DOMAIN l
    PROVE  /\ Restrict(l, K) \in Lines
           /\ DOMAIN Restrict(l, K) = K
           /\ \A k \in K : Restrict(l, K)[k] = l[k]
           /\ LineTotal(Restrict(l, K)) = SumOf(l, K)
<1>1. /\ IsFiniteSet(DOMAIN l) /\ DOMAIN l \subseteq Keys
      /\ \A k \in DOMAIN l : l[k] \in Int
  BY LinesType
<1> DEFINE m == Restrict(l, K)
<1>2. DOMAIN m = K /\ \A k \in K : m[k] = l[k]
  BY DEF Restrict
<1>3. m \in [K -> Int]
  BY <1>1 DEF Restrict
<1>4. IsFiniteSet(K)
  BY <1>1, FS_Subset
<1> HIDE DEF m
<1>5. m \in Lines
  BY <1>1, <1>2, <1>3, <1>4, LinesType
<1>6. LineTotal(m) = SumOf(l, K)
  BY <1>2, <1>4, TotalIsSum, SumSame
<1>7. QED
  BY <1>2, <1>5, <1>6 DEF m

\* Lines of value 0 do not count.
LEMMA NonZeroLinesTotal ==
    ASSUME NEW l \in Lines
    PROVE  /\ NonZeroLines(l) \in Lines
           /\ DOMAIN NonZeroLines(l) = {k \in DOMAIN l : l[k] # 0}
           /\ \A k \in DOMAIN NonZeroLines(l) : NonZeroLines(l)[k] = l[k]
           /\ LineTotal(NonZeroLines(l)) = LineTotal(l)
<1> DEFINE K == {k \in DOMAIN l : l[k] # 0}
           Z == {k \in DOMAIN l : l[k] = 0}
<1>1. K \in SUBSET DOMAIN l /\ K \cup Z = DOMAIN l /\ K \cap Z = {}
  OBVIOUS
<1>2. IsFiniteSet(DOMAIN l) /\ \A k \in DOMAIN l : l[k] \in Int
  BY LinesType
<1>3. IsFiniteSet(K) /\ IsFiniteSet(Z)
  BY <1>1, <1>2, FS_Subset
<1>4. (\A k \in K : l[k] \in Int) /\ (\A k \in Z : l[k] = 0)
  BY <1>2
<1>5. NonZeroLines(l) = Restrict(l, K)
  BY DEF NonZeroLines
<1> HIDE DEF K, Z
<1>6. SumOf(l, K \cup Z) = SumOf(l, K)
  BY <1>1, <1>3, <1>4, SumWithZeros
<1>7. /\ Restrict(l, K) \in Lines /\ DOMAIN Restrict(l, K) = K
      /\ \A k \in K : Restrict(l, K)[k] = l[k]
      /\ LineTotal(Restrict(l, K)) = SumOf(l, K)
  BY <1>1, RestrictedLines
<1>8. LineTotal(l) = SumOf(l, K)
  BY <1>1, <1>6, TotalIsSum
<1>9. QED
  BY <1>5, <1>7, <1>8 DEF K

\* No lines.
LEMMA NoLines == <<>> \in Lines /\ DOMAIN <<>> = {} /\ LineTotal(<<>>) = 0
<1>1. DOMAIN <<>> = {} /\ <<>> \in [{} -> Int]
  OBVIOUS
<1>2. <<>> \in Lines
  BY <1>1, LinesType, FS_EmptySet
<1>3. QED
  BY <1>1, <1>2, TotalIsSum, SumEmpty

\* Lines that add up to something are not all 0.
LEMMA SomeLine ==
    ASSUME NEW l \in Lines, LineTotal(l) # 0
    PROVE  \E k \in DOMAIN l : l[k] # 0
<1>1. IsFiniteSet(DOMAIN l)
  BY LinesType
<1>2. SUFFICES ASSUME \A k \in DOMAIN l : l[k] = 0
               PROVE  SumOf(l, DOMAIN l) = 0
  BY TotalIsSum
<1>3. SumOf(l, {} \cup DOMAIN l) = SumOf(l, {})
  BY <1>1, <1>2, SumWithZeros, FS_EmptySet
<1>4. {} \cup DOMAIN l = DOMAIN l
  OBVIOUS
<1>5. QED
  BY <1>3, <1>4, SumEmpty

\* Lines that add up to nothing without one above 0 are all 0.
LEMMA NoLineAbove ==
    ASSUME NEW l \in Lines, LineTotal(l) = 0, \A k \in DOMAIN l : ~(l[k] > 0)
    PROVE  \A k \in DOMAIN l : l[k] = 0
<1>1. IsFiniteSet(DOMAIN l) /\ \A k \in DOMAIN l : l[k] \in Int /\ l[k] <= 0
  BY LinesType
<1>2. SUFFICES ASSUME NEW k \in DOMAIN l
               PROVE  l[k] = 0
  OBVIOUS
<1> DEFINE K == DOMAIN l \ {k}
<1>3. K \subseteq DOMAIN l /\ IsFiniteSet(K)
  BY <1>1, FS_Subset
<1>4. SumOf(l, K) <= 0 /\ SumOf(l, K) \in Int
  <2>1. \A j \in K : l[j] \in Int /\ l[j] <= 0
    BY <1>1
  <2> HIDE DEF K
  <2>2. QED
    BY <1>3, <2>1, SumSign, SumType
<1>5. SumOf(l, DOMAIN l) = l[k] + SumOf(l, K)
  BY <1>1, SumWithout
<1>6. SumOf(l, DOMAIN l) = 0
  BY TotalIsSum
<1> HIDE DEF K
<1>7. QED
  BY <1>1, <1>4, <1>5, <1>6

-----------------------------------------------------------------------------
(* Totals of lists of requests.                                            *)

Values(q) == [i \in DOMAIN q |-> q[i].value]
Debts(q) == [i \in DOMAIN q |-> IF q[i].ledger = "AR" THEN q[i].value ELSE 0]

DebtTotal(q) == ValueTotal(OnLedger(q, "AR"))

\* A list of requests as a function.
LEMMA ListType ==
    ASSUME NEW q \in Seq(PaymentRequest)
    PROVE  /\ Len(q) \in Nat /\ DOMAIN q = 1..Len(q) /\ IsFiniteSet(DOMAIN q)
           /\ \A i \in DOMAIN q : q[i] \in PaymentRequest
           /\ \A i \in DOMAIN q : Values(q)[i] \in Int /\ Debts(q)[i] \in Int
<1>1. Len(q) \in Nat /\ DOMAIN q = 1..Len(q)
  OBVIOUS
<1>2. \A i \in DOMAIN q : q[i] \in PaymentRequest
  OBVIOUS
<1>3. \A i \in DOMAIN q : q[i].value \in Int
  BY <1>2 DEF PaymentRequest
<1>4. QED
  BY <1>1, <1>2, <1>3, FS_Interval DEF Values, Debts

\* What is on AR, as a sum over all requests.
LEMMA TotalsAreSums ==
    ASSUME NEW q \in Seq(PaymentRequest)
    PROVE  /\ ValueTotal(q) = SumOf(Values(q), DOMAIN q)
           /\ DebtTotal(q) = SumOf(Debts(q), DOMAIN q)
<1> DEFINE R == {i \in DOMAIN q : q[i].ledger = "AR"}
           Z == {i \in DOMAIN q : q[i].ledger # "AR"}
           ar == Restrict(q, R)
<1>1. IsFiniteSet(R) /\ IsFiniteSet(Z) /\ R \cap Z = {} /\ R \cup Z = DOMAIN q
  BY ListType, FS_Subset
<1>2. /\ \A i \in R : Debts(q)[i] \in Int
      /\ \A i \in Z : Debts(q)[i] = 0
  BY ListType DEF Debts
<1>3. SumOf(Debts(q), R \cup Z) = SumOf(Debts(q), R)
  <2> HIDE DEF R, Z
  <2>1. QED
    BY <1>1, <1>2, SumWithZeros
<1>4. /\ DOMAIN Values(ar) = R
      /\ \A i \in R : Values(ar)[i] = Debts(q)[i]
  BY DEF Values, Debts, Restrict
<1>5. ValueTotal(ar) = SumOf(Values(ar), R)
  BY <1>4, TotalIsSum DEF ValueTotal, Values
<1>6. SumOf(Values(ar), R) = SumOf(Debts(q), R)
  <2> HIDE DEF R, ar
  <2>1. QED
    BY <1>1, <1>4, SumSame
<1>7. DebtTotal(q) = SumOf(Debts(q), DOMAIN q)
  <2>1. DebtTotal(q) = ValueTotal(ar)
    BY DEF DebtTotal, OnLedger
  <2> HIDE DEF R, Z, ar
  <2>2. QED
    BY <1>1, <1>3, <1>5, <1>6, <2>1
<1>8. DOMAIN Values(q) = DOMAIN q
  BY DEF Values
<1>9. ValueTotal(q) = SumOf(Values(q), DOMAIN q)
  BY <1>8, TotalIsSum DEF ValueTotal, Values
<1>10. QED
  BY <1>7, <1>9

\* Totals are numbers of pence.
LEMMA TotalsType ==
    ASSUME NEW q \in Seq(PaymentRequest)
    PROVE  ValueTotal(q) \in Int /\ DebtTotal(q) \in Int
  BY ListType, TotalsAreSums, SumType

\* A sum over one or two places more.
LEMMA LongerSum ==
    ASSUME NEW m \in Nat, NEW n \in {1, 2}, NEW f,
           \A i \in 1..(m + n) : f[i] \in Int
    PROVE  /\ SumOf(f, 1..m) \in Int
           /\ SumOf(f, 1..(m + n)) = SumOf(f, 1..m) +
                 (IF n = 1 THEN f[m + 1] ELSE f[m + 1] + f[m + 2])
<1>1. ASSUME NEW k \in Nat, k < m + n
      PROVE  SumOf(f, 1..(k + 1)) = f[k + 1] + SumOf(f, 1..k)
  <2>1. 1..(k + 1) = (1..k) \cup {k + 1} /\ k + 1 \notin 1..k
    OBVIOUS
  <2>2. IsFiniteSet(1..k)
    BY FS_Interval
  <2>3. \A i \in (1..k) \cup {k + 1} : f[i] \in Int
    BY <1>1
  <2>4. QED
    BY <2>1, <2>2, <2>3, SumWith
<1>2. SumOf(f, 1..m) \in Int
  <2>1. IsFiniteSet(1..m) /\ \A i \in 1..m : f[i] \in Int
    BY FS_Interval
  <2>2. QED
    BY <2>1, SumType
<1>3. f[m + 1] \in Int /\ (n = 2 => f[m + 2] \in Int)
  OBVIOUS
<1>4. SumOf(f, 1..(m + 1)) = f[m + 1] + SumOf(f, 1..m)
  BY <1>1
<1>5. n = 2 => SumOf(f, 1..(m + 2)) = f[m + 2] + SumOf(f, 1..(m + 1))
  <2>1. n = 2 => (m + 1) + 1 = m + 2 /\ m + 1 \in Nat /\ m + 1 < m + n
    OBVIOUS
  <2>2. QED
    BY <1>1, <2>1
<1>6. QED
  BY <1>2, <1>3, <1>4, <1>5

\* The totals of one request and of two.
LEMMA ShortTotals ==
    ASSUME NEW q \in Seq(PaymentRequest), Len(q) \in {1, 2}
    PROVE  /\ ValueTotal(q) = Values(q)[1] + (IF Len(q) = 1 THEN 0 ELSE Values(q)[2])
           /\ DebtTotal(q) = Debts(q)[1] + (IF Len(q) = 1 THEN 0 ELSE Debts(q)[2])
<1>1. /\ DOMAIN q = 1..Len(q)
      /\ \A i \in 1..(0 + Len(q)) : Values(q)[i] \in Int /\ Debts(q)[i] \in Int
  BY ListType
<1>2. 1..0 = {} /\ 0 + Len(q) = Len(q) /\ 0 + 1 = 1 /\ 0 + 2 = 2 /\ 0 \in Nat
  OBVIOUS
<1>3. ASSUME NEW f, \A i \in 1..(0 + Len(q)) : f[i] \in Int
      PROVE  SumOf(f, DOMAIN q) = f[1] + (IF Len(q) = 1 THEN 0 ELSE f[2])
  <2>1. SumOf(f, 1..(0 + Len(q))) = SumOf(f, 1..0) +
           (IF Len(q) = 1 THEN f[0 + 1] ELSE f[0 + 1] + f[0 + 2])
    BY <1>2, <1>3, LongerSum
  <2>2. SumOf(f, 1..0) = 0
    BY <1>2, SumEmpty
  <2>3. f[1] \in Int /\ (Len(q) = 2 => f[2] \in Int)
    <3>1. 1 \in 1..(0 + Len(q)) /\ (Len(q) = 2 => 2 \in 1..(0 + Len(q)))
      OBVIOUS
    <3>2. QED
      BY <1>3, <3>1
  <2>4. QED
    BY <1>1, <1>2, <2>1, <2>2, <2>3
<1>4. QED
  BY <1>1, <1>3, TotalsAreSums

\* Requests are appended to those there are.
LEMMA Appended ==
    ASSUME NEW q \in Seq(PaymentRequest), NEW new \in Seq(PaymentRequest),
           Len(new) \in {1, 2}
    PROVE  /\ q \o new \in Seq(PaymentRequest)
           /\ Len(q \o new) = Len(q) + Len(new)
           /\ \A i \in DOMAIN q : (q \o new)[i] = q[i]
           /\ \A i \in DOMAIN new : (q \o new)[Len(q) + i] = new[i]
           /\ \A i \in DOMAIN (q \o new) :
                 i \in DOMAIN q \/ \E j \in DOMAIN new : (q \o new)[i] = new[j]
           /\ ValueTotal(q \o new) = ValueTotal(q) + ValueTotal(new)
           /\ DebtTotal(q \o new) = DebtTotal(q) + DebtTotal(new)
<1> DEFINE all == q \o new
<1>1. /\ all \in Seq(PaymentRequest)
      /\ Len(all) = Len(q) + Len(new)
      /\ \A i \in 1..(Len(q) + Len(new)) :
            all[i] = IF i <= Len(q) THEN q[i] ELSE new[i - Len(q)]
  BY ConcatProperties
<1> HIDE DEF all
<1>2. /\ Len(q) \in Nat /\ DOMAIN q = 1..Len(q)
      /\ DOMAIN new = 1..Len(new) /\ DOMAIN all = 1..(Len(q) + Len(new))
  BY <1>1, ListType
<1>3. \A i \in DOMAIN q : all[i] = q[i]
  BY <1>1, <1>2
<1>4. \A i \in DOMAIN new : all[Len(q) + i] = new[i]
  BY <1>1, <1>2
<1>5. ASSUME NEW i \in DOMAIN all, i \notin DOMAIN q
      PROVE  \E j \in DOMAIN new : all[i] = new[j]
  <2>1. i - Len(q) \in DOMAIN new /\ all[i] = new[i - Len(q)]
    BY <1>1, <1>2, <1>5
  <2>2. QED
    BY <2>1
<1>6. ASSUME NEW f, NEW g, NEW h,
             \A i \in 1..(Len(q) + Len(new)) : f[i] \in Int,
             \A i \in DOMAIN q : f[i] = g[i],
             \A i \in DOMAIN new : f[Len(q) + i] = h[i]
      PROVE  SumOf(f, DOMAIN all) = SumOf(g, DOMAIN q) +
                (h[1] + (IF Len(new) = 1 THEN 0 ELSE h[2]))
  <2>1. /\ SumOf(f, 1..Len(q)) \in Int
        /\ SumOf(f, 1..(Len(q) + Len(new))) = SumOf(f, 1..Len(q)) +
              (IF Len(new) = 1 THEN f[Len(q) + 1] ELSE f[Len(q) + 1] + f[Len(q) + 2])
    BY <1>2, <1>6, LongerSum
  <2>2. SumOf(f, 1..Len(q)) = SumOf(g, 1..Len(q))
    <3>1. IsFiniteSet(1..Len(q))
      BY <1>2, FS_Interval
    <3>2. QED
      BY <1>2, <1>6, <3>1, SumSame
  <2>3. f[Len(q) + 1] = h[1] /\ h[1] \in Int
    BY <1>2, <1>6
  <2>4. Len(new) = 2 => f[Len(q) + 2] = h[2] /\ h[2] \in Int
    BY <1>2, <1>6
  <2>5. QED
    BY <1>2, <2>1, <2>2, <2>3, <2>4
<1>7. /\ \A i \in DOMAIN q : /\ Values(all)[i] = Values(q)[i]
                             /\ Debts(all)[i] = Debts(q)[i]
      /\ \A i \in DOMAIN new : /\ Values(all)[Len(q) + i] = Values(new)[i]
                               /\ Debts(all)[Len(q) + i] = Debts(new)[i]
  <2>1. \A i \in DOMAIN q : i \in DOMAIN all
    BY <1>2
  <2>2. \A i \in DOMAIN new : Len(q) + i \in DOMAIN all
    BY <1>2
  <2>3. QED
    BY <1>3, <1>4, <2>1, <2>2 DEF Values, Debts
<1>8. \A i \in 1..(Len(q) + Len(new)) : Values(all)[i] \in Int /\ Debts(all)[i] \in Int
  BY <1>1, <1>2, ListType
<1>9. ValueTotal(all) = ValueTotal(q) + ValueTotal(new)
  <2>1. SumOf(Values(all), DOMAIN all) = SumOf(Values(q), DOMAIN q) +
           (Values(new)[1] + (IF Len(new) = 1 THEN 0 ELSE Values(new)[2]))
    <3> DEFINE f == Values(all)
               g == Values(q)
               h == Values(new)
    <3>1. /\ \A i \in 1..(Len(q) + Len(new)) : f[i] \in Int
          /\ \A i \in DOMAIN q : f[i] = g[i]
          /\ \A i \in DOMAIN new : f[Len(q) + i] = h[i]
      BY <1>7, <1>8
    <3> HIDE DEF f, g, h
    <3>2. SumOf(f, DOMAIN all) = SumOf(g, DOMAIN q) +
             (h[1] + (IF Len(new) = 1 THEN 0 ELSE h[2]))
      BY <1>6, <3>1
    <3>3. QED
      BY <3>2 DEF f, g, h
  <2>2. QED
    BY <1>1, <2>1, TotalsAreSums, ShortTotals
<1>10. DebtTotal(all) = DebtTotal(q) + DebtTotal(new)
  <2>1. SumOf(Debts(all), DOMAIN all) = SumOf(Debts(q), DOMAIN q) +
           (Debts(new)[1] + (IF Len(new) = 1 THEN 0 ELSE Debts(new)[2]))
    <3> DEFINE f == Debts(all)
               g == Debts(q)
               h == Debts(new)
    <3>1. /\ \A i \in 1..(Len(q) + Len(new)) : f[i] \in Int
          /\ \A i \in DOMAIN q : f[i] = g[i]
          /\ \A i \in DOMAIN new : f[Len(q) + i] = h[i]
      BY <1>7, <1>8
    <3> HIDE DEF f, g, h
    <3>2. SumOf(f, DOMAIN all) = SumOf(g, DOMAIN q) +
             (h[1] + (IF Len(new) = 1 THEN 0 ELSE h[2]))
      BY <1>6, <3>1
    <3>3. QED
      BY <3>2 DEF f, g, h
  <2>2. QED
    BY <1>1, <2>1, TotalsAreSums, ShortTotals
<1>11. QED
  BY <1>1, <1>3, <1>4, <1>5, <1>9, <1>10 DEF all

\* Lines that add up to nothing without one below 0 are all 0.
LEMMA NoLineBelow ==
    ASSUME NEW l \in Lines, LineTotal(l) = 0, \A k \in DOMAIN l : ~(l[k] < 0)
    PROVE  \A k \in DOMAIN l : l[k] = 0
<1> DEFINE z == [k \in DOMAIN l |-> 0]
           n == [k \in DOMAIN l |-> 0 - l[k]]
<1>1. /\ IsFiniteSet(DOMAIN l) /\ DOMAIN l \subseteq Keys
      /\ \A k \in DOMAIN l : l[k] \in Int
  BY LinesType
<1>2. DOMAIN n = DOMAIN l /\ n \in [DOMAIN l -> Int]
  BY <1>1
<1>3. \A k \in DOMAIN l : z[k] = 0 /\ n[k] = z[k] - l[k] /\ z[k] \in Int
  OBVIOUS
<1>4. \A k \in DOMAIN l : n[k] = 0 - l[k]
  OBVIOUS
<1> HIDE DEF z, n
<1>5. SumOf(z, DOMAIN l) = 0
  <2>1. SumOf(z, {} \cup DOMAIN l) = SumOf(z, {})
    BY <1>1, <1>3, SumWithZeros, FS_EmptySet
  <2>2. {} \cup DOMAIN l = DOMAIN l
    OBVIOUS
  <2>3. QED
    BY <2>1, <2>2, SumEmpty
<1>6. SumOf(n, DOMAIN l) = SumOf(z, DOMAIN l) - SumOf(l, DOMAIN l)
  BY <1>1, <1>3, SumMinus
<1>7. n \in Lines
  BY <1>1, <1>2, LinesType
<1>8. LineTotal(n) = 0
  BY <1>2, <1>5, <1>6, TotalIsSum
<1>9. \A k \in DOMAIN n : ~(n[k] > 0)
  BY <1>1, <1>2, <1>4
<1>10. \A k \in DOMAIN n : n[k] = 0
  BY <1>7, <1>8, <1>9, NoLineAbove
<1>11. QED
  BY <1>1, <1>2, <1>4, <1>10

-----------------------------------------------------------------------------
(* What a request is split into.                                           *)

Summed(r) == LineTotal(r.lines) = r.value

\* Requests that may be completed: each is worth its lines, and of two none
\* has lines that cancel out.
Fit(q) ==
    /\ q \in Seq(PaymentRequest) /\ Len(q) \in {1, 2}
    /\ \A i \in DOMAIN q : Summed(q[i])
    /\ Len(q) = 2 =>
         \A i \in DOMAIN q : q[i].value = 0 => \A k \in DOMAIN q[i].lines : q[i].lines[k] = 0

\* Requests that all take, all give, or are the two parts of a split of value 0.
CancelsOut(q) ==
    /\ DOMAIN q = {1, 2} /\ q[1].value + q[2].value = 0
    /\ \A i \in DOMAIN q : q[i].ledger = "AP" /\ q[i].original

OneWay(q) ==
    \/ \A i \in DOMAIN q : q[i].value >= 0
    \/ \A i \in DOMAIN q : q[i].value <= 0
    \/ CancelsOut(q)

\* Schedules that end with that of another request.
Ends(q, end) == \A i \in DOMAIN q : EndOf(q[i]) = end

\* Nothing is owed on AR.
DebtFree(q) == \A i \in DOMAIN q : q[i].ledger = "AR" => q[i].value = 0

\* All of q are parts of request r, with lines of these keys.
PartsOf(q, r, keys) ==
    \A i \in DOMAIN q : /\ q[i].number = r.number /\ q[i].settled = r.settled
                        /\ DOMAIN q[i].lines \subseteq keys

\* Two requests as a list.
LEMMA PairType ==
    ASSUME NEW a \in PaymentRequest, NEW b \in PaymentRequest
    PROVE  /\ <<a, b>> \in Seq(PaymentRequest) /\ Len(<<a, b>>) = 2
           /\ DOMAIN <<a, b>> = {1, 2} /\ <<a, b>>[1] = a /\ <<a, b>>[2] = b
           /\ ValueTotal(<<a, b>>) = a.value + b.value
           /\ DebtTotal(<<a, b>>) = (IF a.ledger = "AR" THEN a.value ELSE 0)
                                      + (IF b.ledger = "AR" THEN b.value ELSE 0)
<1> DEFINE q == <<a, b>>
<1>1. /\ q \in Seq(PaymentRequest) /\ Len(q) = 2
      /\ DOMAIN q = {1, 2} /\ q[1] = a /\ q[2] = b
  OBVIOUS
<1> HIDE DEF q
<1>2. /\ ValueTotal(q) = Values(q)[1] + Values(q)[2]
      /\ DebtTotal(q) = Debts(q)[1] + Debts(q)[2]
  <2>1. Len(q) \in {1, 2} /\ Len(q) # 1
    BY <1>1
  <2>2. QED
    BY <1>1, <2>1, ShortTotals
<1>3. QED
  BY <1>1, <1>2 DEF q, Values, Debts

\* One request as a list.
LEMMA SingleType ==
    ASSUME NEW a \in PaymentRequest
    PROVE  /\ <<a>> \in Seq(PaymentRequest) /\ Len(<<a>>) = 1
           /\ DOMAIN <<a>> = {1} /\ <<a>>[1] = a
           /\ ValueTotal(<<a>>) = a.value
           /\ DebtTotal(<<a>>) = (IF a.ledger = "AR" THEN a.value ELSE 0)
<1> DEFINE q == <<a>>
<1>1. /\ q \in Seq(PaymentRequest) /\ Len(q) = 1
      /\ DOMAIN q = {1} /\ q[1] = a
  OBVIOUS
<1>2. a.value \in Int
  BY DEF PaymentRequest
<1> HIDE DEF q
<1>3. /\ ValueTotal(q) = Values(q)[1] + 0
      /\ DebtTotal(q) = Debts(q)[1] + 0
  BY <1>1, ShortTotals
<1>4. QED
  BY <1>1, <1>2, <1>3 DEF q, Values, Debts

\* A request with these of its lines.
Part(r, K) ==
    [r EXCEPT !.ledger = "AP", !.original = TRUE, !.lines = Restrict(r.lines, K),
              !.value = LineTotal(Restrict(r.lines, K))]

\* It is worth its lines.
LEMMA PartType ==
    ASSUME NEW r \in PaymentRequest, NEW K \in SUBSET DOMAIN r.lines
    PROVE  /\ Part(r, K) \in PaymentRequest /\ Summed(Part(r, K))
           /\ Part(r, K).ledger = "AP" /\ Part(r, K).number = r.number
           /\ Part(r, K).settled = r.settled /\ Part(r, K).original
           /\ EndOf(Part(r, K)) = EndOf(r)
           /\ DOMAIN Part(r, K).lines = K
           /\ \A k \in K : Part(r, K).lines[k] = r.lines[k]
           /\ Part(r, K).value = SumOf(r.lines, K)
           /\ Part(r, K).lines \in Lines
<1> DEFINE m == Restrict(r.lines, K)
<1>1. r.lines \in Lines
  BY DEF PaymentRequest
<1>2. /\ m \in Lines /\ DOMAIN m = K /\ \A k \in K : m[k] = r.lines[k]
      /\ LineTotal(m) = SumOf(r.lines, K) /\ LineTotal(m) \in Int
  BY <1>1, RestrictedLines, LineTotalType
<1> HIDE DEF m
<1>3. PICK p : p = Part(r, K)
  OBVIOUS
<1>4. p = [r EXCEPT !.ledger = "AP", !.original = TRUE, !.lines = m,
                    !.value = LineTotal(m)]
  BY <1>3 DEF m, Part
<1>5. p \in PaymentRequest
  BY <1>2, <1>4 DEF PaymentRequest
<1>6. /\ p.ledger = "AP" /\ p.number = r.number /\ p.settled = r.settled
      /\ p.lines = m /\ p.value = LineTotal(m) /\ p.original
      /\ p.due = r.due /\ p.instalments = r.instalments
  BY <1>4 DEF PaymentRequest
<1>7. QED
  BY <1>2, <1>5, <1>6, <1>3 DEF Summed, EndOf

\* Lines that cancel out are split by their sign; each part is worth its lines.
LEMMA ZeroValueSplitFits ==
    ASSUME NEW r \in PaymentRequest, LineTotal(r.lines) = 0
    PROVE  /\ Fit(ZeroValueSplit(r))
           /\ Len(ZeroValueSplit(r)) = 2
           /\ PartsOf(ZeroValueSplit(r), r, DOMAIN r.lines)
           /\ ValueTotal(ZeroValueSplit(r)) = 0
           /\ DebtTotal(ZeroValueSplit(r)) = 0
           /\ \A i \in DOMAIN ZeroValueSplit(r) : ZeroValueSplit(r)[i].ledger = "AP"
           /\ CancelsOut(ZeroValueSplit(r)) /\ Ends(ZeroValueSplit(r), EndOf(r))
<1> DEFINE P == {k \in DOMAIN r.lines : r.lines[k] > 0}
           N == {k \in DOMAIN r.lines : r.lines[k] <= 0}
<1>1. ZeroValueSplit(r) = <<Part(r, P), Part(r, N)>>
  BY DEF ZeroValueSplit, Part
<1>2. r.lines \in Lines
  BY DEF PaymentRequest
<1>3. /\ IsFiniteSet(DOMAIN r.lines) /\ \A k \in DOMAIN r.lines : r.lines[k] \in Int
      /\ P \in SUBSET DOMAIN r.lines /\ N \in SUBSET DOMAIN r.lines
      /\ P \cup N = DOMAIN r.lines /\ P \cap N = {}
  BY <1>2, LinesType
<1>4. (\A k \in P : r.lines[k] > 0) /\ (\A k \in N : ~(r.lines[k] > 0))
  BY <1>3
<1>5. PICK a : a = Part(r, P)
  OBVIOUS
<1>6. PICK b : b = Part(r, N)
  OBVIOUS
<1>7. ZeroValueSplit(r) = <<a, b>>
  BY <1>1, <1>5, <1>6
<1> HIDE DEF P, N
<1>8. /\ a \in PaymentRequest /\ Summed(a) /\ a.ledger = "AP" /\ a.number = r.number
      /\ a.settled = r.settled /\ a.original /\ EndOf(a) = EndOf(r)
      /\ DOMAIN a.lines = P /\ \A k \in P : a.lines[k] = r.lines[k]
      /\ a.value = SumOf(r.lines, P) /\ a.lines \in Lines
  BY <1>3, <1>5, PartType
<1>9. /\ b \in PaymentRequest /\ Summed(b) /\ b.ledger = "AP" /\ b.number = r.number
      /\ b.settled = r.settled /\ b.original /\ EndOf(b) = EndOf(r)
      /\ DOMAIN b.lines = N /\ \A k \in N : b.lines[k] = r.lines[k]
      /\ b.value = SumOf(r.lines, N) /\ b.lines \in Lines
  BY <1>3, <1>6, PartType
<1> HIDE DEF P, N
<1>10. a.value = 0 => \A k \in DOMAIN a.lines : a.lines[k] = 0
  BY <1>3, <1>8, <1>4, NoLineBelow DEF Summed
<1>11. b.value = 0 => \A k \in DOMAIN b.lines : b.lines[k] = 0
  BY <1>3, <1>9, <1>4, NoLineAbove DEF Summed
<1>12. SumOf(r.lines, P \cup N) = SumOf(r.lines, P) + SumOf(r.lines, N)
  BY <1>3, SumOfUnion, FS_Subset
<1>13. a.value + b.value = 0
  BY <1>2, <1>3, <1>8, <1>9, <1>12, TotalIsSum
<1>14. CancelsOut(<<a, b>>) /\ Ends(<<a, b>>, EndOf(r))
  BY <1>8, <1>9, <1>13, PairType DEF CancelsOut, Ends
<1>15. QED
  BY <1>3, <1>8, <1>9, <1>10, <1>11, <1>13, <1>14, <1>7, PairType DEF Fit, PartsOf

\* What was cut off is given back: the request is worth its lines again.
LEMMA Consistent ==
    ASSUME NEW r \in PaymentRequest, NEW p \in EnsureValueConsistency(r)
    PROVE  /\ p \in PaymentRequest /\ Summed(p)
           /\ p.value = r.value /\ p.ledger = r.ledger /\ p.number = r.number
           /\ p.settled = r.settled /\ EndOf(p) = EndOf(r)
           /\ DOMAIN p.lines = DOMAIN r.lines
<1> DEFINE d == r.value - LineTotal(r.lines)
<1>1. PICK k \in DOMAIN r.lines : p = [r EXCEPT !.lines[k] = @ + d]
  BY DEF EnsureValueConsistency
<1>2. r.lines \in Lines /\ r.value \in Int
  BY DEF PaymentRequest
<1>3. d \in Int /\ LineTotal(r.lines) \in Int
  BY <1>2, LineTotalType
<1>4. /\ r.lines \in [DOMAIN r.lines -> Int] /\ DOMAIN r.lines \subseteq Keys
      /\ IsFiniteSet(DOMAIN r.lines)
  BY <1>2, LinesType
<1>5. PICK m : m = [r.lines EXCEPT ![k] = @ + d]
  OBVIOUS
<1>6. r.lines[k] + d = r.value - (LineTotal(r.lines) - r.lines[k])
  BY <1>2, <1>3, <1>4
<1> HIDE DEF d
<1>7. /\ m \in [DOMAIN r.lines -> Int] /\ DOMAIN m = DOMAIN r.lines
      /\ m[k] = r.lines[k] + d
      /\ \A l \in DOMAIN r.lines \ {k} : m[l] = r.lines[l]
  BY <1>3, <1>4, <1>5
<1>8. m \in Lines
  BY <1>4, <1>7, LinesType
<1>9. p = [r EXCEPT !.lines = m]
  BY <1>1, <1>5 DEF PaymentRequest
<1>10. p \in PaymentRequest
  BY <1>8, <1>9 DEF PaymentRequest
<1>11. /\ p.lines = m /\ p.value = r.value /\ p.ledger = r.ledger
       /\ p.number = r.number /\ p.settled = r.settled
       /\ p.due = r.due /\ p.instalments = r.instalments
  BY <1>9 DEF PaymentRequest
<1> DEFINE K == DOMAIN r.lines \ {k}
<1>12. /\ SumOf(m, DOMAIN r.lines) = m[k] + SumOf(m, K)
       /\ SumOf(r.lines, DOMAIN r.lines) = r.lines[k] + SumOf(r.lines, K)
       /\ SumOf(r.lines, K) \in Int
  <2>1. IsFiniteSet(K) /\ \A l \in K : r.lines[l] \in Int
    BY <1>4, FS_Subset
  <2>2. \A l \in DOMAIN r.lines : m[l] \in Int /\ r.lines[l] \in Int
    BY <1>4, <1>7
  <2>3. SumOf(m, DOMAIN r.lines) = m[k] + SumOf(m, K)
    BY <1>4, <2>2, SumWithout
  <2>4. SumOf(r.lines, DOMAIN r.lines) = r.lines[k] + SumOf(r.lines, K)
    BY <1>4, <2>2, SumWithout
  <2> HIDE DEF K
  <2>5. SumOf(r.lines, K) \in Int
    BY <2>1, SumType
  <2>6. QED
    BY <2>3, <2>4, <2>5
<1>13. SumOf(m, K) = SumOf(r.lines, K)
  <2>1. IsFiniteSet(K) /\ \A l \in K : m[l] = r.lines[l]
    BY <1>4, <1>7, FS_Subset
  <2> HIDE DEF K
  <2>2. QED
    BY <2>1, SumSame
<1>14. LineTotal(r.lines) = SumOf(r.lines, DOMAIN r.lines)
       /\ LineTotal(m) = SumOf(m, DOMAIN r.lines)
  BY <1>7, TotalIsSum
<1>15. r.lines[k] \in Int
  BY <1>4
<1> HIDE DEF K
<1>16. LineTotal(m) = r.value
  BY <1>2, <1>6, <1>7, <1>12, <1>13, <1>14, <1>15
<1>17. QED
  BY <1>7, <1>10, <1>11, <1>16 DEF Summed, EndOf

\* A share of a value is a number of pence.
LEMMA ShareType ==
    ASSUME NEW v \in Int, NEW a \in Int, NEW b \in Nat \ {0}
    PROVE  Share(v, a, b) \subseteq Int
<1>1. v * a \in Int
  OBVIOUS
<1>2. \A x \in Int : Truncate(x, b) \in Int
  BY DEF Truncate
<1>3. PICK e \in Int : e = Truncate(v * a, b)
  BY <1>1, <1>2
<1>4. e - (IF v < 0 THEN -1 ELSE 1) \in Int
  OBVIOUS
<1>5. Share(v, a, b) \subseteq {e, e - (IF v < 0 THEN -1 ELSE 1)}
  BY <1>3 DEF Share
<1>6. QED
  BY <1>3, <1>4, <1>5

\* A part of a request, before the pennies cut off are given back.
Worth(r, value, lines) ==
    [r EXCEPT !.original = TRUE, !.value = value, !.lines = lines]

\* A part is worth its value, whatever the shares of the lines.
LEMMA SplitPartType ==
    ASSUME NEW r \in PaymentRequest, NEW value \in Int,
           NEW a \in Int, NEW b \in Nat \ {0},
           NEW p \in PartsWorth(r, value, a, b)
    PROVE  /\ p \in PaymentRequest /\ Summed(p)
           /\ p.value = value /\ p.ledger = r.ledger /\ p.number = r.number
           /\ p.settled = r.settled /\ EndOf(p) = EndOf(r)
           /\ DOMAIN p.lines = DOMAIN r.lines
<1> PICK lines \in CalculateInvoiceLineValues(r.lines, a, b) :
         p \in EnsureValueConsistency(Worth(r, value, lines))
  BY Zenon DEF PartsWorth, Worth
<1>1. r.lines \in Lines
  BY DEF PaymentRequest
<1>2. /\ r.lines \in [DOMAIN r.lines -> Int] /\ DOMAIN r.lines \subseteq Keys
      /\ IsFiniteSet(DOMAIN r.lines)
  BY <1>1, LinesType
<1>3. DOMAIN lines = DOMAIN r.lines /\ \A k \in DOMAIN r.lines : lines[k] \in Int
  <2>1. /\ lines \in [DOMAIN r.lines -> UNION {Share(r.lines[k], a, b) : k \in DOMAIN r.lines}]
        /\ \A k \in DOMAIN r.lines : lines[k] \in Share(r.lines[k], a, b)
    BY DEF CalculateInvoiceLineValues
  <2>2. \A k \in DOMAIN r.lines : Share(r.lines[k], a, b) \subseteq Int
    BY <1>2, ShareType
  <2>3. QED
    BY <2>1, <2>2
<1>4. lines \in [DOMAIN lines -> Int]
  <2>1. lines \in [DOMAIN r.lines -> UNION {Share(r.lines[k], a, b) : k \in DOMAIN r.lines}]
    BY DEF CalculateInvoiceLineValues
  <2>2. QED
    BY <1>3, <2>1
<1>5. lines \in Lines
  BY <1>2, <1>3, <1>4, LinesType
<1>6. PICK s : s = Worth(r, value, lines)
  OBVIOUS
<1>7. s \in PaymentRequest
  BY <1>5, <1>6 DEF PaymentRequest, Worth
<1>8. /\ s.value = value /\ s.lines = lines /\ s.ledger = r.ledger
      /\ s.number = r.number /\ s.settled = r.settled
      /\ s.due = r.due /\ s.instalments = r.instalments
  BY <1>6 DEF PaymentRequest, Worth
<1>9. p \in EnsureValueConsistency(s)
  BY <1>6
<1>10. QED
  BY <1>3, <1>7, <1>8, <1>9, Consistent DEF EndOf

\* A request that is too big for a ledger is split in two, neither of value 0,
\* and no more than target goes to the other ledger.
LEMMA SplitToLedgerFits ==
    ASSUME NEW r \in PaymentRequest, NEW target \in Nat \ {0}, NEW ledger \in {"AP", "AR"},
           target < PenceOf(r.value),
           IF ledger = "AR" THEN r.ledger = "AP" /\ r.value > 0
                            ELSE r.ledger = "AR" /\ r.value < 0,
           NEW q \in SplitToLedger(r, target, ledger)
    PROVE  /\ Fit(q) /\ PartsOf(q, r, DOMAIN r.lines)
           /\ ValueTotal(q) = r.value
           /\ DebtTotal(q) <= (IF ledger = "AR" THEN target ELSE 0)
           /\ OneWay(q) /\ Ends(q, EndOf(r))
<1> DEFINE whole == PenceOf(r.value)
           kept == IF ledger = "AP" THEN r.value + target ELSE r.value - target
<1>1. SplitToLedger(r, target, ledger) =
          {<<p, [m EXCEPT !.ledger = ledger]>> :
             p \in PartsWorth(r, kept, whole - target, whole),
             m \in PartsWorth(r, r.value - kept, target, whole)}
  BY DEF SplitToLedger
<1>2. /\ r.value \in Int /\ whole \in Nat \ {0} /\ kept \in Int
      /\ r.value - kept \in Int
      /\ whole - target \in Int /\ target \in Int
      /\ kept # 0 /\ r.value - kept # 0
      /\ ledger = "AP" => kept < 0 /\ r.value - kept < 0
      /\ ledger = "AR" => kept > 0
      /\ ledger = "AR" => r.value - kept = target
  BY DEF PaymentRequest, PenceOf
<1> HIDE DEF whole, kept
<1>3. PICK rest \in Int : rest = r.value - kept
  BY <1>2
<1>4. PICK a \in PartsWorth(r, kept, whole - target, whole),
           b \in PartsWorth(r, rest, target, whole) :
         q = <<a, [b EXCEPT !.ledger = ledger]>>
  BY <1>3, <1>1
<1>5. /\ a \in PaymentRequest /\ Summed(a)
      /\ a.value = kept /\ a.ledger = r.ledger /\ a.number = r.number
      /\ a.settled = r.settled /\ EndOf(a) = EndOf(r)
      /\ DOMAIN a.lines = DOMAIN r.lines
  BY <1>2, SplitPartType
<1>6. /\ b \in PaymentRequest /\ Summed(b)
      /\ b.value = rest /\ b.ledger = r.ledger /\ b.number = r.number
      /\ b.settled = r.settled /\ EndOf(b) = EndOf(r)
      /\ DOMAIN b.lines = DOMAIN r.lines
  BY <1>2, SplitPartType
<1>7. PICK c : c = [b EXCEPT !.ledger = ledger]
  OBVIOUS
<1>8. c \in PaymentRequest
  BY <1>6, <1>7 DEF PaymentRequest
<1>9. /\ c.ledger = ledger /\ c.number = b.number
       /\ c.settled = b.settled /\ c.value = b.value
       /\ c.lines = b.lines /\ c.due = b.due /\ c.instalments = b.instalments
  BY <1>6, <1>7 DEF PaymentRequest
<1>10. Summed(c)
  BY <1>6, <1>9 DEF Summed
<1>11. q = <<a, c>>
  BY <1>4, <1>7
<1>12. /\ q \in Seq(PaymentRequest) /\ Len(q) = 2
       /\ DOMAIN q = {1, 2} /\ q[1] = a /\ q[2] = c
       /\ ValueTotal(q) = a.value + c.value
       /\ DebtTotal(q) = (IF a.ledger = "AR" THEN a.value ELSE 0)
                            + (IF c.ledger = "AR" THEN c.value ELSE 0)
  BY <1>5, <1>8, <1>11, PairType
<1>13. ValueTotal(q) = r.value
  BY <1>2, <1>5, <1>3, <1>6, <1>9, <1>12
<1>14. DebtTotal(q) <= (IF ledger = "AR" THEN target ELSE 0)
  BY <1>2, <1>5, <1>3, <1>6, <1>9, <1>12
<1>15. Fit(q)
  BY <1>2, <1>5, <1>3, <1>6, <1>9, <1>10, <1>12 DEF Fit
<1>16. PartsOf(q, r, DOMAIN r.lines)
  BY <1>5, <1>6, <1>9, <1>12 DEF PartsOf
<1>17. OneWay(q)
  BY <1>2, <1>5, <1>3, <1>6, <1>9, <1>12 DEF OneWay
<1>18. Ends(q, EndOf(r))
  <2>1. EndOf(c) = EndOf(b)
    BY <1>9 DEF EndOf
  <2>2. QED
    BY <1>5, <1>6, <1>12, <2>1 DEF Ends
<1>19. QED
  BY <1>13, <1>14, <1>15, <1>16, <1>17, <1>18

\* Of one request none is split.
LEMMA SingleFits ==
    ASSUME NEW r \in PaymentRequest, Summed(r)
    PROVE  /\ Fit(<<r>>) /\ PartsOf(<<r>>, r, DOMAIN r.lines)
           /\ ValueTotal(<<r>>) = r.value
           /\ DebtTotal(<<r>>) = (IF r.ledger = "AR" THEN r.value ELSE 0)
           /\ OneWay(<<r>>) /\ Ends(<<r>>, EndOf(r))
<1> DEFINE q == <<r>>
<1>1. /\ q \in Seq(PaymentRequest) /\ Len(q) = 1
      /\ DOMAIN q = {1} /\ q[1] = r
      /\ ValueTotal(q) = r.value
      /\ DebtTotal(q) = (IF r.ledger = "AR" THEN r.value ELSE 0)
  BY SingleType
<1> HIDE DEF q
<1>2. Fit(q) /\ PartsOf(q, r, DOMAIN r.lines)
  BY <1>1 DEF Fit, PartsOf
<1>3. OneWay(q) /\ Ends(q, EndOf(r))
  <2>1. r.value \in Int
    BY DEF PaymentRequest
  <2>2. QED
    BY <1>1, <2>1 DEF OneWay, Ends
<1>4. QED
  BY <1>1, <1>2, <1>3 DEF q

\* Whatever the ledgers, the parts are worth the request, and they pay off no
\* more than what is outstanding on AR.
LEMMA AllocateToLedgersFits ==
    ASSUME NEW r \in PaymentRequest, Summed(r), r.ledger = GetDefaultLedger(r.value),
           NEW outstanding, outstanding.AR \in Nat, outstanding.AP \in Nat,
           NEW q \in AllocateToLedgers(r, outstanding)
    PROVE  /\ Fit(q) /\ PartsOf(q, r, DOMAIN r.lines)
           /\ ValueTotal(q) = r.value
           /\ DebtTotal(q) <= outstanding.AR
           /\ OneWay(q) /\ Ends(q, EndOf(r))
<1>1. r.value \in Int
  BY DEF PaymentRequest
<1>2. ASSUME NEW target \in Nat \ {0}, NEW ledger \in {"AP", "AR"},
             IF ledger = "AR" THEN r.ledger = "AP" ELSE r.ledger = "AR",
             q \in UpdatePaymentRequestLedger(r, target, ledger)
      PROVE  /\ Fit(q) /\ PartsOf(q, r, DOMAIN r.lines)
             /\ ValueTotal(q) = r.value
             /\ DebtTotal(q) <= (IF ledger = "AR" THEN target ELSE 0)
             /\ OneWay(q) /\ Ends(q, EndOf(r))
  <2>1. CASE target >= PenceOf(r.value)
    <3>1. PICK m : m = [r EXCEPT !.ledger = ledger]
      OBVIOUS
    <3>2. m \in PaymentRequest
      BY <3>1 DEF PaymentRequest
    <3>3. /\ m.ledger = ledger /\ m.number = r.number
          /\ m.settled = r.settled /\ m.value = r.value
          /\ m.lines = r.lines /\ EndOf(m) = EndOf(r)
      BY <3>1 DEF PaymentRequest, EndOf
    <3>4. Summed(m)
      BY <3>3 DEF Summed
    <3>5. q = <<m>>
      BY <1>2, <2>1, <3>1 DEF UpdatePaymentRequestLedger
    <3>6. /\ Fit(<<m>>) /\ PartsOf(<<m>>, r, DOMAIN r.lines)
          /\ OneWay(<<m>>) /\ Ends(<<m>>, EndOf(r))
          /\ ValueTotal(<<m>>) = m.value
          /\ DebtTotal(<<m>>) = (IF m.ledger = "AR" THEN m.value ELSE 0)
      <4>1. /\ Fit(<<m>>) /\ PartsOf(<<m>>, m, DOMAIN m.lines)
            /\ OneWay(<<m>>) /\ Ends(<<m>>, EndOf(m))
            /\ ValueTotal(<<m>>) = m.value
            /\ DebtTotal(<<m>>) = (IF m.ledger = "AR" THEN m.value ELSE 0)
        BY <3>2, <3>4, SingleFits
      <4>2. PartsOf(<<m>>, r, DOMAIN r.lines)
        BY <3>3, <4>1 DEF PartsOf
      <4>3. QED
        BY <3>3, <4>1, <4>2
    <3>7. r.value <= target
      BY <1>1, <2>1 DEF PenceOf
    <3>8. (IF m.ledger = "AR" THEN m.value ELSE 0)
             <= (IF ledger = "AR" THEN target ELSE 0)
      BY <1>1, <3>3, <3>7
    <3>9. QED
      BY <3>3, <3>5, <3>6, <3>8
  <2>2. CASE ~(target >= PenceOf(r.value))
    <3>1. q \in SplitToLedger(r, target, ledger)
      BY <1>2, <2>2 DEF UpdatePaymentRequestLedger
    <3>2. target < PenceOf(r.value)
      BY <1>1, <2>2 DEF PenceOf
    <3>3. IF ledger = "AR" THEN r.ledger = "AP" /\ r.value > 0
                           ELSE r.ledger = "AR" /\ r.value < 0
      BY <1>1, <1>2, <3>2 DEF GetDefaultLedger, PenceOf
    <3>4. QED
      BY <3>1, <3>2, <3>3, SplitToLedgerFits
  <2>3. QED
    BY <2>1, <2>2
<1>3. CASE outstanding.AR > 0 /\ r.ledger = "AP"
  <2>1. outstanding.AR \in Nat \ {0}
    BY <1>3
  <2>2. q \in UpdatePaymentRequestLedger(r, outstanding.AR, "AR")
    BY <1>3 DEF AllocateToLedgers
  <2>3. QED
    BY <1>2, <1>3, <2>1, <2>2
<1>4. CASE /\ ~(outstanding.AR > 0 /\ r.ledger = "AP")
           /\ outstanding.AP > 0 /\ r.ledger = "AR"
  <2>1. outstanding.AP \in Nat \ {0}
    BY <1>4
  <2>2. q \in UpdatePaymentRequestLedger(r, outstanding.AP, "AP")
    BY <1>4 DEF AllocateToLedgers
  <2>3. /\ Fit(q) /\ PartsOf(q, r, DOMAIN r.lines)
        /\ ValueTotal(q) = r.value /\ DebtTotal(q) <= 0
        /\ OneWay(q) /\ Ends(q, EndOf(r))
    BY <1>2, <1>4, <2>1, <2>2
  <2>4. DebtTotal(q) \in Int
    BY <2>3, TotalsType DEF Fit
  <2>5. QED
    BY <2>3, <2>4
<1>5. CASE /\ ~(outstanding.AR > 0 /\ r.ledger = "AP")
           /\ ~(outstanding.AP > 0 /\ r.ledger = "AR")
  <2>1. q = <<r>>
    BY <1>5 DEF AllocateToLedgers
  <2>2. (IF r.ledger = "AR" THEN r.value ELSE 0) <= outstanding.AR
    BY <1>1 DEF GetDefaultLedger
  <2>3. QED
    BY <2>1, <2>2, SingleFits
<1>6. QED
  BY <1>3, <1>4, <1>5

-----------------------------------------------------------------------------
(* The delta.                                                              *)

\* Lines may be read as lines of more types, worth 0.
LEMMA MoreLines ==
    ASSUME NEW l \in Lines, NEW keys, IsFiniteSet(keys), DOMAIN l \subseteq keys,
           NEW h, \A k \in keys : h[k] = ValueAt(l, k)
    PROVE  SumOf(h, keys) = LineTotal(l) /\ \A k \in keys : h[k] \in Int
<1> DEFINE Z == keys \ DOMAIN l
<1>1. IsFiniteSet(DOMAIN l) /\ \A k \in DOMAIN l : l[k] \in Int
  BY LinesType
<1>2. /\ DOMAIN l \cap Z = {} /\ DOMAIN l \cup Z = keys
      /\ \A k \in DOMAIN l : h[k] = l[k]
      /\ \A k \in Z : h[k] = 0
  BY DEF ValueAt
<1>3. IsFiniteSet(Z)
  BY FS_Difference
<1> HIDE DEF Z
<1>4. \A k \in DOMAIN l : h[k] \in Int
  BY <1>1, <1>2
<1>5. SumOf(h, DOMAIN l \cup Z) = SumOf(h, DOMAIN l)
  BY <1>1, <1>2, <1>3, <1>4, SumWithZeros
<1>6. SumOf(h, DOMAIN l) = SumOf(l, DOMAIN l)
  BY <1>1, <1>2, SumSame
<1>7. SumOf(h, keys) = LineTotal(l)
  BY <1>2, <1>5, <1>6, TotalIsSum
<1>8. \A k \in keys : h[k] \in Int
  BY <1>2, <1>4
<1>9. QED
  BY <1>7, <1>8

\* All keys of a request and those before it.
KeysOf(lines, previous) ==
    DOMAIN lines \cup UNION {DOMAIN previous[i].lines : i \in DOMAIN previous}

\* They are finitely many.
LEMMA KeysType ==
    ASSUME NEW lines \in Lines, NEW previous \in Seq(PaymentRequest)
    PROVE  /\ IsFiniteSet(KeysOf(lines, previous)) /\ KeysOf(lines, previous) \subseteq Keys
           /\ DOMAIN lines \subseteq KeysOf(lines, previous)
           /\ \A i \in DOMAIN previous :
                 /\ previous[i].lines \in Lines
                 /\ DOMAIN previous[i].lines \subseteq KeysOf(lines, previous)
<1> DEFINE d == [i \in DOMAIN previous |-> DOMAIN previous[i].lines]
           D == {d[i] : i \in DOMAIN previous}
<1>1. \A i \in DOMAIN previous : previous[i] \in PaymentRequest
  BY ListType
<1>2. \A i \in DOMAIN previous : previous[i].lines \in Lines
  BY <1>1 DEF PaymentRequest
<1>3. \A i \in DOMAIN previous : IsFiniteSet(d[i]) /\ d[i] \subseteq Keys
  BY <1>2, LinesType
<1>4. IsFiniteSet(DOMAIN previous)
  BY ListType
<1>5. KeysOf(lines, previous) = DOMAIN lines \cup UNION D
  BY DEF KeysOf
<1>6. \A i \in DOMAIN previous : DOMAIN previous[i].lines = d[i]
  OBVIOUS
<1>7. IsFiniteSet(D)
  <2>1. d \in Surjection(DOMAIN previous, D)
    BY DEF Surjection
  <2> HIDE DEF d, D
  <2>2. QED
    BY <1>4, <2>1, FS_Surjection
<1>8. IsFiniteSet(UNION D) /\ UNION D \subseteq Keys
  <2>1. \A s \in D : IsFiniteSet(s) /\ s \subseteq Keys
    BY <1>3
  <2> HIDE DEF D
  <2>2. QED
    BY <1>7, <2>1, FS_UNION
<1>9. \A i \in DOMAIN previous : d[i] \subseteq UNION D
  OBVIOUS
<1> HIDE DEF d, D
<1>10. IsFiniteSet(DOMAIN lines) /\ DOMAIN lines \subseteq Keys
  BY LinesType
<1>11. IsFiniteSet(DOMAIN lines \cup UNION D)
  BY <1>8, <1>10, FS_Union
<1>12. IsFiniteSet(KeysOf(lines, previous))
  BY <1>5, <1>11
<1>13. KeysOf(lines, previous) \subseteq Keys /\ DOMAIN lines \subseteq KeysOf(lines, previous)
  BY <1>5, <1>8, <1>10
<1>14. \A i \in DOMAIN previous : DOMAIN previous[i].lines \subseteq KeysOf(lines, previous)
  BY <1>5, <1>6, <1>9
<1>15. QED
  BY <1>2, <1>12, <1>13, <1>14

\* What the lines come to is the claim less everything completed before,
\* whatever the lines it was completed with.
LEMMA LineDeltasTotal ==
    ASSUME NEW lines \in Lines, NEW previous \in Seq(PaymentRequest),
           \A i \in DOMAIN previous : Summed(previous[i])
    PROVE  /\ CalculateLineDeltas(lines, previous) \in Lines
           /\ DOMAIN CalculateLineDeltas(lines, previous) \subseteq KeysOf(lines, previous)
           /\ \A k \in DOMAIN CalculateLineDeltas(lines, previous) :
                 CalculateLineDeltas(lines, previous)[k] # 0
           /\ LineTotal(CalculateLineDeltas(lines, previous)) =
                 LineTotal(lines) - ValueTotal(previous)
<1> DEFINE keys == KeysOf(lines, previous)
           R == DOMAIN previous
           f == [k \in keys |-> [i \in R |-> ValueAt(previous[i].lines, k)]]
           g == [i \in R |-> [k \in keys |-> ValueAt(previous[i].lines, k)]]
           asked == [k \in keys |-> ValueAt(lines, k)]
           paid == [k \in keys |-> Total(f[k])]
           delta == [k \in keys |-> ValueAt(lines, k) -
                       Total([i \in DOMAIN previous |-> ValueAt(previous[i].lines, k)])]
<1>1. /\ IsFiniteSet(keys) /\ keys \subseteq Keys
      /\ DOMAIN lines \subseteq keys
      /\ \A i \in R : /\ previous[i].lines \in Lines
                       /\ DOMAIN previous[i].lines \subseteq keys
  BY KeysType
<1>2. IsFiniteSet(R) /\ \A i \in R : Values(previous)[i] = previous[i].value
  BY ListType DEF Values
<1>3. CalculateLineDeltas(lines, previous) = NonZeroLines(delta)
  BY DEF CalculateLineDeltas, KeysOf
<1>4. /\ \A k \in keys : asked[k] = ValueAt(lines, k)
      /\ \A k \in keys : delta[k] = asked[k] - paid[k]
      /\ \A k \in keys, i \in R : g[i][k] = f[k][i]
      /\ \A k \in keys : DOMAIN f[k] = R /\ paid[k] = Total(f[k])
      /\ \A i \in R : \A k \in keys : g[i][k] = ValueAt(previous[i].lines, k)
      /\ DOMAIN delta = keys /\ delta = [k \in keys |-> delta[k]]
  OBVIOUS
<1> HIDE DEF keys, R, f, g, asked, paid, delta
<1>5. SumOf(asked, keys) = LineTotal(lines) /\ \A k \in keys : asked[k] \in Int
  BY <1>1, <1>4, MoreLines
<1>6. ASSUME NEW i \in R
      PROVE  /\ Values(previous)[i] = SumOf(g[i], keys)
             /\ \A k \in keys : g[i][k] \in Int
  <2>1. /\ previous[i].lines \in Lines /\ DOMAIN previous[i].lines \subseteq keys
        /\ \A k \in keys : g[i][k] = ValueAt(previous[i].lines, k)
    BY <1>1, <1>4
  <2>2. SumOf(g[i], keys) = LineTotal(previous[i].lines) /\ \A k \in keys : g[i][k] \in Int
    BY <1>1, <2>1, MoreLines
  <2>3. LineTotal(previous[i].lines) = previous[i].value
    BY DEF Summed, R
  <2>4. QED
    BY <1>2, <2>2, <2>3
<1>7. ASSUME NEW k \in keys
      PROVE  paid[k] = SumOf(f[k], R) /\ paid[k] \in Int
  <2>1. paid[k] = SumOf(f[k], R)
    BY <1>4, TotalIsSum
  <2>2. \A i \in R : f[k][i] \in Int
    BY <1>4, <1>6
  <2>3. QED
    BY <1>2, <2>1, <2>2, SumType
<1>8. SumOf(paid, keys) = SumOf(Values(previous), R)
  <2>1. \A k \in keys, i \in R : f[k][i] \in Int /\ g[i][k] = f[k][i]
    BY <1>4, <1>6
  <2>2. \A k \in keys : paid[k] = SumOf(f[k], R)
    BY <1>7
  <2>3. PICK column : column = Values(previous)
    OBVIOUS
  <2>4. \A i \in R : column[i] = SumOf(g[i], keys)
    BY <1>6, <2>3
  <2>5. SumOf(paid, keys) = SumOf(column, R)
    <3>1. IsFiniteSet(keys) /\ IsFiniteSet(R)
      BY <1>1, <1>2
    <3>2. /\ Transposed(f, g, keys, R)
          /\ RowSums(f, keys, R, paid) /\ RowSums(g, R, keys, column)
      BY <2>1, <2>2, <2>4 DEF Transposed, RowSums
    <3>3. QED
      BY <3>1, <3>2, SumSwap
  <2>6. QED
    BY <2>3, <2>5
<1>9. SumOf(delta, keys) = SumOf(asked, keys) - SumOf(paid, keys)
  <2>1. \A k \in keys : /\ asked[k] \in Int /\ paid[k] \in Int
                        /\ delta[k] = asked[k] - paid[k]
    BY <1>4, <1>5, <1>7
  <2>2. QED
    BY <1>1, <2>1, SumMinus
<1>10. delta \in Lines
  <2>1. delta \in [keys -> Int]
    BY <1>4, <1>5, <1>7
  <2>2. QED
    BY <1>1, <1>4, <2>1, LinesType
<1>11. LineTotal(delta) = LineTotal(lines) - ValueTotal(previous)
  <2>1. LineTotal(delta) = SumOf(delta, keys)
    BY <1>4, TotalIsSum
  <2>2. ValueTotal(previous) = SumOf(Values(previous), R)
    BY TotalsAreSums DEF R
  <2>3. QED
    BY <1>5, <1>8, <1>9, <2>1, <2>2
<1>12. /\ NonZeroLines(delta) \in Lines
       /\ DOMAIN NonZeroLines(delta) = {k \in DOMAIN delta : delta[k] # 0}
       /\ \A k \in DOMAIN NonZeroLines(delta) : NonZeroLines(delta)[k] = delta[k]
       /\ LineTotal(NonZeroLines(delta)) = LineTotal(delta)
  BY <1>10, NonZeroLinesTotal
<1>13. QED
  BY <1>3, <1>4, <1>11, <1>12 DEF keys

\* Outstanding values are numbers of pence without a sign; what is owed on AR
\* is what was completed there.
LEMMA OutstandingType ==
    ASSUME NEW previous \in Seq(PaymentRequest)
    PROVE  /\ GetOutstandingLedgerValues(previous).AP \in Nat
           /\ GetOutstandingLedgerValues(previous).AR \in Nat
           /\ DebtTotal(previous) <= 0 =>
                 GetOutstandingLedgerValues(previous).AR = -DebtTotal(previous)
           /\ (\A i \in DOMAIN previous : previous[i].ledger = "AP" => previous[i].settled = 0)
                 => GetOutstandingLedgerValues(previous).AP =
                       PenceOf(ValueTotal(previous) - DebtTotal(previous))
<1> DEFINE R == {i \in DOMAIN previous : previous[i].ledger = "AP"}
           ap == OnLedger(previous, "AP")
           left == [i \in DOMAIN ap |-> ap[i].value - ap[i].settled]
<1>1. IsFiniteSet(R)
  BY ListType, FS_Subset
<1>2. DOMAIN ap = R /\ \A i \in R : ap[i] = previous[i]
  BY DEF OnLedger, Restrict
<1>3. \A i \in R : previous[i].value \in Int /\ previous[i].settled \in Int
  BY ListType DEF PaymentRequest
<1>4. DOMAIN left = R /\ \A i \in R : left[i] \in Int
  BY <1>2, <1>3
<1>5. /\ GetOutstandingLedgerValues(previous).AP = PenceOf(Total(left))
      /\ GetOutstandingLedgerValues(previous).AR = PenceOf(DebtTotal(previous))
  BY DEF GetOutstandingLedgerValues, DebtTotal
<1>6. ASSUME \A i \in DOMAIN previous : previous[i].ledger = "AP" => previous[i].settled = 0
      PROVE  Total(left) = ValueTotal(previous) - DebtTotal(previous)
  <2> DEFINE Z == {i \in DOMAIN previous : previous[i].ledger # "AP"}
             h == [i \in DOMAIN previous |-> Values(previous)[i] - Debts(previous)[i]]
  <2>1. /\ IsFiniteSet(DOMAIN previous) /\ IsFiniteSet(Z)
        /\ R \cap Z = {} /\ R \cup Z = DOMAIN previous
    BY ListType, FS_Subset
  <2>2. \A i \in DOMAIN previous : /\ previous[i].value \in Int
                                   /\ previous[i].ledger \in {"AP", "AR"}
    BY ListType DEF PaymentRequest
  <2>3. \A i \in DOMAIN previous : /\ Values(previous)[i] \in Int
                                   /\ Debts(previous)[i] \in Int
                                   /\ h[i] = Values(previous)[i] - Debts(previous)[i]
    BY <2>2 DEF Values, Debts
  <2>4. /\ \A i \in R : h[i] = left[i] /\ h[i] \in Int
        /\ \A i \in Z : h[i] = 0
    BY <1>2, <1>3, <1>6, <2>2 DEF Values, Debts
  <2> HIDE DEF h, Z, R, left
  <2>5. SumOf(h, DOMAIN previous) = ValueTotal(previous) - DebtTotal(previous)
    BY <2>1, <2>3, SumMinus, TotalsAreSums
  <2>6. SumOf(h, R \cup Z) = SumOf(h, R)
    BY <1>1, <2>1, <2>4, SumWithZeros
  <2>7. SumOf(h, R) = SumOf(left, R)
    BY <1>1, <2>4, SumSame
  <2>8. QED
    BY <1>4, <2>1, <2>5, <2>6, <2>7, TotalIsSum
<1> HIDE DEF R, left
<1>7. Total(left) \in Int
  BY <1>1, <1>4, TotalIsSum, SumType
<1>8. DebtTotal(previous) \in Int
  BY TotalsType
<1>9. /\ PenceOf(Total(left)) \in Nat /\ PenceOf(DebtTotal(previous)) \in Nat
      /\ DebtTotal(previous) <= 0 => PenceOf(DebtTotal(previous)) = -DebtTotal(previous)
  BY <1>7, <1>8 DEF PenceOf
<1>10. QED
  BY <1>5, <1>6, <1>9

\* The request an adjustment is calculated as, before it is split.
LEMMA CreatedType ==
    ASSUME NEW request \in PaymentRequest, NEW deltas \in Lines
    PROVE  /\ CreateCompletedPaymentRequest(request, deltas) \in PaymentRequest
           /\ Summed(CreateCompletedPaymentRequest(request, deltas))
           /\ CreateCompletedPaymentRequest(request, deltas).value = LineTotal(deltas)
           /\ CreateCompletedPaymentRequest(request, deltas).lines = deltas
           /\ CreateCompletedPaymentRequest(request, deltas).number = request.number
           /\ CreateCompletedPaymentRequest(request, deltas).settled = request.settled
           /\ CreateCompletedPaymentRequest(request, deltas).ledger =
                 GetDefaultLedger(LineTotal(deltas))
           /\ EndOf(CreateCompletedPaymentRequest(request, deltas)) = EndOf(request)
<1>1. PICK total \in Int : total = LineTotal(deltas)
  BY LineTotalType
<1>2. PICK ledger \in {"AP", "AR"} : ledger = GetDefaultLedger(total)
  BY DEF GetDefaultLedger
<1>3. PICK r : r = CreateCompletedPaymentRequest(request, deltas)
  OBVIOUS
<1>4. r = [request EXCEPT !.value = total, !.ledger = ledger, !.lines = deltas]
  BY <1>1, <1>2, <1>3 DEF CreateCompletedPaymentRequest
<1>5. r \in PaymentRequest
  BY <1>4 DEF PaymentRequest
<1>6. /\ r.value = total /\ r.lines = deltas /\ r.ledger = ledger
      /\ r.number = request.number /\ r.settled = request.settled
      /\ EndOf(r) = EndOf(request)
  BY <1>4 DEF PaymentRequest, EndOf
<1>7. QED
  BY <1>1, <1>2, <1>3, <1>5, <1>6 DEF Summed

\* An adjustment comes to the claim less what was completed before, and takes
\* no more on AR than is owed there.
LEMMA CalculateDeltaFits ==
    ASSUME NEW request \in PaymentRequest, NEW previous \in Seq(PaymentRequest),
           \A i \in DOMAIN previous : Summed(previous[i]),
           DebtTotal(previous) <= 0,
           NEW q \in CalculateDelta(request, previous)
    PROVE  /\ Fit(q)
           /\ PartsOf(q, request, KeysOf(request.lines, previous))
           /\ ValueTotal(q) = LineTotal(request.lines) - ValueTotal(previous)
           /\ DebtTotal(q) + DebtTotal(previous) <= 0
           /\ OneWay(q) /\ Ends(q, EndOf(request))
<1>1. PICK deltas : deltas = CalculateLineDeltas(request.lines, previous)
  OBVIOUS
<1>2. PICK r : r = CreateCompletedPaymentRequest(request, deltas)
  OBVIOUS
<1>3. request.lines \in Lines
  BY DEF PaymentRequest
<1>4. /\ deltas \in Lines /\ DOMAIN deltas \subseteq KeysOf(request.lines, previous)
      /\ LineTotal(deltas) = LineTotal(request.lines) - ValueTotal(previous)
  BY <1>1, <1>3, LineDeltasTotal
<1>5. /\ r \in PaymentRequest /\ Summed(r) /\ r.value = LineTotal(deltas)
      /\ r.lines = deltas /\ r.number = request.number
      /\ r.settled = request.settled
      /\ r.ledger = GetDefaultLedger(r.value) /\ EndOf(r) = EndOf(request)
  BY <1>2, <1>4, CreatedType
<1>6. DebtTotal(previous) \in Int
  BY TotalsType
<1>7. ASSUME Fit(q), PartsOf(q, r, DOMAIN r.lines), ValueTotal(q) = r.value
      PROVE  /\ Fit(q)
             /\ PartsOf(q, request, KeysOf(request.lines, previous))
             /\ ValueTotal(q) = LineTotal(request.lines) - ValueTotal(previous)
  BY <1>4, <1>5, <1>7 DEF PartsOf
<1>8. CASE r.value = 0 /\ DOMAIN deltas # {}
  <2>1. q = ZeroValueSplit(r)
    BY <1>1, <1>2, <1>8 DEF CalculateDelta
  <2>2. /\ Fit(q) /\ PartsOf(q, r, DOMAIN r.lines)
        /\ ValueTotal(q) = r.value /\ DebtTotal(q) = 0
        /\ OneWay(q) /\ Ends(q, EndOf(r))
    BY <1>5, <1>8, <2>1, ZeroValueSplitFits DEF Summed, OneWay
  <2>3. QED
    BY <1>5, <1>6, <1>7, <2>2
<1>9. CASE ~(r.value = 0 /\ DOMAIN deltas # {})
  <2>1. PICK outstanding : outstanding = GetOutstandingLedgerValues(previous)
    OBVIOUS
  <2>2. /\ outstanding.AP \in Nat /\ outstanding.AR \in Nat
        /\ outstanding.AR = -DebtTotal(previous)
    BY <2>1, OutstandingType
  <2>3. q \in AllocateToLedgers(r, outstanding)
    BY <1>1, <1>2, <1>9, <2>1 DEF CalculateDelta
  <2>4. /\ Fit(q) /\ PartsOf(q, r, DOMAIN r.lines)
        /\ ValueTotal(q) = r.value /\ DebtTotal(q) <= outstanding.AR
        /\ OneWay(q) /\ Ends(q, EndOf(r))
    BY <1>5, <2>2, <2>3, AllocateToLedgersFits
  <2>5. DebtTotal(q) \in Int
    BY <2>4, TotalsType DEF Fit
  <2>6. QED
    BY <1>5, <1>6, <1>7, <2>2, <2>4, <2>5
<1>10. QED
  BY <1>8, <1>9

\* Nothing on AP is settled and nothing is owed on AR.
Unspent(q) ==
    /\ \A i \in DOMAIN q : q[i].ledger = "AP" => q[i].settled = 0
    /\ DebtFree(q) /\ ValueTotal(q) >= 0

\* Requests that owe nothing come to nothing on AR.
LEMMA DebtFreeTotal ==
    ASSUME NEW q \in Seq(PaymentRequest), DebtFree(q)
    PROVE  DebtTotal(q) = 0
<1>1. IsFiniteSet(DOMAIN q) /\ \A i \in DOMAIN q : Debts(q)[i] = 0
  BY ListType DEF DebtFree, Debts
<1>2. {} \cap DOMAIN q = {} /\ {} \cup DOMAIN q = DOMAIN q
  OBVIOUS
<1>3. SumOf(Debts(q), {} \cup DOMAIN q) = SumOf(Debts(q), {})
  BY <1>1, <1>2, FS_EmptySet, SumWithZeros
<1>4. QED
  BY <1>2, <1>3, SumEmpty, TotalsAreSums

\* As long as nothing is settled and nothing is owed, AP has yet to pay out all that
\* was claimed, which is more than a claim can be lowered by: nothing goes to AR.
LEMMA DeltaDebtFree ==
    ASSUME NEW request \in PaymentRequest, NEW previous \in Seq(PaymentRequest),
           \A i \in DOMAIN previous : Summed(previous[i]),
           Unspent(previous), LineTotal(request.lines) >= 0,
           NEW q \in CalculateDelta(request, previous)
    PROVE  DebtFree(q)
<1>1. PICK deltas : deltas = CalculateLineDeltas(request.lines, previous)
  OBVIOUS
<1>2. PICK r : r = CreateCompletedPaymentRequest(request, deltas)
  OBVIOUS
<1>3. request.lines \in Lines
  BY DEF PaymentRequest
<1>4. /\ deltas \in Lines
      /\ LineTotal(deltas) = LineTotal(request.lines) - ValueTotal(previous)
  BY <1>1, <1>3, LineDeltasTotal
<1>5. /\ r \in PaymentRequest /\ Summed(r) /\ r.value = LineTotal(deltas)
      /\ r.lines = deltas /\ r.ledger = GetDefaultLedger(r.value)
  BY <1>2, <1>4, CreatedType
<1>6. /\ ValueTotal(previous) \in Int /\ LineTotal(request.lines) \in Int
      /\ r.value \in Int
  BY <1>3, <1>5, TotalsType, LineTotalType DEF PaymentRequest
<1>7. DebtTotal(previous) = 0
  BY DebtFreeTotal DEF Unspent
<1>8. CASE r.value = 0 /\ DOMAIN deltas # {}
  <2>1. q = ZeroValueSplit(r)
    BY <1>1, <1>2, <1>8 DEF CalculateDelta
  <2>2. \A i \in DOMAIN q : q[i].ledger = "AP"
    BY <1>5, <1>8, <2>1, ZeroValueSplitFits DEF Summed
  <2>3. QED
    BY <2>2 DEF DebtFree
<1>9. CASE ~(r.value = 0 /\ DOMAIN deltas # {})
  <2>1. PICK outstanding : outstanding = GetOutstandingLedgerValues(previous)
    OBVIOUS
  <2>2. outstanding.AR = 0 /\ outstanding.AP = ValueTotal(previous)
    <3>1. PICK v \in Int : v = ValueTotal(previous) /\ v >= 0
      BY <1>6 DEF Unspent
    <3>2. outstanding.AR = 0 /\ outstanding.AP = PenceOf(v - 0)
      BY <1>7, <2>1, <3>1, OutstandingType DEF Unspent
    <3>3. QED
      BY <3>1, <3>2 DEF PenceOf
  <2>3. q \in AllocateToLedgers(r, outstanding)
    BY <1>1, <1>2, <1>9, <2>1 DEF CalculateDelta
  <2>4. CASE r.value >= 0
    <3>1. r.ledger = "AP"
      BY <1>5, <1>6, <2>4 DEF GetDefaultLedger
    <3>2. q = <<r>>
      BY <2>2, <2>3, <3>1 DEF AllocateToLedgers
    <3>3. QED
      BY <3>1, <3>2 DEF DebtFree
  <2>5. CASE r.value < 0
    <3>1. r.ledger = "AR"
      BY <1>5, <1>6, <2>5 DEF GetDefaultLedger
    <3>2. outstanding.AP > 0 /\ outstanding.AP >= PenceOf(r.value)
      BY <1>4, <1>5, <1>6, <2>2, <2>5 DEF PenceOf
    <3>3. PICK m : m = [r EXCEPT !.ledger = "AP"]
      OBVIOUS
    <3>4. q = <<m>>
      BY <2>2, <2>3, <3>1, <3>2, <3>3 DEF AllocateToLedgers, UpdatePaymentRequestLedger
    <3>5. m.ledger = "AP"
      BY <1>5, <3>3 DEF PaymentRequest
    <3>6. QED
      BY <3>4, <3>5 DEF DebtFree
  <2>6. QED
    BY <1>6, <2>4, <2>5
<1>10. QED
  BY <1>8, <1>9

-----------------------------------------------------------------------------
(* Dates and enrichment leave the money alone.                             *)

\* The greatest of some numbers.
LEMMA MaxIsMember ==
    ASSUME NEW N \in Nat, NEW S \in SUBSET (0..N), S # {}
    PROVE  Max(S) \in S /\ \A y \in S : Max(S) >= y
<1> DEFINE T == {N - y : y \in S}
<1>1. T \in SUBSET Nat /\ T # {}
  <2>1. \A y \in S : N - y \in Nat
    OBVIOUS
  <2>2. PICK y \in S : TRUE
    OBVIOUS
  <2>3. N - y \in T
    OBVIOUS
  <2>4. T \subseteq Nat
    BY <2>1
  <2>5. QED
    BY <2>3, <2>4
<1>2. (\A z \in T : N - z \in S) /\ (\A y \in S : N - y \in T)
  OBVIOUS
<1> HIDE DEF T
<1>3. PICK z \in T : \A y \in T : z <= y
  BY <1>1, MinIsMember
<1>4. z \in Nat /\ N - z \in S
  BY <1>1, <1>2
<1>5. ASSUME NEW y \in S
      PROVE  N - z >= y
  <2>1. N - y \in T /\ y \in Nat
    BY <1>2
  <2>2. z <= N - y
    BY <1>3, <2>1
  <2>3. QED
    BY <1>4, <2>1, <2>2
<1>6. \E x \in S : \A y \in S : x >= y
  BY <1>4, <1>5
<1>7. QED
  BY <1>6 DEF Max

\* A request with another schedule.
Dated(r, d, n) == [r EXCEPT !.due = d, !.instalments = n]

\* It is worth the same.
LEMMA DatedType ==
    ASSUME NEW r \in PaymentRequest, NEW n, NEW d, n \in Nat, d \in Nat
    PROVE  /\ Dated(r, d, n) \in PaymentRequest
           /\ Dated(r, d, n).number = r.number
           /\ Dated(r, d, n).settled = r.settled /\ Dated(r, d, n).ledger = r.ledger
           /\ Dated(r, d, n).original = r.original
           /\ Dated(r, d, n).value = r.value /\ Dated(r, d, n).lines = r.lines
  BY DEF PaymentRequest, Dated

\* Lists that differ in dates and references only.
Alike(p, q) ==
    /\ q \in Seq(PaymentRequest) /\ Len(q) = Len(p)
    /\ \A i \in DOMAIN p :
          /\ q[i].number = p[i].number /\ q[i].settled = p[i].settled
          /\ q[i].ledger = p[i].ledger
          /\ q[i].value = p[i].value /\ q[i].lines = p[i].lines
          /\ p[i].ledger = "AP" => q[i].original = p[i].original

\* They are worth the same.
LEMMA AlikeFits ==
    ASSUME NEW p, Fit(p), NEW q, Alike(p, q)
    PROVE  /\ Fit(q)
           /\ ValueTotal(q) = ValueTotal(p) /\ DebtTotal(q) = DebtTotal(p)
           /\ \A r, keys : PartsOf(p, r, keys) => PartsOf(q, r, keys)
           /\ DebtFree(p) => DebtFree(q)
           /\ OneWay(p) => OneWay(q)
<1>1. /\ p \in Seq(PaymentRequest) /\ q \in Seq(PaymentRequest)
      /\ DOMAIN p = 1..Len(p) /\ DOMAIN q = DOMAIN p /\ Len(q) = Len(p)
      /\ Len(p) \in {1, 2} /\ Len(q) \in {1, 2}
      /\ 1 \in DOMAIN p /\ (Len(p) # 1 => 2 \in DOMAIN p)
  BY DEF Fit, Alike
<1>2. \A i \in DOMAIN p : Values(q)[i] = Values(p)[i] /\ Debts(q)[i] = Debts(p)[i]
  BY <1>1 DEF Alike, Values, Debts
<1>3. ValueTotal(q) = ValueTotal(p)
  BY <1>1, <1>2, ShortTotals
<1>4. DebtTotal(q) = DebtTotal(p)
  BY <1>1, <1>2, ShortTotals
<1>5. Fit(q)
  BY <1>1 DEF Fit, Alike, Summed
<1>6. \A r, keys : PartsOf(p, r, keys) => PartsOf(q, r, keys)
  BY <1>1 DEF Alike, PartsOf
<1>7. DebtFree(p) => DebtFree(q)
  BY <1>1 DEF Alike, DebtFree
<1>8. ASSUME OneWay(p)
      PROVE  OneWay(q)
  <2>1. CASE CancelsOut(p)
    <3>1. q[1].value + q[2].value = 0
      BY <1>1, <2>1 DEF Alike, CancelsOut
    <3>2. CancelsOut(q)
      BY <1>1, <2>1, <3>1 DEF Alike, CancelsOut
    <3>3. QED
      BY <3>2 DEF OneWay
  <2>2. CASE ~CancelsOut(p)
    BY <1>1, <1>8, <2>2 DEF Alike, OneWay
  <2>3. QED
    BY <2>1, <2>2
<1>9. QED
  BY <1>3, <1>4, <1>5, <1>6, <1>7, <1>8

\* A list written request by request.
LEMMA ListWritten ==
    ASSUME NEW p \in Seq(PaymentRequest), NEW q, DOMAIN q = DOMAIN p,
           q = [i \in DOMAIN q |-> q[i]],
           \A i \in DOMAIN p : q[i] \in PaymentRequest
    PROVE  q \in Seq(PaymentRequest) /\ Len(q) = Len(p)
<1>1. Len(p) \in Nat /\ DOMAIN p = 1..Len(p)
  BY ListType
<1>2. q \in [1..Len(p) -> PaymentRequest]
  BY <1>1
<1>3. QED
  BY <1>1, <1>2

\* The schedule of an agreement.
LEMMA ScheduleType ==
    ASSUME NEW s, NEW requests, Fit(requests), NEW previous \in Seq(PaymentRequest)
    PROVE  /\ GetFirstPaymentRequest(s, requests, previous).due \in Nat
           /\ GetFirstPaymentRequest(s, requests, previous).instalments \in Nat
<1>1. requests[1] \in PaymentRequest
  BY ListType DEF Fit
<1>2. ASSUME FirstPayments(previous) # {}
      PROVE  previous[Min(FirstPayments(previous))] \in PaymentRequest
  <2>1. FirstPayments(previous) \in SUBSET DOMAIN previous /\ DOMAIN previous \subseteq Nat
    BY DEF FirstPayments, Numbered
  <2>2. Min(FirstPayments(previous)) \in DOMAIN previous
    BY <1>2, <2>1, MinIsMember
  <2>3. QED
    BY <2>2, ListType
<1>3. \A r \in PaymentRequest : r.due \in Nat /\ r.instalments \in Nat
  BY DEF PaymentRequest
<1>4. QED
  BY <1>1, <1>2, <1>3 DEF GetFirstPaymentRequest, ScheduleOf, NoSchedule

\* Due dates.
LEMMA ConfirmDueDatesAlike ==
    ASSUME NEW s, NEW requests, Fit(requests), NEW previous \in Seq(PaymentRequest), NEW t
    PROVE  Alike(requests, ConfirmDueDates(s, requests, previous, t))
<1>1. requests \in Seq(PaymentRequest) /\ \A i \in DOMAIN requests : requests[i] \in PaymentRequest
  BY ListType DEF Fit
<1> DEFINE first == GetFirstPaymentRequest(s, requests, previous)
           left == OutstandingSchedule(first, GetSettledValue(s, previous),
                                       GetTotalValue(s, previous), t)
           confirmed == [i \in DOMAIN requests |->
                           IF requests[i].ledger = "AP" /\ requests[i].value < 0
                           THEN Reschedule(requests[i], first, left)
                           ELSE requests[i]]
<1>2. first.due \in Nat /\ first.instalments \in Nat
  BY ScheduleType
<1>3. CASE ConfirmDueDates(s, requests, previous, t) = requests
  BY <1>1, <1>3 DEF Alike
<1>4. CASE /\ left # {}
           /\ ConfirmDueDates(s, requests, previous, t) =
                HandleSFI23AdvancePayments(s, confirmed, previous, first)
  <2>1. left \subseteq 1..first.instalments
    BY DEF OutstandingSchedule
  <2> HIDE DEF first, left
  <2>2. Cardinality(left) \in Nat /\ Min(left) \in 1..first.instalments
    <3>1. IsFiniteSet(left)
      <4>1. IsFiniteSet(1..first.instalments)
        <5>1. PICK n \in Nat : n = first.instalments
          BY <1>2
        <5>2. IsFiniteSet(1..n)
          BY FS_Interval
        <5>3. QED
          BY <5>1, <5>2
      <4>2. QED
        BY <2>1, <4>1, FS_Subset
    <3>2. left \in SUBSET Nat
      BY <2>1
    <3>3. QED
      BY <1>4, <2>1, <3>1, <3>2, FS_CardinalityType, MinIsMember
  <2>3. ASSUME NEW r \in PaymentRequest
        PROVE  /\ Reschedule(r, first, left) \in PaymentRequest
               /\ Reschedule(r, first, left).number = r.number
               /\ Reschedule(r, first, left).settled = r.settled
               /\ Reschedule(r, first, left).ledger = r.ledger
               /\ Reschedule(r, first, left).value = r.value
               /\ Reschedule(r, first, left).lines = r.lines
               /\ Reschedule(r, first, left).original = r.original
    <3>1. PICK n \in Nat, d \in Nat : n = Cardinality(left) /\ d = first.due + Min(left) - 1
      BY <1>2, <2>2
    <3>2. Reschedule(r, first, left) = Dated(r, d, n)
      BY <3>1 DEF Reschedule, Dated
    <3>3. QED
      BY <3>2, DatedType
  <2>4. /\ DOMAIN confirmed = DOMAIN requests
        /\ confirmed = [i \in DOMAIN confirmed |-> confirmed[i]]
        /\ \A i \in DOMAIN requests :
              /\ confirmed[i] \in PaymentRequest
              /\ confirmed[i].number = requests[i].number
              /\ confirmed[i].settled = requests[i].settled
              /\ confirmed[i].ledger = requests[i].ledger
              /\ confirmed[i].value = requests[i].value
              /\ confirmed[i].lines = requests[i].lines
              /\ confirmed[i].original = requests[i].original
    BY <1>1, <2>3
  <2> HIDE DEF confirmed
  <2>5. confirmed \in Seq(PaymentRequest) /\ Len(confirmed) = Len(requests)
    BY <1>1, <2>4, ListWritten
  <2>6. PICK q : q = HandleSFI23AdvancePayments(s, confirmed, previous, first)
    OBVIOUS
  <2>7. /\ DOMAIN q = DOMAIN requests /\ q = [i \in DOMAIN q |-> q[i]]
        /\ \A i \in DOMAIN requests :
              q[i] = confirmed[i] \/ q[i] = Dated(confirmed[i], first.due + 1, 3)
    <3>1. CASE q = confirmed
      BY <2>4, <3>1
    <3>2. CASE q = [i \in DOMAIN confirmed |->
                       IF confirmed[i].ledger = "AP"
                       THEN Dated(confirmed[i], first.due + 1, 3)
                       ELSE confirmed[i]]
      BY <2>4, <3>2
    <3>3. QED
      BY <2>6, <3>1, <3>2 DEF HandleSFI23AdvancePayments, Dated
  <2>8. first.due + 1 \in Nat /\ 3 \in Nat
    BY <1>2
  <2>9. ASSUME NEW i \in DOMAIN requests
         PROVE  /\ q[i] \in PaymentRequest
                /\ q[i].number = requests[i].number
                /\ q[i].settled = requests[i].settled /\ q[i].ledger = requests[i].ledger
                /\ q[i].value = requests[i].value /\ q[i].lines = requests[i].lines
                /\ q[i].original = requests[i].original
    BY <2>4, <2>7, <2>8, DatedType
  <2>10. q \in Seq(PaymentRequest) /\ Len(q) = Len(requests)
    BY <1>1, <2>7, <2>9, ListWritten
  <2>11. QED
    BY <1>4, <2>6, <2>9, <2>10 DEF Alike
<1>5. QED
  BY <1>3, <1>4 DEF ConfirmDueDates

\* What is on AP, for any scheme without advances.
LEMMA TotalOnAP ==
    ASSUME NEW s, s # "SFI23", NEW q \in Seq(PaymentRequest)
    PROVE  /\ GetTotalValue(s, q) = ValueTotal(q) - DebtTotal(q)
           /\ GetSettledValue(s, q) \in Int
<1> DEFINE R == {i \in DOMAIN q : q[i].ledger = "AP"}
           Z == {i \in DOMAIN q : q[i].ledger # "AP"}
           ap == OnLedger(q, "AP")
           h == [i \in DOMAIN q |-> Values(q)[i] - Debts(q)[i]]
           value == [i \in DOMAIN ap |-> ap[i].value]
           settled == [i \in DOMAIN ap |-> ap[i].settled]
<1>1. RemoveSettledSFI23AdvancePayments(s, q) = q
  <2>1. {i \in DOMAIN q : ~(s = "SFI23" /\ q[i].number = 0 /\ q[i].settled # 0)} = DOMAIN q
    OBVIOUS
  <2>2. q = [i \in DOMAIN q |-> q[i]]
    OBVIOUS
  <2>3. QED
    BY <2>1, <2>2 DEF RemoveSettledSFI23AdvancePayments, Restrict
<1>2. GetTotalValue(s, q) = Total(value) /\ GetSettledValue(s, q) = Total(settled)
  BY <1>1 DEF GetTotalValue, GetSettledValue, ValueTotal
<1>3. /\ IsFiniteSet(DOMAIN q) /\ IsFiniteSet(R) /\ IsFiniteSet(Z)
      /\ R \cap Z = {} /\ R \cup Z = DOMAIN q
  BY ListType, FS_Subset
<1>4. DOMAIN ap = R /\ \A i \in R : ap[i] = q[i]
  BY DEF OnLedger, Restrict
<1>5. \A i \in DOMAIN q : /\ q[i].value \in Int /\ q[i].settled \in Int
                          /\ q[i].ledger \in {"AP", "AR"}
  BY ListType DEF PaymentRequest
<1>6. /\ DOMAIN value = R /\ DOMAIN settled = R
      /\ \A i \in R : settled[i] \in Int
  BY <1>4, <1>5
<1>7. \A i \in DOMAIN q : /\ Values(q)[i] \in Int /\ Debts(q)[i] \in Int
                          /\ h[i] = Values(q)[i] - Debts(q)[i]
  BY <1>5 DEF Values, Debts
<1>8. (\A i \in R : h[i] = value[i] /\ h[i] \in Int) /\ (\A i \in Z : h[i] = 0)
  BY <1>4, <1>5 DEF Values, Debts
<1> HIDE DEF h, R, Z, value, settled
<1>9. SumOf(h, DOMAIN q) = ValueTotal(q) - DebtTotal(q)
  BY <1>3, <1>7, SumMinus, TotalsAreSums
<1>10. SumOf(h, R \cup Z) = SumOf(h, R)
  BY <1>3, <1>8, SumWithZeros
<1>11. SumOf(h, R) = SumOf(value, R)
  BY <1>3, <1>8, SumSame
<1>12. Total(settled) \in Int
  BY <1>3, <1>6, TotalIsSum, SumType
<1>13. QED
  BY <1>2, <1>3, <1>6, <1>9, <1>10, <1>11, <1>12, TotalIsSum

\* Later instalments should have paid out no less.
LEMMA ExpectedValueGrows ==
    ASSUME NEW total \in Nat, NEW n \in Nat \ {0}, NEW i \in Nat, NEW j \in Nat, i <= j
    PROVE  /\ GetExpectedValue(total, n, i) \in Int /\ GetExpectedValue(total, n, j) \in Int
           /\ GetExpectedValue(total, n, i) <= GetExpectedValue(total, n, j)
<1>1. PICK k \in Nat : j = i + k
  <2>1. j - i \in Nat /\ j = i + (j - i)
    OBVIOUS
  <2>2. QED
    BY <2>1
<1>2. /\ total * i \in Nat /\ total * k \in Nat /\ total * j \in Nat
      /\ total * j = total * i + total * k
  BY <1>1
<1>3. PICK x \in Nat, y \in Nat : x = total * i /\ y = total * j /\ x <= y
  BY <1>2
<1>4. x \div n \in Int /\ y \div n \in Int /\ x \div n <= y \div n
  BY <1>3
<1>5. /\ GetExpectedValue(total, n, i) = x \div n
      /\ GetExpectedValue(total, n, j) = y \div n
  BY <1>3 DEF GetExpectedValue, Truncate
<1>6. QED
  BY <1>4, <1>5

\* With something to pay out, the instalments that are left are the last ones.
LEMMA LastInstalmentsLeft ==
    ASSUME NEW first, first.due \in Nat, first.instalments \in Nat,
           NEW settled \in Int, NEW total \in Nat, NEW t \in Nat,
           NEW left, left = OutstandingSchedule(first, settled, total, t), left # {}
    PROVE  /\ Min(left) \in 1..first.instalments
           /\ Cardinality(left) = (first.instalments - Min(left)) + 1
<1>1. PICK n \in Nat, d \in Nat : n = first.instalments /\ d = first.due
  OBVIOUS
<1>2. left = {i \in 1..n : d + i - 1 > t \/ settled < GetExpectedValue(total, n, i)}
  BY <1>1 DEF OutstandingSchedule
<1>3. left \in SUBSET Nat /\ left \subseteq 1..n /\ n # 0
  BY <1>2
<1>4. PICK m : m = Min(left)
  OBVIOUS
<1>5. m \in left /\ (\A i \in left : m <= i) /\ m \in 1..n
  BY <1>3, <1>4, MinIsMember
<1>6. ASSUME NEW j \in m..n
      PROVE  j \in left
  <2>1. j \in 1..n /\ m <= j /\ m \in Nat /\ j \in Nat
    BY <1>5
  <2>2. CASE d + m - 1 > t
    BY <1>2, <2>1, <2>2
  <2>3. CASE settled < GetExpectedValue(total, n, m)
    <3>1. /\ GetExpectedValue(total, n, m) \in Int /\ GetExpectedValue(total, n, j) \in Int
          /\ GetExpectedValue(total, n, m) <= GetExpectedValue(total, n, j)
      BY <1>3, <2>1, ExpectedValueGrows
    <3>2. settled < GetExpectedValue(total, n, j)
      BY <2>3, <3>1
    <3>3. QED
      BY <1>2, <2>1, <3>2
  <2>4. QED
    BY <1>2, <1>5, <2>2, <2>3
<1>7. left = m..n
  <2>1. \A j \in left : j \in m..n
    BY <1>3, <1>5
  <2>2. QED
    BY <1>6, <2>1
<1>8. Cardinality(m..n) = n - m + 1
  BY <1>5, FS_Interval
<1>9. QED
  BY <1>1, <1>4, <1>5, <1>7, <1>8

\* An adjustment ends with the schedule it is an adjustment of.
LEMMA ConfirmDueDatesEnd ==
    ASSUME NEW s, s # "SFI23", NEW requests, Fit(requests),
           NEW previous \in Seq(PaymentRequest), NEW t \in Nat,
           NEW end, Ends(requests, end), Ends(previous, end),
           ValueTotal(previous) - DebtTotal(previous) >= 0
    PROVE  Ends(ConfirmDueDates(s, requests, previous, t), end)
<1>1. /\ requests \in Seq(PaymentRequest)
      /\ \A i \in DOMAIN requests : requests[i] \in PaymentRequest
  BY ListType DEF Fit
<1> DEFINE first == GetFirstPaymentRequest(s, requests, previous)
           left == OutstandingSchedule(first, GetSettledValue(s, previous),
                                       GetTotalValue(s, previous), t)
           confirmed == [i \in DOMAIN requests |->
                           IF requests[i].ledger = "AP" /\ requests[i].value < 0
                           THEN Reschedule(requests[i], first, left)
                           ELSE requests[i]]
<1>2. first.due \in Nat /\ first.instalments \in Nat
  BY ScheduleType
<1>3. CASE ConfirmDueDates(s, requests, previous, t) = requests
  BY <1>3
<1>4. CASE /\ left # {} /\ first.instalments # 0
           /\ ConfirmDueDates(s, requests, previous, t) =
                HandleSFI23AdvancePayments(s, confirmed, previous, first)
  <2>1. first.due + first.instalments - 1 = end
    <3>1. FirstPayments(previous) # {} /\ first = ScheduleOf(previous[Min(FirstPayments(previous))])
      BY <1>4 DEF GetFirstPaymentRequest, NoSchedule
    <3>2. FirstPayments(previous) \in SUBSET DOMAIN previous /\ DOMAIN previous \subseteq Nat
      BY DEF FirstPayments, Numbered
    <3>3. Min(FirstPayments(previous)) \in DOMAIN previous
      BY <3>1, <3>2, MinIsMember
    <3>4. QED
      BY <3>1, <3>3 DEF Ends, EndOf, ScheduleOf
  <2>2. /\ GetTotalValue(s, previous) \in Nat /\ GetSettledValue(s, previous) \in Int
    BY TotalOnAP, TotalsType
  <2>3. ConfirmDueDates(s, requests, previous, t) = confirmed
    BY <1>4 DEF HandleSFI23AdvancePayments
  <2> HIDE DEF first
  <2>4. /\ Min(left) \in 1..first.instalments
        /\ Cardinality(left) = (first.instalments - Min(left)) + 1
    BY <1>2, <1>4, <2>2, LastInstalmentsLeft
  <2> HIDE DEF left
  <2>5. ASSUME NEW r \in PaymentRequest
        PROVE  EndOf(Reschedule(r, first, left)) = end
    <3>1. PICK n \in Nat, d \in Nat : n = Cardinality(left) /\ d = first.due + Min(left) - 1
      BY <1>2, <2>4
    <3>2. Reschedule(r, first, left) = Dated(r, d, n)
      BY <3>1 DEF Reschedule, Dated
    <3>3. EndOf(Dated(r, d, n)) = d + n - 1
      BY DEF PaymentRequest, Dated, EndOf
    <3>4. d + n - 1 = first.due + first.instalments - 1
      <4>1. PICK a \in Nat, b \in Nat, m \in Nat :
               a = first.due /\ b = first.instalments /\ m = Min(left)
        BY <1>2, <2>4
      <4>2. d = a + m - 1 /\ n = (b - m) + 1
        BY <2>4, <3>1, <4>1
      <4>3. d + n - 1 = a + b - 1
        BY <4>2
      <4>4. QED
        BY <4>1, <4>3
    <3>5. QED
      BY <2>1, <3>2, <3>3, <3>4
  <2>6. \A i \in DOMAIN requests : EndOf(confirmed[i]) = end
    BY <1>1, <2>5 DEF Ends
  <2>7. DOMAIN confirmed = DOMAIN requests
    OBVIOUS
  <2> HIDE DEF confirmed
  <2>8. QED
    BY <2>3, <2>6, <2>7 DEF Ends
<1>5. QED
  BY <1>3, <1>4 DEF ConfirmDueDates

\* The dates of a reply of the request editor.
LEMMA ResetDueDatesAlike ==
    ASSUME NEW requests, Fit(requests), NEW previous, NEW due, due \in Nat
    PROVE  Alike(requests, ResetDueDatesForSFI23(requests, previous, due))
<1>1. /\ requests \in Seq(PaymentRequest)
      /\ \A i \in DOMAIN requests : requests[i] \in PaymentRequest
  BY ListType DEF Fit
<1>2. CASE ResetDueDatesForSFI23(requests, previous, due) = requests
  BY <1>1, <1>2 DEF Alike
<1>3. CASE ResetDueDatesForSFI23(requests, previous, due) =
             [i \in DOMAIN requests |-> [requests[i] EXCEPT !.due = due]]
  <2>1. PICK q : q = [i \in DOMAIN requests |-> [requests[i] EXCEPT !.due = due]]
    OBVIOUS
  <2>2. DOMAIN q = DOMAIN requests /\ q = [i \in DOMAIN q |-> q[i]]
    BY <2>1
  <2>3. ASSUME NEW i \in DOMAIN requests
        PROVE  /\ q[i] \in PaymentRequest
               /\ q[i].number = requests[i].number /\ q[i].settled = requests[i].settled
               /\ q[i].ledger = requests[i].ledger
               /\ q[i].value = requests[i].value /\ q[i].lines = requests[i].lines
               /\ q[i].original = requests[i].original
    <3>1. requests[i] \in PaymentRequest
      BY <1>1
    <3>2. q[i] = [requests[i] EXCEPT !.due = due]
      BY <2>1
    <3>3. q[i] \in PaymentRequest
      BY <3>1, <3>2 DEF PaymentRequest
    <3>4. QED
      BY <3>1, <3>2, <3>3 DEF PaymentRequest
  <2>4. q \in Seq(PaymentRequest) /\ Len(q) = Len(requests)
    BY <1>1, <2>2, <2>3, ListWritten
  <2>5. QED
    BY <1>3, <2>1, <2>3, <2>4 DEF Alike
<1>4. QED
  BY <1>2, <1>3 DEF ResetDueDatesForSFI23

\* The first settlement is 0 exactly if nothing on AP was settled.
SettledOnAP(q) == \E i \in DOMAIN q : q[i].ledger = "AP" /\ q[i].settledOn # 0

\* It is a date.
LEMMA OriginalSettlementType ==
    ASSUME NEW previous \in Seq(PaymentRequest)
    PROVE  /\ GetOriginalSettlementDate(previous) \in Date
           /\ SettledOnAP(previous) => GetOriginalSettlementDate(previous) # 0
<1> DEFINE I == {i \in DOMAIN previous : /\ previous[i].ledger = "AP"
                                         /\ previous[i].settledOn # 0}
           dates == {r.settledOn : r \in {previous[i] : i \in I}}
<1>1. \A i \in I : previous[i] \in PaymentRequest
  BY ListType
<1>2. \A i \in I : previous[i].settledOn \in Date /\ previous[i].settledOn # 0
  BY <1>1 DEF PaymentRequest
<1>3. dates \subseteq Date /\ 0 \notin dates
  BY <1>2
<1>4. SettledOnAP(previous) => dates # {}
  BY DEF SettledOnAP
<1>5. 0 \in Date /\ Date \subseteq Nat
  BY AdjustmentAssumption DEF AdjustmentAssumption, Date
<1>6. GetOriginalSettlementDate(previous) = IF dates = {} THEN 0 ELSE Min(dates)
  BY DEF GetOriginalSettlementDate
<1> HIDE DEF dates
<1>7. dates # {} => Min(dates) \in dates
  BY <1>3, <1>5, MinIsMember
<1>8. QED
  BY <1>3, <1>4, <1>5, <1>6, <1>7

\* References of debts; each names the first settlement.
LEMMA EnrichAlike ==
    ASSUME NEW requests, Fit(requests), NEW previous \in Seq(PaymentRequest)
    PROVE  /\ Alike(requests, EnrichPaymentRequests(requests, previous))
           /\ \A i \in DOMAIN requests :
                 requests[i].ledger = "AR" =>
                    EnrichPaymentRequests(requests, previous)[i].settlementDate =
                       GetOriginalSettlementDate(previous)
           /\ \A end : Ends(requests, end) =>
                 Ends(EnrichPaymentRequests(requests, previous), end)
<1>1. /\ requests \in Seq(PaymentRequest)
      /\ \A i \in DOMAIN requests : requests[i] \in PaymentRequest
  BY ListType DEF Fit
<1>2. PICK date \in Date : date = GetOriginalSettlementDate(previous)
  BY OriginalSettlementType
<1>3. PICK q : q = EnrichPaymentRequests(requests, previous)
  OBVIOUS
<1>4. q = [i \in DOMAIN requests |->
             IF requests[i].ledger = "AR"
             THEN [requests[i] EXCEPT !.settlementDate = date, !.original = TRUE]
             ELSE requests[i]]
  BY <1>2, <1>3 DEF EnrichPaymentRequests
<1>5. DOMAIN q = DOMAIN requests /\ q = [i \in DOMAIN q |-> q[i]]
  BY <1>4
<1>6. ASSUME NEW i \in DOMAIN requests
      PROVE  /\ q[i] \in PaymentRequest
             /\ q[i].number = requests[i].number /\ q[i].settled = requests[i].settled
             /\ q[i].ledger = requests[i].ledger
             /\ q[i].value = requests[i].value /\ q[i].lines = requests[i].lines
             /\ requests[i].ledger = "AR" => q[i].settlementDate = date
             /\ requests[i].ledger = "AP" => q[i].original = requests[i].original
             /\ q[i].due = requests[i].due /\ q[i].instalments = requests[i].instalments
  <2>1. requests[i] \in PaymentRequest
    BY <1>1
  <2>2. CASE requests[i].ledger = "AR"
    <3>1. q[i] = [requests[i] EXCEPT !.settlementDate = date, !.original = TRUE]
      BY <1>4, <2>2
    <3>2. q[i] \in PaymentRequest
      BY <2>1, <3>1 DEF PaymentRequest
    <3>3. QED
      BY <2>1, <2>2, <3>1, <3>2 DEF PaymentRequest
  <2>3. CASE requests[i].ledger # "AR"
    BY <1>4, <2>1, <2>3
  <2>4. QED
    BY <2>2, <2>3
<1>7. q \in Seq(PaymentRequest) /\ Len(q) = Len(requests)
  BY <1>1, <1>5, <1>6, ListWritten
<1>8. Alike(requests, q)
  BY <1>6, <1>7 DEF Alike
<1>9. \A end : Ends(requests, end) => Ends(q, end)
  BY <1>5, <1>6 DEF Ends, EndOf
<1>10. QED
  BY <1>2, <1>3, <1>6, <1>8, <1>9

-----------------------------------------------------------------------------
(* Completion.                                                             *)

SentRight(r) == r.sent <=> r.value # 0

\* Debts name the settlement they correct.
Referenced(q) ==
    \A i \in DOMAIN q : q[i].ledger = "AR" /\ q[i].value # 0 => q[i].settlementDate # 0

\* Enrichment writes the reference, if there is a settlement.
LEMMA EnrichedReferenced ==
    ASSUME NEW previous \in Seq(PaymentRequest), SettledOnAP(previous),
           NEW p, Fit(p), NEW q, Alike(p, q),
           \A i \in DOMAIN p : p[i].ledger = "AR" =>
              q[i].settlementDate = GetOriginalSettlementDate(previous)
    PROVE  Referenced(q)
<1>1. GetOriginalSettlementDate(previous) # 0
  BY OriginalSettlementType
<1>2. DOMAIN q = DOMAIN p
  <2>1. p \in Seq(PaymentRequest) /\ q \in Seq(PaymentRequest) /\ Len(q) = Len(p)
    BY DEF Fit, Alike
  <2>2. QED
    BY <2>1, ListType
<1>3. \A i \in DOMAIN p : q[i].ledger = p[i].ledger
  BY DEF Alike
<1>4. QED
  BY <1>1, <1>2, <1>3 DEF Referenced

\* Requests that need not be split, and that a first payment of number 0 or 1
\* or a pair that cancels out (first) does not make a request of value 0.
Savable(q, first) ==
    /\ q \in Seq(PaymentRequest) /\ Len(q) \in {1, 2}
    /\ \A i \in DOMAIN q : Summed(q[i])
    /\ \A i \in DOMAIN q : q[i].value = 0 =>
          ~first /\ \A k \in DOMAIN q[i].lines : q[i].lines[k] = 0

\* One request as it is saved.
SavedRequest(r, first) ==
    LET m == [r EXCEPT !.lines = NonZeroLines(r.lines)]
    IN  [m EXCEPT !.sent = CreateOutboxEntry(m, first)]

\* It is sent exactly if it is worth something.
LEMMA SavedRequestType ==
    ASSUME NEW r \in PaymentRequest, Summed(r), NEW first \in BOOLEAN,
           r.value = 0 => ~first /\ \A k \in DOMAIN r.lines : r.lines[k] = 0
    PROVE  /\ SavedRequest(r, first) \in PaymentRequest
           /\ Summed(SavedRequest(r, first)) /\ SentRight(SavedRequest(r, first))
           /\ SavedRequest(r, first).number = r.number
           /\ SavedRequest(r, first).settled = r.settled
           /\ SavedRequest(r, first).ledger = r.ledger
           /\ SavedRequest(r, first).value = r.value
           /\ SavedRequest(r, first).original = r.original
           /\ EndOf(SavedRequest(r, first)) = EndOf(r)
           /\ SavedRequest(r, first).settlementDate = r.settlementDate
           /\ DOMAIN SavedRequest(r, first).lines \subseteq DOMAIN r.lines
<1>1. r.lines \in Lines /\ r.original \in BOOLEAN
  BY DEF PaymentRequest
<1>2. PICK l \in Lines : l = NonZeroLines(r.lines)
  BY <1>1, NonZeroLinesTotal
<1>3. /\ DOMAIN l = {k \in DOMAIN r.lines : r.lines[k] # 0}
      /\ LineTotal(l) = LineTotal(r.lines)
  BY <1>1, <1>2, NonZeroLinesTotal
<1>4. PICK m : m = [r EXCEPT !.lines = l]
  OBVIOUS
<1>5. m \in PaymentRequest
  BY <1>4 DEF PaymentRequest
<1>6. /\ m.lines = l /\ m.original = r.original /\ m.number = r.number
      /\ m.settled = r.settled /\ m.ledger = r.ledger /\ m.value = r.value
      /\ m.settlementDate = r.settlementDate
      /\ m.due = r.due /\ m.instalments = r.instalments
  BY <1>4 DEF PaymentRequest
<1>7. PICK s \in BOOLEAN : s = CreateOutboxEntry(m, first)
  BY DEF CreateOutboxEntry
<1>8. PICK p : p = [m EXCEPT !.sent = s]
  OBVIOUS
<1>9. p \in PaymentRequest
  BY <1>5, <1>8 DEF PaymentRequest
<1>10. /\ p.lines = l /\ p.number = r.number /\ p.sent = s
       /\ p.settled = r.settled /\ p.ledger = r.ledger /\ p.value = r.value
       /\ p.settlementDate = r.settlementDate /\ p.original = r.original
       /\ p.due = r.due /\ p.instalments = r.instalments
  BY <1>5, <1>6, <1>8 DEF PaymentRequest
<1>11. p = SavedRequest(r, first)
  BY <1>2, <1>4, <1>7, <1>8 DEF SavedRequest
<1>12. Summed(p)
  BY <1>3, <1>10 DEF Summed
<1>13. s <=> DOMAIN l # {} \/ (r.original /\ first)
  BY <1>6, <1>7 DEF CreateOutboxEntry
<1>14. r.value # 0 => DOMAIN l # {}
  BY <1>1, <1>3, SomeLine DEF Summed
<1>15. r.value = 0 => DOMAIN l = {} /\ ~first
  BY <1>3
<1>16. SentRight(p)
  BY <1>10, <1>13, <1>14, <1>15 DEF SentRight
<1>17. QED
  BY <1>3, <1>9, <1>10, <1>11, <1>12, <1>16 DEF EndOf

\* What completion adds to the table.
CompletedAs(new, q) ==
    /\ new \in Seq(PaymentRequest) /\ Len(new) \in {1, 2}
    /\ \A i \in DOMAIN new : Summed(new[i]) /\ SentRight(new[i])
    /\ ValueTotal(new) = ValueTotal(q) /\ DebtTotal(new) = DebtTotal(q)
    /\ \A r, keys : PartsOf(q, r, keys) => PartsOf(new, r, keys)
    /\ Referenced(q) => Referenced(new)
    /\ DebtFree(q) => DebtFree(new)
    /\ OneWay(q) => OneWay(new)
    /\ \A end : Ends(q, end) => Ends(new, end)

\* Requests as they are saved are worth the same.
LEMMA SavedCompletes ==
    ASSUME NEW q, NEW first \in BOOLEAN, Savable(q, first)
    PROVE  CompletedAs(Saved(q, first), q)
<1> DEFINE new == Saved(q, first)
<1>1. /\ q \in Seq(PaymentRequest) /\ Len(q) \in {1, 2} /\ DOMAIN q = 1..Len(q)
      /\ \A i \in DOMAIN q : q[i] \in PaymentRequest
  BY ListType DEF Savable
<1>2. new = [i \in DOMAIN q |-> SavedRequest(q[i], first)]
  BY DEF Saved, SavedRequest
<1> HIDE DEF new
<1>3. DOMAIN new = DOMAIN q /\ new = [i \in DOMAIN new |-> new[i]]
  BY <1>2
<1>4. ASSUME NEW i \in DOMAIN q
      PROVE  /\ new[i] \in PaymentRequest /\ Summed(new[i]) /\ SentRight(new[i])
             /\ new[i].number = q[i].number /\ new[i].settled = q[i].settled
             /\ new[i].ledger = q[i].ledger /\ new[i].value = q[i].value
             /\ new[i].settlementDate = q[i].settlementDate
             /\ new[i].original = q[i].original /\ EndOf(new[i]) = EndOf(q[i])
             /\ DOMAIN new[i].lines \subseteq DOMAIN q[i].lines
  <2>1. q[i] \in PaymentRequest /\ Summed(q[i])
    BY <1>1 DEF Savable
  <2>2. q[i].value = 0 => ~first /\ \A k \in DOMAIN q[i].lines : q[i].lines[k] = 0
    BY DEF Savable
  <2>3. new[i] = SavedRequest(q[i], first)
    BY <1>2
  <2>4. QED
    BY <2>1, <2>2, <2>3, SavedRequestType
<1>5. new \in Seq(PaymentRequest) /\ Len(new) = Len(q)
  BY <1>1, <1>3, <1>4, ListWritten
<1>6. \A i \in DOMAIN q : Values(new)[i] = Values(q)[i] /\ Debts(new)[i] = Debts(q)[i]
  BY <1>3, <1>4 DEF Values, Debts
<1>7. 1 \in DOMAIN q /\ (Len(q) # 1 => 2 \in DOMAIN q) /\ Len(new) \in {1, 2}
  BY <1>1, <1>5
<1>8. ValueTotal(new) = ValueTotal(q)
  BY <1>1, <1>5, <1>6, <1>7, ShortTotals
<1>9. DebtTotal(new) = DebtTotal(q)
  BY <1>1, <1>5, <1>6, <1>7, ShortTotals
<1>10. \A r, keys : PartsOf(q, r, keys) => PartsOf(new, r, keys)
  BY <1>3, <1>4 DEF PartsOf
<1>11. Referenced(q) => Referenced(new)
  BY <1>3, <1>4 DEF Referenced
<1>12. DebtFree(q) => DebtFree(new)
  BY <1>3, <1>4 DEF DebtFree
<1>13. OneWay(q) => OneWay(new)
  <2>1. CancelsOut(q) => CancelsOut(new)
    BY <1>3, <1>4 DEF CancelsOut
  <2>2. QED
    BY <1>3, <1>4, <2>1 DEF OneWay
<1>14. \A end : Ends(q, end) => Ends(new, end)
  BY <1>3, <1>4 DEF Ends
<1>15. QED
  BY <1>3, <1>4, <1>5, <1>7, <1>8, <1>9, <1>10, <1>11, <1>12, <1>13, <1>14
  DEF CompletedAs, new

\* A single request whose lines cancel out is completed as two.
LEMMA SplitCompletes ==
    ASSUME NEW q, Fit(q), Len(q) = 1, CheckSingleRequestOffsets(q[1]),
           NEW first \in BOOLEAN
    PROVE  CompletedAs(Saved(ZeroValueSplit(q[1]), first), q)
<1> DEFINE r == q[1]
           p == ZeroValueSplit(r)
<1>1. r \in PaymentRequest /\ Summed(r) /\ DOMAIN q = {1}
  BY ListType DEF Fit
<1>2. LineTotal(r.lines) = 0 /\ \E k \in DOMAIN r.lines : r.lines[k] > 0
  BY DEF CheckSingleRequestOffsets
<1>3. r.value = 0 /\ r.value \in Int
  BY <1>1, <1>2 DEF Summed
<1>4. /\ Fit(p) /\ Len(p) = 2 /\ PartsOf(p, r, DOMAIN r.lines)
      /\ ValueTotal(p) = 0 /\ DebtTotal(p) = 0
      /\ \A i \in DOMAIN p : p[i].ledger = "AP"
      /\ CancelsOut(p) /\ Ends(p, EndOf(r))
  BY <1>1, <1>2, ZeroValueSplitFits
<1>5. \A i \in DOMAIN p : p[i].value # 0
  <2>1. p = <<Part(r, {k \in DOMAIN r.lines : r.lines[k] > 0}),
              Part(r, {k \in DOMAIN r.lines : r.lines[k] <= 0})>>
    BY DEF ZeroValueSplit, Part
  <2>2. /\ p[1] = Part(r, {k \in DOMAIN r.lines : r.lines[k] > 0})
        /\ DOMAIN p = {1, 2}
    BY <2>1
  <2> DEFINE P == {k \in DOMAIN r.lines : r.lines[k] > 0}
  <2>3. P \in SUBSET DOMAIN r.lines /\ P # {} /\ (\A k \in P : r.lines[k] > 0)
    BY <1>2
  <2> HIDE DEF P, p, r
  <2>4. DOMAIN p[1].lines = P /\ \A k \in P : p[1].lines[k] = r.lines[k]
    BY <1>1, <2>2, <2>3, PartType DEF P
  <2>5. p[1].value # 0
    <3>1. 1 \in DOMAIN p
      BY <2>2
    <3>2. p[1].value = 0 => \A k \in P : r.lines[k] = 0
      BY <1>4, <2>4, <3>1 DEF Fit
    <3>3. QED
      BY <2>3, <3>2
  <2>6. p[1].value + p[2].value = 0 /\ p[1].value \in Int /\ p[2].value \in Int
    <3>1. ValueTotal(p) = Values(p)[1] + Values(p)[2]
      <4>1. Len(p) \in {1, 2} /\ Len(p) # 1 /\ p \in Seq(PaymentRequest)
        BY <1>4 DEF Fit
      <4>2. QED
        BY <4>1, ShortTotals
    <3>2. Values(p)[1] = p[1].value /\ Values(p)[2] = p[2].value
      BY <2>2 DEF Values
    <3>3. Values(p)[1] \in Int /\ Values(p)[2] \in Int
      BY <1>4, <2>2, ListType DEF Fit
    <3>4. QED
      BY <1>4, <3>1, <3>2, <3>3
  <2>7. p[2].value # 0
    BY <2>5, <2>6
  <2>8. QED
    BY <2>2, <2>5, <2>7
<1> HIDE DEF p
<1>6. Savable(p, first)
  BY <1>4, <1>5 DEF Savable, Fit
<1>7. CompletedAs(Saved(p, first), p)
  BY <1>6, SavedCompletes
<1>8. ValueTotal(q) = 0 /\ DebtTotal(q) = 0
  <2>1. /\ ValueTotal(q) = Values(q)[1] + 0 /\ DebtTotal(q) = Debts(q)[1] + 0
    BY ShortTotals DEF Fit
  <2>2. Values(q)[1] = 0 /\ Debts(q)[1] = 0
    BY <1>1, <1>3 DEF Values, Debts
  <2>3. QED
    BY <2>1, <2>2
<1>9. \A o, keys : PartsOf(q, o, keys) => PartsOf(p, o, keys)
  BY <1>1, <1>4 DEF PartsOf
<1>10. Referenced(p) /\ DebtFree(p)
  BY <1>4 DEF Referenced, DebtFree
<1>11. OneWay(p) /\ \A end : Ends(q, end) => Ends(p, end)
  BY <1>1, <1>4 DEF OneWay, Ends
<1>12. QED
  BY <1>4, <1>7, <1>8, <1>9, <1>10, <1>11 DEF CompletedAs, p

\* Completion of requests that fit.
LEMMA CompletionFits ==
    ASSUME NEW q, Fit(q), CompletePaymentRequests(q)
    PROVE  \E new : CompletedAs(new, q) /\ rows' = rows \o new
<1>1. /\ Len(q) \in {1, 2} /\ DOMAIN q = 1..Len(q) /\ q \in Seq(PaymentRequest)
      /\ \A i \in DOMAIN q : q[i] \in PaymentRequest /\ q[i].value \in Int
      /\ 1 \in DOMAIN q
  <2>1. q \in Seq(PaymentRequest) /\ Len(q) \in {1, 2}
    BY DEF Fit
  <2>2. DOMAIN q = 1..Len(q) /\ \A i \in DOMAIN q : q[i] \in PaymentRequest
    BY <2>1, ListType
  <2>3. \A i \in DOMAIN q : q[i].value \in Int
    BY <2>2 DEF PaymentRequest
  <2>4. QED
    BY <2>1, <2>2, <2>3
<1>2. CASE Len(q) = 1 /\ CheckSingleRequestOffsets(q[1])
  <2>1. rows' = rows \o Saved(ZeroValueSplit(q[1]), q[1].number <= 1)
    BY <1>2 DEF CompletePaymentRequests
  <2>2. \/ (q[1].number <= 1) = TRUE
        \/ (q[1].number <= 1) = FALSE
    BY <1>1 DEF PaymentRequest
  <2>3. PICK first \in BOOLEAN : rows' = rows \o Saved(ZeroValueSplit(q[1]), first)
    BY <2>1, <2>2
  <2>4. QED
    BY <1>2, <2>3, SplitCompletes
<1>3. CASE ~(Len(q) = 1 /\ CheckSingleRequestOffsets(q[1]))
  <2>1. PICK first \in BOOLEAN : first <=> CheckMultipleRequestOffsets(q)
    OBVIOUS
  <2>2. rows' = rows \o Saved(q, CheckMultipleRequestOffsets(q))
    BY <1>3 DEF CompletePaymentRequests
  <2>3. first = CheckMultipleRequestOffsets(q)
    BY <2>1 DEF CheckMultipleRequestOffsets
  <2>4. ASSUME NEW i \in DOMAIN q, q[i].value = 0
        PROVE  ~first /\ \A k \in DOMAIN q[i].lines : q[i].lines[k] = 0
    <3>1. CASE Len(q) = 1
      <4>1. i = 1 /\ ~first
        BY <1>1, <2>1, <3>1 DEF CheckMultipleRequestOffsets
      <4>2. q[i] \in PaymentRequest /\ Summed(q[i])
        BY <1>1 DEF Fit
      <4>3. q[i].lines \in Lines /\ LineTotal(q[i].lines) = 0
        BY <2>4, <4>2 DEF PaymentRequest, Summed
      <4>4. \A k \in DOMAIN q[i].lines : ~(q[i].lines[k] > 0)
        BY <1>3, <3>1, <4>1, <4>3 DEF CheckSingleRequestOffsets
      <4>5. QED
        BY <4>1, <4>3, <4>4, NoLineAbove
    <3>2. CASE Len(q) # 1
      <4>1. Len(q) = 2 /\ i \in {1, 2} /\ 2 \in DOMAIN q
        BY <1>1, <3>2
      <4>2. ~first
        BY <1>1, <2>1, <2>4, <4>1 DEF CheckMultipleRequestOffsets
      <4>3. QED
        BY <2>4, <4>1, <4>2 DEF Fit
    <3>3. QED
      BY <3>1, <3>2
  <2>5. Savable(q, first)
    BY <2>4 DEF Savable, Fit
  <2>6. QED
    BY <2>2, <2>3, <2>5, SavedCompletes
<1>4. QED
  BY <1>2, <1>3

-----------------------------------------------------------------------------
(* A closed agreement.                                                     *)

\* A request whose debt is left out.
LeftOut(r) ==
    IF r.ledger = "AR" THEN [r EXCEPT !.value = 0, !.lines = <<>>] ELSE r

\* It has the type of a request and is worth its lines.
LEMMA LeftOutType ==
    ASSUME NEW r \in PaymentRequest, Summed(r)
    PROVE  /\ LeftOut(r) \in PaymentRequest /\ Summed(LeftOut(r))
           /\ LeftOut(r).number = r.number /\ LeftOut(r).settled = r.settled
           /\ LeftOut(r).ledger = r.ledger /\ EndOf(LeftOut(r)) = EndOf(r)
           /\ LeftOut(r).value = (IF r.ledger = "AR" THEN 0 ELSE r.value)
           /\ DOMAIN LeftOut(r).lines \subseteq DOMAIN r.lines
           /\ r.ledger = "AR" => DOMAIN LeftOut(r).lines = {}
           /\ r.ledger # "AR" => LeftOut(r).lines = r.lines
<1>1. CASE r.ledger = "AR"
  <2>1. PICK l \in Lines : l = <<>> /\ DOMAIN l = {} /\ LineTotal(l) = 0
    BY NoLines
  <2>2. PICK m : m = LeftOut(r)
    OBVIOUS
  <2>3. PICK z \in Int : z = 0
    OBVIOUS
  <2>4. m = [r EXCEPT !.value = z, !.lines = l]
    BY <1>1, <2>1, <2>2, <2>3 DEF LeftOut
  <2>5. m \in PaymentRequest
    BY <2>4 DEF PaymentRequest
  <2>6. /\ m.number = r.number /\ m.settled = r.settled /\ m.ledger = r.ledger
        /\ m.value = z /\ m.lines = l /\ m.due = r.due /\ m.instalments = r.instalments
    BY <2>4 DEF PaymentRequest
  <2>7. QED
    BY <1>1, <2>1, <2>2, <2>5, <2>6, <2>3 DEF Summed, EndOf
<1>2. CASE r.ledger # "AR"
  BY <1>2 DEF LeftOut
<1>3. QED
  BY <1>1, <1>2

\* What is completed of a closed agreement is what goes to AP.
LEMMA SuppressFits ==
    ASSUME NEW q, Fit(q)
    PROVE  /\ Fit(SuppressARPaymentRequests(q))
           /\ ValueTotal(SuppressARPaymentRequests(q)) = ValueTotal(q) - DebtTotal(q)
           /\ DebtTotal(SuppressARPaymentRequests(q)) = 0
           /\ \A r, keys : PartsOf(q, r, keys) =>
                              PartsOf(SuppressARPaymentRequests(q), r, keys)
           /\ DebtFree(SuppressARPaymentRequests(q))
           /\ \A end : Ends(q, end) => Ends(SuppressARPaymentRequests(q), end)
<1> DEFINE saved == [i \in DOMAIN q |-> LeftOut(q[i])]
<1>1. /\ Len(q) \in {1, 2} /\ DOMAIN q = 1..Len(q) /\ q \in Seq(PaymentRequest)
      /\ \A i \in DOMAIN q : q[i] \in PaymentRequest /\ Summed(q[i])
      /\ 1 \in DOMAIN q /\ (Len(q) # 1 => 2 \in DOMAIN q)
  <2>1. q \in Seq(PaymentRequest) /\ Len(q) \in {1, 2}
    BY DEF Fit
  <2>2. DOMAIN q = 1..Len(q) /\ \A i \in DOMAIN q : q[i] \in PaymentRequest
    BY <2>1, ListType
  <2>3. \A i \in DOMAIN q : Summed(q[i])
    BY DEF Fit
  <2>4. 1 \in DOMAIN q /\ (Len(q) # 1 => 2 \in DOMAIN q)
    BY <2>1, <2>2
  <2>5. QED
    BY <2>1, <2>2, <2>3, <2>4
<1>2. DOMAIN saved = DOMAIN q /\ saved = [i \in DOMAIN saved |-> saved[i]]
  OBVIOUS
<1>3. \A i \in DOMAIN q :
         /\ saved[i] \in PaymentRequest /\ Summed(saved[i])
         /\ saved[i].number = q[i].number /\ saved[i].settled = q[i].settled
         /\ saved[i].ledger = q[i].ledger /\ EndOf(saved[i]) = EndOf(q[i])
         /\ saved[i].value = (IF q[i].ledger = "AR" THEN 0 ELSE q[i].value)
         /\ DOMAIN saved[i].lines \subseteq DOMAIN q[i].lines
         /\ q[i].ledger = "AR" => DOMAIN saved[i].lines = {}
         /\ q[i].ledger # "AR" => saved[i].lines = q[i].lines
  BY <1>1, LeftOutType
<1>4. SuppressARPaymentRequests(q) = IF q[1].ledger = "AR" THEN Reverse(saved) ELSE saved
  BY DEF SuppressARPaymentRequests, LeftOut
<1> HIDE DEF saved
<1>5. saved \in Seq(PaymentRequest) /\ Len(saved) = Len(q)
  BY <1>1, <1>2, <1>3, ListWritten
<1>6. \A i \in DOMAIN q : /\ q[i].value \in Int /\ q[i].ledger \in {"AP", "AR"}
                          /\ q[i].value = 0 /\ Len(q) = 2 =>
                                \A k \in DOMAIN q[i].lines : q[i].lines[k] = 0
  <2>1. \A i \in DOMAIN q : q[i].value \in Int /\ q[i].ledger \in {"AP", "AR"}
    BY <1>1 DEF PaymentRequest
  <2>2. QED
    BY <2>1 DEF Fit
<1>7. Fit(saved)
  BY <1>1, <1>2, <1>3, <1>5, <1>6 DEF Fit
<1>8. PICK p : p = SuppressARPaymentRequests(q)
  OBVIOUS
<1>9. /\ DOMAIN p = DOMAIN q /\ p = [i \in DOMAIN p |-> p[i]]
      /\ \/ p[1] = saved[1] /\ (Len(q) = 2 => p[2] = saved[2])
         \/ Len(q) = 2 /\ p[1] = saved[2] /\ p[2] = saved[1]
  <2>1. CASE q[1].ledger # "AR"
    <3>1. p = saved
      BY <1>4, <1>8, <2>1
    <3>2. QED
      BY <1>2, <3>1
  <2>2. CASE q[1].ledger = "AR"
    <3>1. p = [i \in 1..Len(q) |-> saved[(Len(q) - i) + 1]]
      BY <1>4, <1>5, <1>8, <2>2 DEF Reverse
    <3>2. Len(q) = 1 => p[1] = saved[1]
      BY <3>1
    <3>3. Len(q) = 2 => p[1] = saved[2] /\ p[2] = saved[1]
      BY <3>1
    <3>4. DOMAIN p = 1..Len(q) /\ p = [i \in DOMAIN p |-> p[i]]
      BY <3>1
    <3>5. QED
      BY <1>1, <3>2, <3>3, <3>4
  <2>3. QED
    BY <2>1, <2>2
<1>10. p \in Seq(PaymentRequest) /\ Len(p) = Len(q)
  <2>1. \A i \in DOMAIN q : p[i] \in PaymentRequest
    BY <1>1, <1>3, <1>9
  <2>2. QED
    BY <1>1, <1>9, <2>1, ListWritten
<1>11. PICK a \in PaymentRequest : a = saved[1]
  BY <1>1, <1>3
<1>12. CASE Len(q) = 1
  <2>1. /\ DOMAIN q = {1} /\ p \in Seq(PaymentRequest) /\ Len(p) = 1
        /\ DOMAIN p = {1} /\ p[1] = a
    <3>1. DOMAIN q = {1}
      BY <1>1, <1>12
    <3>2. QED
      BY <1>9, <1>11, <1>12, <1>10, <3>1
  <2>2. /\ ValueTotal(q) = q[1].value
        /\ DebtTotal(q) = (IF q[1].ledger = "AR" THEN q[1].value ELSE 0)
    <3>1. /\ ValueTotal(q) = Values(q)[1] + 0 /\ DebtTotal(q) = Debts(q)[1] + 0
      BY <1>1, <1>12, ShortTotals
    <3>2. QED
      BY <1>1, <1>6, <3>1 DEF Values, Debts
  <2>3. /\ ValueTotal(p) = a.value
        /\ DebtTotal(p) = (IF a.ledger = "AR" THEN a.value ELSE 0)
    <3>1. /\ ValueTotal(p) = Values(p)[1] + 0 /\ DebtTotal(p) = Debts(p)[1] + 0
      BY <2>1, ShortTotals
    <3>2. a.value \in Int
      BY DEF PaymentRequest
    <3>3. QED
      BY <2>1, <3>1, <3>2 DEF Values, Debts
  <2>4. /\ ValueTotal(p) = ValueTotal(q) - DebtTotal(q) /\ DebtTotal(p) = 0
    BY <1>1, <1>3, <1>6, <1>11, <2>2, <2>3
  <2>5. Fit(p) /\ DebtFree(p) /\ \A r, keys : PartsOf(q, r, keys) => PartsOf(p, r, keys)
    BY <1>3, <1>11, <2>1 DEF Fit, DebtFree, PartsOf
  <2>6. \A end : Ends(q, end) => Ends(p, end)
    BY <1>3, <1>11, <2>1 DEF Ends
  <2>7. QED
    BY <1>8, <2>4, <2>5, <2>6
<1>13. CASE Len(q) = 2
  <2>1. PICK b \in PaymentRequest : b = saved[2]
    BY <1>1, <1>3, <1>13
  <2>2. /\ DOMAIN q = {1, 2} /\ p \in Seq(PaymentRequest) /\ Len(p) = 2
        /\ DOMAIN p = {1, 2}
        /\ \/ p[1] = a /\ p[2] = b
           \/ p[1] = b /\ p[2] = a
    <3>1. DOMAIN q = {1, 2}
      BY <1>1, <1>13
    <3>2. QED
      BY <1>9, <1>11, <1>13, <1>10, <2>1, <3>1
  <2>3. /\ ValueTotal(q) = q[1].value + q[2].value
        /\ DebtTotal(q) = (IF q[1].ledger = "AR" THEN q[1].value ELSE 0)
                             + (IF q[2].ledger = "AR" THEN q[2].value ELSE 0)
    <3>1. Len(q) # 1
      BY <1>13
    <3>2. /\ ValueTotal(q) = Values(q)[1] + Values(q)[2]
          /\ DebtTotal(q) = Debts(q)[1] + Debts(q)[2]
      BY <1>1, <3>1, ShortTotals
    <3>3. QED
      BY <2>2, <3>2 DEF Values, Debts
  <2>4. /\ ValueTotal(p) = p[1].value + p[2].value
        /\ DebtTotal(p) = (IF p[1].ledger = "AR" THEN p[1].value ELSE 0)
                             + (IF p[2].ledger = "AR" THEN p[2].value ELSE 0)
    <3>1. Len(p) # 1
      BY <2>2
    <3>2. /\ ValueTotal(p) = Values(p)[1] + Values(p)[2]
          /\ DebtTotal(p) = Debts(p)[1] + Debts(p)[2]
      BY <2>2, <3>1, ShortTotals
    <3>3. QED
      BY <2>2, <3>2 DEF Values, Debts
  <2>5. /\ a.ledger = q[1].ledger /\ b.ledger = q[2].ledger
        /\ a.value = (IF q[1].ledger = "AR" THEN 0 ELSE q[1].value)
        /\ b.value = (IF q[2].ledger = "AR" THEN 0 ELSE q[2].value)
        /\ q[1].value \in Int /\ q[2].value \in Int
    BY <1>3, <1>6, <1>11, <2>1, <2>2
  <2>6. ValueTotal(p) = ValueTotal(q) - DebtTotal(q) /\ DebtTotal(p) = 0
    <3>1. PICK x \in Int, y \in Int : x = q[1].value /\ y = q[2].value
      BY <2>5
    <3>2. PICK d \in Int, e \in Int : /\ d = (IF q[1].ledger = "AR" THEN x ELSE 0)
                                      /\ e = (IF q[2].ledger = "AR" THEN y ELSE 0)
      OBVIOUS
    <3>3. ValueTotal(q) = x + y /\ DebtTotal(q) = d + e
      BY <2>3, <3>1, <3>2
    <3>4. a.value = x - d /\ b.value = y - e
      BY <2>5, <3>1, <3>2
    <3>5. \/ ValueTotal(p) = a.value + b.value
          \/ ValueTotal(p) = b.value + a.value
      BY <2>2, <2>4
    <3>6. /\ a.ledger = "AR" => a.value = 0
          /\ b.ledger = "AR" => b.value = 0
      BY <2>5
    <3>7. DebtTotal(p) = 0
      BY <2>2, <2>4, <3>6
    <3>8. QED
      BY <3>3, <3>4, <3>5, <3>7
  <2>7. Fit(p)
    BY <1>3, <1>6, <1>11, <1>13, <2>1, <2>2, <2>5 DEF Fit
  <2>8. DebtFree(p)
    BY <2>2, <2>5 DEF DebtFree
  <2>9. \A r, keys : PartsOf(q, r, keys) => PartsOf(p, r, keys)
    BY <1>3, <1>11, <2>1, <2>2 DEF PartsOf
  <2>10. \A end : Ends(q, end) => Ends(p, end)
    BY <1>3, <1>11, <2>1, <2>2 DEF Ends
  <2>11. QED
    BY <1>8, <2>6, <2>7, <2>8, <2>9, <2>10
<1>14. QED
  BY <1>1, <1>12, <1>13

-----------------------------------------------------------------------------
(* The lines of a request.                                                 *)

\* Every line gets one of the fund codes.
LEMMA DomesticFundsType ==
    ASSUME NEW s, NEW t, NEW previous \in Seq(PaymentRequest)
    PROVE  DomesticFunds(s, t, previous) \subseteq Funds
<1>1. ASSUME NEW i \in DOMAIN previous
      PROVE  \A k \in DOMAIN previous[i].lines : k[2] \in Funds
  <2>1. previous[i].lines \in Lines
    BY ListType DEF PaymentRequest
  <2>2. DOMAIN previous[i].lines \subseteq Keys
    BY <2>1, LinesType
  <2>3. \A k \in Keys : k[2] \in Funds
    BY DEF Keys
  <2>4. QED
    BY <2>2, <2>3
<1>2. PreviousDomesticFunds(previous) \subseteq Funds
  BY <1>1 DEF PreviousDomesticFunds
<1>3. ASSUME NEW a \in Funds, NEW b \in Funds
      PROVE  SelectDomesticFundCode(previous, a, b) \subseteq Funds
  BY <1>2 DEF SelectDomesticFundCode
<1>4. {"DOM00", "DOM01", "DRD00", "DRD05", "DRD01", "DRD10"} \subseteq Funds
  BY DEF Funds
<1>5. QED
  BY <1>3, <1>4 DEF DomesticFunds

\* The lines of a claim, whatever their fund codes.
LEMMA DualAccountingType ==
    ASSUME NEW s, NEW claim \in Claims, NEW previous \in Seq(PaymentRequest),
           NEW lines \in ApplyDualAccounting(s, claim, previous)
    PROVE  /\ lines \in Lines /\ LineTotal(lines) = LineTotal(claim)
           /\ \A k \in DOMAIN lines : k[2] \in DomesticFunds(s, k[1], previous)
<1> DEFINE present == {t \in DOMAIN claim : claim[t] # 0}
           choices == UNION {DomesticFunds(s, t, previous) : t \in present}
<1>1. PICK f \in [present -> choices] :
         /\ \A t \in present : f[t] \in DomesticFunds(s, t, previous)
         /\ lines = [k \in {<<t, f[t]>> : t \in present} |-> claim[k[1]]]
  BY DEF ApplyDualAccounting
<1>2. /\ IsFiniteSet(DOMAIN claim) /\ \A t \in DOMAIN claim : claim[t] \in Int
      /\ DOMAIN claim \subseteq UNION {DOMAIN c : c \in Claims}
  BY AdjustmentAssumption DEF AdjustmentAssumption
<1>3. \A t \in present : f[t] \in Funds
  BY <1>1, DomesticFundsType
<1> DEFINE K == {<<t, f[t]>> : t \in present}
           pair == [t \in present |-> <<t, f[t]>>]
           nil == {t \in DOMAIN claim : claim[t] = 0}
<1>4. IsFiniteSet(present) /\ IsFiniteSet(nil)
  BY <1>2, FS_Subset
<1>5. IsFiniteSet(K)
  <2>1. pair \in Surjection(present, K)
    BY DEF Surjection
  <2> HIDE DEF pair, present, K
  <2>2. QED
    BY <1>4, <2>1, FS_Surjection
<1>6. K \subseteq Keys
  BY <1>2, <1>3 DEF Keys
<1>7. DOMAIN lines = K /\ lines \in [K -> Int]
  <2>1. \A k \in K : claim[k[1]] \in Int
    BY <1>2
  <2>2. lines = [k \in K |-> claim[k[1]]]
    BY <1>1
  <2> HIDE DEF K
  <2>3. QED
    BY <2>1, <2>2
<1>8. LineTotal(lines) = LineTotal(claim)
  <2>1. Renames(pair, claim, lines, present)
    <3>1. \A t \in present : pair[t] = <<t, f[t]>> /\ pair[t] \in K
      OBVIOUS
    <3>2. \A t \in present : lines[pair[t]] = claim[t]
      BY <1>1, <3>1
    <3>3. QED
      BY <1>2, <3>1, <3>2 DEF Renames
  <2>2. K = {pair[t] : t \in present}
    OBVIOUS
  <2>3. /\ present \cap nil = {} /\ present \cup nil = DOMAIN claim
        /\ \A t \in present : claim[t] \in Int
        /\ \A t \in nil : claim[t] = 0
    BY <1>2
  <2> HIDE DEF K, pair, present, nil
  <2>4. SumOf(lines, {pair[t] : t \in present}) = SumOf(claim, present)
    BY <1>4, <2>1, SumRenamed
  <2>5. SumOf(claim, present \cup nil) = SumOf(claim, present)
    BY <1>4, <2>3, SumWithZeros
  <2>6. QED
    BY <1>7, <2>2, <2>3, <2>4, <2>5, TotalIsSum
<1>9. \A k \in K : k[2] \in DomesticFunds(s, k[1], previous)
  BY <1>1
<1> HIDE DEF K
<1>10. QED
  BY <1>5, <1>6, <1>7, <1>8, <1>9, LinesType

\* A request as it comes in.
LEMMA NewRequestType ==
    ASSUME NEW number \in Nat, NEW lines \in Lines, instalments \in Nat
    PROVE  /\ NewRequest(number, lines) \in PaymentRequest
           /\ Summed(NewRequest(number, lines))
           /\ NewRequest(number, lines).number = number
           /\ NewRequest(number, lines).settled = 0
           /\ NewRequest(number, lines).ledger = "AP"
           /\ NewRequest(number, lines).value = LineTotal(lines)
           /\ NewRequest(number, lines).lines = lines
           /\ NewRequest(number, lines).due \in Nat
           /\ EndOf(NewRequest(number, lines)) = instalments
<1>1. PICK v \in Int : v = LineTotal(lines)
  BY LineTotalType
<1>2. 0 \in Date
  BY AdjustmentAssumption DEF AdjustmentAssumption, Date
<1>3. PICK r : r = NewRequest(number, lines)
  OBVIOUS
<1>4. r = [number |-> number, ledger |-> "AP", value |-> v, lines |-> lines,
           settled |-> 0, settledOn |-> 0, original |-> FALSE, settlementDate |-> 0,
           due |-> 1, instalments |-> instalments, sent |-> FALSE]
  BY <1>1, <1>3 DEF NewRequest
<1>5. r \in PaymentRequest
  BY <1>2, <1>4 DEF PaymentRequest
<1>6. /\ r.number = number /\ r.settled = 0 /\ r.ledger = "AP" /\ r.value = v
      /\ r.lines = lines /\ r.due = 1 /\ r.instalments = instalments
  BY <1>4
<1>7. QED
  BY <1>1, <1>3, <1>5, <1>6 DEF Summed, EndOf

-----------------------------------------------------------------------------
(* The invariant.                                                          *)

NextNumber == Len(claims) + (IF scheme = "SFI23" THEN 0 ELSE 1)

\* The requests of an adjustment that waits for the editor, and what they will
\* come to: the claim it waits for, with no more taken on AR than is owed.
Waits(w) ==
    /\ w.number \in Nat /\ w.due \in Nat /\ Fit(w.requests)
    /\ PartsOf(w.requests, [number |-> w.number, settled |-> 0], Keys)
    /\ claims # <<>>
    /\ ValueTotal(w.requests) + ValueTotal(rows) = claims[Len(claims)]
    /\ DebtTotal(w.requests) + DebtTotal(rows) <= 0
    /\ w.number < NextNumber
    /\ \A i \in DOMAIN rows : rows[i].number < w.number

RowsInv ==
    /\ rows \in Seq(PaymentRequest)
    /\ \A i \in DOMAIN rows : Summed(rows[i]) /\ SentRight(rows[i])
    /\ \A i \in DOMAIN rows : rows[i].number < NextNumber
    /\ DebtTotal(rows) <= 0

VariablesType ==
    /\ scheme \in Schemes /\ instalments \in Instalments
    /\ claims \in Seq(Int) /\ suppressed \in Int /\ closed \in BOOLEAN
    /\ now \in 0..LastDate

\* What was completed comes to the latest claim.
LatestPaid == claims # <<>> => ValueTotal(rows) + suppressed = claims[Len(claims)]

PaymentInv ==
    \/ waiting = {} /\ LatestPaid
    \/ \E w : waiting = {w} /\ Waits(w)

AdjustmentInv == VariablesType /\ RowsInv /\ PaymentInv

\* Unless it comes with a number of theirs, all rows come before a new request,
\* which may be numbered next.
LEMMA IncomingType ==
    ASSUME AdjustmentInv, NEW n \in IncomingNumbers,
           ~Reused(n)
    PROVE  /\ ConfirmPaymentRequestNumber(n) \in Nat
           /\ ConfirmPaymentRequestNumber(n) <= NextNumber
           /\ \A i \in DOMAIN rows : rows[i].number < ConfirmPaymentRequestNumber(n)
           /\ GetCompletedPaymentRequests(ConfirmPaymentRequestNumber(n)) = rows
           /\ scheme # "SFI23" => ConfirmPaymentRequestNumber(n) # 0
<1>1. /\ Len(claims) \in Nat /\ NextNumber \in Nat
      /\ rows \in Seq(PaymentRequest) /\ \A i \in DOMAIN rows : rows[i].number < NextNumber
  BY DEF AdjustmentInv, VariablesType, RowsInv, NextNumber
<1>2. \A i \in DOMAIN rows : rows[i].number \in Nat
  BY <1>1, ListType DEF PaymentRequest
<1>3. IncomingNumbers = IF scheme \in {"BPS", "CS"} THEN 1..NextNumber ELSE {NextNumber}
  BY DEF IncomingNumbers, NextNumber
<1>4. scheme # "SFI23" => NextNumber >= 1
  BY <1>1 DEF NextNumber
<1>5. PICK c : c = ConfirmPaymentRequestNumber(n)
  OBVIOUS
<1>6. c \in Nat /\ c <= NextNumber /\ \A i \in DOMAIN rows : rows[i].number < c
  <2>1. n \in Nat /\ n <= NextNumber
    BY <1>1, <1>3
  <2>2. CASE scheme # "BPS" \/ n > 1 \/ rows = <<>>
    <3>1. c = n
      BY <1>5, <2>2 DEF ConfirmPaymentRequestNumber
    <3>2. CASE n > 1 \/ scheme # "BPS"
      <4>1. \A i \in DOMAIN rows : ~(rows[i].number >= n)
        BY <3>2 DEF Reused
      <4>2. QED
        BY <1>2, <2>1, <3>1, <4>1
    <3>3. CASE rows = <<>>
      BY <2>1, <3>1, <3>3
    <3>4. QED
      BY <2>2, <3>2, <3>3
  <2>3. CASE scheme = "BPS" /\ ~(n > 1) /\ rows # <<>>
    <3> DEFINE S == {rows[i].number : i \in DOMAIN rows}
    <3>1. c = 1 + Max(S)
      BY <1>5, <2>3 DEF ConfirmPaymentRequestNumber
    <3>2. S \in SUBSET (0..NextNumber) /\ S # {}
      <4>1. DOMAIN rows # {}
        BY <1>1, <2>3
      <4>2. \A i \in DOMAIN rows : rows[i].number \in 0..NextNumber
        BY <1>1, <1>2
      <4>3. QED
        BY <4>1, <4>2
    <3>3. \A i \in DOMAIN rows : rows[i].number \in S
      OBVIOUS
    <3>4. \A m \in S : m < NextNumber /\ m \in Nat
      BY <1>1, <1>2
    <3> HIDE DEF S
    <3>5. Max(S) \in S /\ \A m \in S : Max(S) >= m
      BY <1>1, <3>2, MaxIsMember
    <3>6. QED
      BY <1>1, <1>2, <3>1, <3>3, <3>4, <3>5
  <2>4. QED
    BY <2>2, <2>3
<1>7. GetCompletedPaymentRequests(c) = rows
  <2>1. {i \in DOMAIN rows : c = 0 \/ rows[i].number < c} = DOMAIN rows
    BY <1>6
  <2>2. rows = [i \in DOMAIN rows |-> rows[i]]
    BY <1>1
  <2>3. QED
    BY <2>1, <2>2 DEF GetCompletedPaymentRequests, Restrict
<1>8. scheme # "SFI23" => c # 0
  <2>1. CASE scheme # "BPS"
    BY <1>1, <1>3, <1>5, <2>1 DEF ConfirmPaymentRequestNumber, NextNumber
  <2>2. CASE scheme = "BPS"
    <3>1. CASE rows = <<>> \/ n > 1
      BY <1>3, <1>4, <1>5, <2>2, <3>1 DEF ConfirmPaymentRequestNumber
    <3>2. CASE rows # <<>>
      <4>1. 1 \in DOMAIN rows
        BY <1>1, <3>2
      <4>2. rows[1].number < c /\ rows[1].number \in Nat
        BY <1>2, <1>6, <4>1
      <4>3. QED
        BY <1>6, <4>2
    <3>3. QED
      BY <3>1, <3>2
  <2>3. QED
    BY <2>1, <2>2
<1>9. QED
  BY <1>5, <1>6, <1>7, <1>8

\* What completion does to the table.
LEMMA RowsGrow ==
    ASSUME RowsInv, NEW q, NEW new, CompletedAs(new, q), rows' = rows \o new,
           NEW r, NEW keys, PartsOf(q, r, keys)
    PROVE  /\ rows' \in Seq(PaymentRequest)
           /\ \A i \in DOMAIN rows' : Summed(rows'[i]) /\ SentRight(rows'[i])
           /\ \A i \in DOMAIN rows' :
                 \/ i \in DOMAIN rows /\ rows'[i] = rows[i]
                 \/ /\ rows'[i].number = r.number /\ rows'[i].settled = r.settled
                    /\ DOMAIN rows'[i].lines \subseteq keys
           /\ \A i \in DOMAIN rows : i \in DOMAIN rows' /\ rows'[i] = rows[i]
           /\ ValueTotal(rows') = ValueTotal(rows) + ValueTotal(q)
           /\ DebtTotal(rows') = DebtTotal(rows) + DebtTotal(q)
           /\ Referenced(rows) /\ Referenced(q) => Referenced(rows')
           /\ DebtFree(rows) /\ DebtFree(q) => DebtFree(rows')
           /\ \A end : Ends(rows, end) /\ Ends(q, end) => Ends(rows', end)
<1>1. /\ rows \in Seq(PaymentRequest)
      /\ \A i \in DOMAIN rows : Summed(rows[i]) /\ SentRight(rows[i])
  BY DEF RowsInv
<1>2. /\ new \in Seq(PaymentRequest) /\ Len(new) \in {1, 2}
      /\ \A i \in DOMAIN new : Summed(new[i]) /\ SentRight(new[i])
      /\ ValueTotal(new) = ValueTotal(q) /\ DebtTotal(new) = DebtTotal(q)
      /\ PartsOf(new, r, keys) /\ (Referenced(q) => Referenced(new))
      /\ DebtFree(q) => DebtFree(new)
      /\ \A end : Ends(q, end) => Ends(new, end)
  BY DEF CompletedAs
<1>3. PICK all : all = rows \o new
  OBVIOUS
<1>4. /\ all \in Seq(PaymentRequest) /\ Len(all) = Len(rows) + Len(new)
      /\ \A i \in DOMAIN rows : all[i] = rows[i]
      /\ \A i \in DOMAIN all :
            i \in DOMAIN rows \/ \E j \in DOMAIN new : all[i] = new[j]
      /\ ValueTotal(all) = ValueTotal(rows) + ValueTotal(new)
      /\ DebtTotal(all) = DebtTotal(rows) + DebtTotal(new)
  BY <1>1, <1>2, <1>3, Appended
<1>5. \A i \in DOMAIN rows : i \in DOMAIN all
  BY <1>1, <1>2, <1>4
<1>6. \A i \in DOMAIN all : Summed(all[i]) /\ SentRight(all[i])
  BY <1>1, <1>2, <1>4
<1>7. \A i \in DOMAIN all :
         \/ i \in DOMAIN rows /\ all[i] = rows[i]
         \/ /\ all[i].number = r.number /\ all[i].settled = r.settled
            /\ DOMAIN all[i].lines \subseteq keys
  BY <1>2, <1>4 DEF PartsOf
<1>8. Referenced(rows) /\ Referenced(q) => Referenced(all)
  BY <1>2, <1>4 DEF Referenced
<1>9. DebtFree(rows) /\ DebtFree(q) => DebtFree(all)
  BY <1>2, <1>4 DEF DebtFree
<1>10. \A end : Ends(rows, end) /\ Ends(q, end) => Ends(all, end)
  BY <1>2, <1>4 DEF Ends
<1>11. rows' = all
  BY <1>3
<1>12. QED
  BY <1>2, <1>4, <1>5, <1>6, <1>7, <1>8, <1>9, <1>10, <1>11

\* Schedules that end alike are adjusted to ones that do, for AP pays something.
OnSchedule(end) ==
    /\ scheme # "SFI23" /\ now \in Nat /\ Ends(rows, end)
    /\ Advances(rows) = {} /\ ValueTotal(rows) - DebtTotal(rows) >= 0

\* What an adjustment may become comes to the claim, less what was completed.
LEMMA AdjustedFits ==
    ASSUME RowsInv, NEW request \in PaymentRequest,
           NEW requests \in Adjusted(request, rows)
    PROVE  /\ Fit(requests)
           /\ PartsOf(requests, request, KeysOf(request.lines, rows))
           /\ ValueTotal(requests) = LineTotal(request.lines) - ValueTotal(rows)
           /\ DebtTotal(requests) + DebtTotal(rows) <= 0
           /\ SettledOnAP(rows) => Referenced(requests)
           /\ Unspent(rows) /\ LineTotal(request.lines) >= 0 => DebtFree(requests)
           /\ OneWay(requests)
           /\ \A end : OnSchedule(end) /\ EndOf(request) = end => Ends(requests, end)
<1>1. /\ rows \in Seq(PaymentRequest) /\ DebtTotal(rows) <= 0
      /\ \A i \in DOMAIN rows : Summed(rows[i])
  BY DEF RowsInv
<1>2. PICK q \in CalculateDelta(request, rows) :
         requests = EnrichPaymentRequests(ConfirmDueDates(scheme, q, rows, now), rows)
  BY DEF Adjusted
<1>3. PICK p : p = ConfirmDueDates(scheme, q, rows, now)
  OBVIOUS
<1>4. requests = EnrichPaymentRequests(p, rows)
  BY <1>2, <1>3
<1>5. /\ Fit(q) /\ PartsOf(q, request, KeysOf(request.lines, rows))
      /\ ValueTotal(q) = LineTotal(request.lines) - ValueTotal(rows)
      /\ DebtTotal(q) + DebtTotal(rows) <= 0
      /\ OneWay(q) /\ Ends(q, EndOf(request))
  BY <1>1, CalculateDeltaFits
<1>6. Unspent(rows) /\ LineTotal(request.lines) >= 0 => DebtFree(q)
  BY <1>1, DeltaDebtFree
<1>7. PICK keys : keys = KeysOf(request.lines, rows)
  OBVIOUS
<1>8. Alike(q, p)
  BY <1>1, <1>3, <1>5, ConfirmDueDatesAlike
<1>9. /\ OneWay(p) /\ Fit(p) /\ PartsOf(p, request, keys) /\ (DebtFree(q) => DebtFree(p))
      /\ ValueTotal(p) = ValueTotal(q) /\ DebtTotal(p) = DebtTotal(q)
  BY <1>5, <1>7, <1>8, AlikeFits
<1>10. /\ Alike(p, requests)
       /\ \A i \in DOMAIN p : p[i].ledger = "AR" =>
             requests[i].settlementDate = GetOriginalSettlementDate(rows)
       /\ \A end : Ends(p, end) => Ends(requests, end)
  BY <1>1, <1>4, <1>9, EnrichAlike
<1>11. /\ Fit(requests) /\ PartsOf(requests, request, keys)
       /\ DebtFree(p) => DebtFree(requests)
       /\ OneWay(requests)
       /\ ValueTotal(requests) = ValueTotal(p) /\ DebtTotal(requests) = DebtTotal(p)
  BY <1>9, <1>10, AlikeFits
<1>12. SettledOnAP(rows) => Referenced(requests)
  BY <1>1, <1>9, <1>10, EnrichedReferenced
<1>13. ASSUME NEW end, OnSchedule(end), EndOf(request) = end
       PROVE  Ends(requests, end)
  <2>1. Ends(p, end)
    BY <1>1, <1>3, <1>5, <1>13, ConfirmDueDatesEnd DEF OnSchedule
  <2>2. QED
    BY <1>10, <2>1
<1>14. QED
  BY <1>5, <1>6, <1>7, <1>9, <1>11, <1>12, <1>13

\* The last claim after one more.
LEMMA ClaimAppended ==
    ASSUME claims \in Seq(Int), NEW v \in Int, claims' = Append(claims, v)
    PROVE  /\ claims' \in Seq(Int) /\ claims' # <<>>
           /\ Len(claims') = Len(claims) + 1 /\ claims'[Len(claims')] = v
  OBVIOUS

\* Init.
LEMMA AdjustmentInit == Init => AdjustmentInv
<1> SUFFICES ASSUME Init
             PROVE  AdjustmentInv
  OBVIOUS
<1> USE DEF Init
<1>1. VariablesType
  <2>1. scheme \in Schemes /\ instalments \in Instalments
    OBVIOUS
  <2>2. claims = <<>> /\ suppressed = 0 /\ closed = FALSE /\ now = 0
    OBVIOUS
  <2>3. 0 \in 0..LastDate
    BY AdjustmentAssumption DEF AdjustmentAssumption
  <2>4. <<>> \in Seq(Int) /\ 0 \in Int
    OBVIOUS
  <2>5. QED
    BY <2>1, <2>2, <2>3, <2>4 DEF VariablesType
<1>2. /\ rows \in Seq(PaymentRequest) /\ DOMAIN rows = {}
  OBVIOUS
<1>3. DebtTotal(rows) = 0
  <2>1. DebtTotal(rows) = SumOf(Debts(rows), DOMAIN rows)
    BY <1>2, TotalsAreSums
  <2>2. QED
    BY <1>2, <2>1, SumEmpty
<1>4. RowsInv
  BY <1>2, <1>3 DEF RowsInv
<1>5. PaymentInv
  BY DEF PaymentInv, LatestPaid
<1>6. QED
  BY <1>1, <1>4, <1>5 DEF AdjustmentInv

\* The keys of some lines and rows are keys.
LEMMA RequestKeys ==
    ASSUME NEW r \in PaymentRequest, rows \in Seq(PaymentRequest)
    PROVE  /\ LineTotal(r.lines) \in Int
           /\ DOMAIN r.lines \subseteq Keys /\ KeysOf(r.lines, rows) \subseteq Keys
<1>1. r.lines \in Lines
  BY DEF PaymentRequest
<1>2. QED
  BY <1>1, LineTotalType, LinesType, KeysType

\* A first payment completes one request, in full, on AP.
LEMMA FirstPaymentDoes ==
    ASSUME AdjustmentInv, NEW claim \in Claims, FirstPayment(claim),
           ~reused'
    PROVE  \E r \in PaymentRequest : \E new :
              /\ DOMAIN rows = {} /\ Summed(r)
              /\ r.ledger = "AP" /\ r.settled = 0 /\ r.number <= NextNumber
              /\ EndOf(r) = instalments /\ (scheme # "SFI23" => r.number # 0)
              /\ r.lines \in ApplyDualAccounting(scheme, claim, rows)
              /\ claims' = Append(claims, LineTotal(r.lines))
              /\ CompletedAs(new, <<r>>) /\ rows' = rows \o new
<1>1. VariablesType /\ rows \in Seq(PaymentRequest)
  BY DEF AdjustmentInv, RowsInv
<1>2. PICK n \in IncomingNumbers :
         LET number == ConfirmPaymentRequestNumber(n)
             previous == GetCompletedPaymentRequests(number)
         IN  /\ DOMAIN previous = {}
             /\ \E lines \in ApplyDualAccounting(scheme, claim, previous) :
                  /\ CompletePaymentRequests(<<NewRequest(number, lines)>>)
                  /\ claims' = Append(claims, LineTotal(lines))
             /\ reused' = Reused(n)
  BY DEF FirstPayment
<1>3. PICK number : number = ConfirmPaymentRequestNumber(n)
  OBVIOUS
<1>4. /\ number \in Nat /\ number <= NextNumber /\ GetCompletedPaymentRequests(number) = rows
      /\ scheme # "SFI23" => number # 0
  BY <1>2, <1>3, IncomingType
<1>5. DOMAIN rows = {}
  BY <1>2, <1>3, <1>4
<1>6. PICK lines \in ApplyDualAccounting(scheme, claim, rows) :
         /\ CompletePaymentRequests(<<NewRequest(number, lines)>>)
         /\ claims' = Append(claims, LineTotal(lines))
  BY <1>2, <1>3, <1>4
<1>7. lines \in Lines
  BY <1>1, DualAccountingType
<1>8. instalments \in Nat
  BY <1>1, AdjustmentAssumption DEF VariablesType, AdjustmentAssumption
<1>9. PICK r : r = NewRequest(number, lines)
  OBVIOUS
<1>10. /\ r \in PaymentRequest /\ Summed(r) /\ r.number = number /\ r.settled = 0
       /\ r.ledger = "AP" /\ r.lines = lines /\ EndOf(r) = instalments
  BY <1>4, <1>7, <1>8, <1>9, NewRequestType
<1>11. PICK q : q = <<r>>
  OBVIOUS
<1>12. Fit(q)
  BY <1>10, <1>11, SingleFits
<1>13. CompletePaymentRequests(q)
  BY <1>6, <1>9, <1>11
<1>14. PICK new : CompletedAs(new, q) /\ rows' = rows \o new
  BY <1>12, <1>13, CompletionFits
<1>15. QED
  BY <1>4, <1>5, <1>6, <1>10, <1>11, <1>14

\* A first payment keeps the invariant.
LEMMA FirstPaymentKeeps ==
    ASSUME AdjustmentInv, NEW claim \in Claims, FirstPayment(claim),
           ~reused'
    PROVE  AdjustmentInv'
<1>1. /\ waiting = {} /\ VariablesType /\ RowsInv /\ rows \in Seq(PaymentRequest)
      /\ claims \in Seq(Int) /\ Len(claims) \in Nat
  BY DEF FirstPayment, AdjustmentInv, RowsInv, VariablesType
<1>2. PICK r \in PaymentRequest : \E new :
         /\ DOMAIN rows = {} /\ Summed(r)
         /\ r.ledger = "AP" /\ r.settled = 0 /\ r.number <= NextNumber
         /\ claims' = Append(claims, LineTotal(r.lines))
         /\ CompletedAs(new, <<r>>) /\ rows' = rows \o new
  BY FirstPaymentDoes
<1>3. PICK new : CompletedAs(new, <<r>>) /\ rows' = rows \o new
  BY <1>2
<1>4. PICK q : q = <<r>>
  OBVIOUS
<1>5. /\ Fit(q) /\ PartsOf(q, r, DOMAIN r.lines)
      /\ ValueTotal(q) = r.value /\ DebtTotal(q) = 0
  BY <1>2, <1>4, SingleFits
<1>6. /\ rows' \in Seq(PaymentRequest)
      /\ \A i \in DOMAIN rows' : Summed(rows'[i]) /\ SentRight(rows'[i])
      /\ \A i \in DOMAIN rows' :
            \/ i \in DOMAIN rows /\ rows'[i] = rows[i]
            \/ /\ rows'[i].number = r.number /\ rows'[i].settled = r.settled
               /\ DOMAIN rows'[i].lines \subseteq DOMAIN r.lines
      /\ ValueTotal(rows') = ValueTotal(rows) + ValueTotal(q)
      /\ DebtTotal(rows') = DebtTotal(rows) + DebtTotal(q)
  BY <1>1, <1>3, <1>4, <1>5, RowsGrow
<1>7. ValueTotal(rows) = 0 /\ DebtTotal(rows) = 0
  <2>1. /\ ValueTotal(rows) = SumOf(Values(rows), DOMAIN rows)
        /\ DebtTotal(rows) = SumOf(Debts(rows), DOMAIN rows)
    BY <1>1, TotalsAreSums
  <2>2. QED
    BY <1>2, <2>1, SumEmpty
<1>8. LineTotal(r.lines) \in Int /\ r.value = LineTotal(r.lines)
  BY <1>1, <1>2, RequestKeys DEF Summed
<1>9. /\ claims' \in Seq(Int) /\ claims' # <<>>
      /\ Len(claims') = Len(claims) + 1 /\ claims'[Len(claims')] = LineTotal(r.lines)
  BY <1>1, <1>2, <1>8, ClaimAppended
<1>10. suppressed' = 0 /\ UNCHANGED <<scheme, instalments, waiting, closed, now>>
  BY DEF FirstPayment
<1>11. VariablesType'
  BY <1>1, <1>9, <1>10 DEF VariablesType
<1>12. NextNumber' = NextNumber + 1 /\ NextNumber \in Nat
  BY <1>1, <1>9, <1>10 DEF NextNumber
<1>13. RowsInv'
  <2>1. r.number \in Nat
    BY DEF PaymentRequest
  <2>2. \A i \in DOMAIN rows' : rows'[i].number < NextNumber'
    BY <1>2, <1>6, <1>12, <2>1
  <2>3. DebtTotal(rows') <= 0
    BY <1>5, <1>6, <1>7
  <2>4. QED
    BY <1>6, <2>2, <2>3 DEF RowsInv, Summed, SentRight, DebtTotal
<1>14. PaymentInv'
  <2>1. ValueTotal(rows') + suppressed' = claims'[Len(claims')]
    BY <1>5, <1>6, <1>7, <1>8, <1>9, <1>10
  <2>2. QED
    BY <1>1, <1>10, <2>1 DEF PaymentInv, LatestPaid
<1>15. QED
  BY <1>11, <1>13, <1>14 DEF AdjustmentInv

\* An adjustment that is completed at once completes requests that come to the
\* claim, but for what is suppressed.
LEMMA CompleteAdjustmentDoes ==
    ASSUME RowsInv, NEW request \in PaymentRequest, CompleteAdjustment(request, rows)
    PROVE  \E q, new :
              /\ Fit(q) /\ PartsOf(q, request, KeysOf(request.lines, rows))
              /\ suppressed' \in Int /\ waiting' = waiting
              /\ ValueTotal(q) + suppressed' = LineTotal(request.lines) - ValueTotal(rows)
              /\ DebtTotal(q) + DebtTotal(rows) <= 0
              /\ SettledOnAP(rows) => Referenced(q)
              /\ (Unspent(rows) /\ LineTotal(request.lines) >= 0)
                    => DebtFree(q) /\ suppressed' = 0
              /\ ~closed => OneWay(q) /\ suppressed' = 0
              /\ \A end : OnSchedule(end) /\ EndOf(request) = end => Ends(q, end)
              /\ (ValueTotal(rows) - DebtTotal(rows)) + (ValueTotal(q) - DebtTotal(q))
                    >= LineTotal(request.lines)
              /\ CompletedAs(new, q) /\ rows' = rows \o new
<1>1. /\ rows \in Seq(PaymentRequest) /\ ValueTotal(rows) \in Int
      /\ DebtTotal(rows) \in Int /\ DebtTotal(rows) <= 0
  BY TotalsType DEF RowsInv
<1>2. PICK requests \in Adjusted(request, rows) :
         /\ IF IsAgreementClosed(request.value)
            THEN /\ CompletePaymentRequests(SuppressARPaymentRequests(requests))
                 /\ suppressed' = ValueTotal(OnLedger(requests, "AR"))
            ELSE /\ CompletePaymentRequests(requests)
                 /\ suppressed' = 0
         /\ UNCHANGED waiting
  BY DEF CompleteAdjustment
<1>3. PICK keys : keys = KeysOf(request.lines, rows)
  OBVIOUS
<1>4. PICK free \in BOOLEAN : free = (Unspent(rows) /\ LineTotal(request.lines) >= 0)
  OBVIOUS
<1>5. /\ Fit(requests) /\ PartsOf(requests, request, keys)
      /\ ValueTotal(requests) = LineTotal(request.lines) - ValueTotal(rows)
      /\ DebtTotal(requests) + DebtTotal(rows) <= 0
      /\ SettledOnAP(rows) => Referenced(requests)
      /\ free => DebtFree(requests)
      /\ OneWay(requests)
      /\ \A end : OnSchedule(end) /\ EndOf(request) = end => Ends(requests, end)
  BY <1>3, <1>4, AdjustedFits
<1>6. /\ ValueTotal(requests) \in Int /\ DebtTotal(requests) \in Int
      /\ LineTotal(request.lines) \in Int
  BY <1>1, <1>5, TotalsType, RequestKeys DEF Fit
<1>7. PICK q : /\ Fit(q) /\ PartsOf(q, request, keys) /\ CompletePaymentRequests(q)
               /\ suppressed' \in Int
               /\ ValueTotal(q) + suppressed' = ValueTotal(requests)
               /\ DebtTotal(q) + DebtTotal(rows) <= 0
               /\ SettledOnAP(rows) => Referenced(q)
               /\ free => DebtFree(q) /\ suppressed' = 0
               /\ ~closed => OneWay(q) /\ suppressed' = 0
               /\ \A end : OnSchedule(end) /\ EndOf(request) = end => Ends(q, end)
               /\ (ValueTotal(rows) - DebtTotal(rows)) + (ValueTotal(q) - DebtTotal(q))
                     >= LineTotal(request.lines)
  <2>1. CASE IsAgreementClosed(request.value)
    <3>1. PICK p : p = SuppressARPaymentRequests(requests)
      OBVIOUS
    <3>2. /\ Fit(p) /\ PartsOf(p, request, keys)
          /\ ValueTotal(p) = ValueTotal(requests) - DebtTotal(requests)
          /\ DebtTotal(p) = 0 /\ DebtFree(p)
          /\ \A end : Ends(requests, end) => Ends(p, end)
      BY <1>5, <3>1, SuppressFits
    <3>3. CompletePaymentRequests(p) /\ suppressed' = DebtTotal(requests)
      BY <1>2, <2>1, <3>1 DEF DebtTotal
    <3>4. /\ ValueTotal(p) + suppressed' = ValueTotal(requests)
          /\ DebtTotal(p) + DebtTotal(rows) <= 0
      BY <1>1, <1>6, <3>2, <3>3
    <3>5. free => suppressed' = 0
      BY <1>5, <3>3, DebtFreeTotal DEF Fit
    <3>6. Referenced(p)
      BY <3>2 DEF Referenced, DebtFree
    <3>7. closed
      BY <2>1 DEF IsAgreementClosed
    <3>8. (ValueTotal(rows) - DebtTotal(rows)) + (ValueTotal(p) - DebtTotal(p))
             >= LineTotal(request.lines)
      BY <1>1, <1>5, <1>6, <3>2
    <3>9. QED
      BY <1>5, <1>6, <3>2, <3>3, <3>4, <3>5, <3>6, <3>7, <3>8
  <2>2. CASE ~IsAgreementClosed(request.value)
    <3>1. CompletePaymentRequests(requests) /\ suppressed' = 0
      BY <1>2, <2>2
    <3>2. ValueTotal(requests) + suppressed' = ValueTotal(requests) /\ suppressed' \in Int
      BY <1>6, <3>1
    <3>3. (ValueTotal(rows) - DebtTotal(rows)) + (ValueTotal(requests) - DebtTotal(requests))
             >= LineTotal(request.lines)
      BY <1>1, <1>5, <1>6
    <3>4. QED
      BY <1>5, <3>1, <3>2, <3>3
  <2>3. QED
    BY <2>1, <2>2
<1>8. PICK new : CompletedAs(new, q) /\ rows' = rows \o new
  BY <1>7, CompletionFits
<1>9. waiting' = waiting
  BY <1>2
<1>10. QED
  BY <1>3, <1>4, <1>5, <1>7, <1>8, <1>9

\* An adjustment that is completed at once keeps the invariant.
LEMMA CompleteAdjustmentKeeps ==
    ASSUME AdjustmentInv, waiting = {}, NEW request \in PaymentRequest,
           request.number <= NextNumber,
           claims' = Append(claims, LineTotal(request.lines)),
           CompleteAdjustment(request, rows),
           UNCHANGED <<scheme, instalments, closed, now>>
    PROVE  AdjustmentInv'
<1>1. /\ VariablesType /\ RowsInv /\ rows \in Seq(PaymentRequest)
      /\ claims \in Seq(Int) /\ Len(claims) \in Nat
      /\ ValueTotal(rows) \in Int /\ DebtTotal(rows) \in Int /\ DebtTotal(rows) <= 0
  BY TotalsType DEF AdjustmentInv, RowsInv, VariablesType
<1>2. PICK q, new :
         /\ Fit(q) /\ PartsOf(q, request, KeysOf(request.lines, rows))
         /\ suppressed' \in Int /\ waiting' = waiting
         /\ ValueTotal(q) + suppressed' = LineTotal(request.lines) - ValueTotal(rows)
         /\ DebtTotal(q) + DebtTotal(rows) <= 0
         /\ CompletedAs(new, q) /\ rows' = rows \o new
  BY <1>1, CompleteAdjustmentDoes
<1>3. /\ rows' \in Seq(PaymentRequest)
      /\ \A i \in DOMAIN rows' : Summed(rows'[i]) /\ SentRight(rows'[i])
      /\ \A i \in DOMAIN rows' :
            \/ i \in DOMAIN rows /\ rows'[i] = rows[i]
            \/ /\ rows'[i].number = request.number /\ rows'[i].settled = request.settled
               /\ DOMAIN rows'[i].lines \subseteq KeysOf(request.lines, rows)
      /\ ValueTotal(rows') = ValueTotal(rows) + ValueTotal(q)
      /\ DebtTotal(rows') = DebtTotal(rows) + DebtTotal(q)
  BY <1>1, <1>2, RowsGrow
<1>4. LineTotal(request.lines) \in Int
  BY <1>1, RequestKeys
<1>5. /\ claims' \in Seq(Int) /\ claims' # <<>>
      /\ Len(claims') = Len(claims) + 1
      /\ claims'[Len(claims')] = LineTotal(request.lines)
  BY <1>1, <1>4, ClaimAppended
<1>6. VariablesType'
  BY <1>1, <1>2, <1>5 DEF VariablesType
<1>7. NextNumber' = NextNumber + 1 /\ NextNumber \in Nat
  BY <1>1, <1>5 DEF NextNumber
<1>8. ValueTotal(q) \in Int /\ DebtTotal(q) \in Int
  BY <1>2, TotalsType DEF Fit
<1>9. RowsInv'
  <2>1. ASSUME NEW i \in DOMAIN rows'
        PROVE  rows'[i].number < NextNumber'
    <3>1. rows'[i].number \in Nat
      BY <1>3, ListType DEF PaymentRequest
    <3>2. CASE i \in DOMAIN rows /\ rows'[i] = rows[i]
      BY <1>1, <1>7, <3>1, <3>2 DEF RowsInv
    <3>3. CASE rows'[i].number = request.number
      BY <1>7, <3>1, <3>3
    <3>4. QED
      BY <1>3, <3>2, <3>3
  <2>2. DebtTotal(rows') <= 0
    BY <1>1, <1>2, <1>3, <1>8
  <2>3. QED
    BY <1>3, <2>1, <2>2 DEF RowsInv, Summed, SentRight, DebtTotal
<1>10. PaymentInv'
  <2>1. PICK a \in Int, c \in Int, d \in Int, s \in Int :
           /\ a = ValueTotal(q) /\ c = ValueTotal(rows) /\ d = LineTotal(request.lines)
           /\ s = suppressed'
    BY <1>1, <1>2, <1>4, <1>8
  <2>2. a + s = d - c
    BY <1>2, <2>1
  <2>3. (c + a) + s = d
    BY <2>2
  <2>4. ValueTotal(rows') = c + a
    BY <1>3, <2>1
  <2>5. ValueTotal(rows') + suppressed' = claims'[Len(claims')]
    BY <1>5, <2>1, <2>3, <2>4
  <2>6. QED
    BY <1>2, <2>5 DEF PaymentInv, LatestPaid
<1>11. QED
  BY <1>6, <1>9, <1>10 DEF AdjustmentInv

\* An adjustment that is sent to the editor.
LEMMA RouteKeeps ==
    ASSUME AdjustmentInv, waiting = {}, NEW request \in PaymentRequest,
           request.number <= NextNumber, request.settled = 0,
           \A i \in DOMAIN rows : rows[i].number < request.number,
           claims' = Append(claims, LineTotal(request.lines)),
           RouteManualLedgerToRequestEditor(request, rows),
           UNCHANGED <<scheme, instalments, closed, now>>
    PROVE  AdjustmentInv'
<1>1. /\ VariablesType /\ RowsInv /\ rows \in Seq(PaymentRequest)
      /\ claims \in Seq(Int) /\ Len(claims) \in Nat /\ ValueTotal(rows) \in Int
  BY TotalsType DEF AdjustmentInv, RowsInv, VariablesType
<1>2. PICK requests \in Adjusted(request, rows) :
         /\ waiting' = {[number |-> request.number, due |-> request.due,
                         requests |-> requests]}
         /\ UNCHANGED <<rows, suppressed>>
  BY DEF RouteManualLedgerToRequestEditor
<1>3. /\ Fit(requests) /\ PartsOf(requests, request, KeysOf(request.lines, rows))
      /\ ValueTotal(requests) = LineTotal(request.lines) - ValueTotal(rows)
      /\ DebtTotal(requests) + DebtTotal(rows) <= 0
  BY <1>1, AdjustedFits
<1>4. LineTotal(request.lines) \in Int /\ KeysOf(request.lines, rows) \subseteq Keys
  BY <1>1, RequestKeys
<1>5. /\ claims' \in Seq(Int) /\ claims' # <<>>
      /\ Len(claims') = Len(claims) + 1
      /\ claims'[Len(claims')] = LineTotal(request.lines)
  BY <1>1, <1>4, ClaimAppended
<1>6. VariablesType'
  BY <1>1, <1>2, <1>5 DEF VariablesType
<1>7. NextNumber' = NextNumber + 1 /\ NextNumber \in Nat
  BY <1>1, <1>5 DEF NextNumber
<1>8. RowsInv'
  <2>1. \A i \in DOMAIN rows : rows[i].number < NextNumber'
    <3>1. \A i \in DOMAIN rows : rows[i].number \in Nat
      BY <1>1, ListType DEF PaymentRequest
    <3>2. QED
      BY <1>1, <1>7, <3>1 DEF RowsInv
  <2>2. rows' = rows
    BY <1>2
  <2>3. QED
    BY <1>1, <2>1, <2>2 DEF RowsInv, Summed, SentRight, DebtTotal
<1>9. PICK w : w = [number |-> request.number, due |-> request.due, requests |-> requests]
  OBVIOUS
<1>10. w.number = request.number /\ w.due = request.due /\ w.requests = requests
  BY <1>9
<1>11. w.number \in Nat /\ w.due \in Nat
  BY <1>10 DEF PaymentRequest
<1>12. PartsOf(w.requests, [number |-> w.number, settled |-> 0], Keys)
  BY <1>3, <1>4, <1>10 DEF PartsOf
<1>13. ValueTotal(w.requests) + ValueTotal(rows) = claims'[Len(claims')]
  BY <1>1, <1>3, <1>4, <1>5, <1>10
<1>14. w.number < NextNumber'
  BY <1>7, <1>10, <1>11
<1>15. \A i \in DOMAIN rows : rows[i].number < w.number
  BY <1>10
<1>16. Waits(w)'
  <2>1. rows' = rows
    BY <1>2
  <2>2. QED
    BY <1>3, <1>5, <1>10, <1>11, <1>12, <1>13, <1>14, <1>15, <2>1 DEF Waits, DebtTotal
<1>17. waiting' = {w}
  BY <1>2, <1>9
<1>18. PaymentInv'
  BY <1>16, <1>17 DEF PaymentInv
<1>19. QED
  BY <1>6, <1>8, <1>18 DEF AdjustmentInv

\* An adjustment is compared with all rows.
LEMMA AdjustPaymentDoes ==
    ASSUME AdjustmentInv, NEW claim \in Claims, AdjustPayment(claim),
           ~reused'
    PROVE  /\ waiting = {} /\ UNCHANGED <<scheme, instalments, closed, now>>
           /\ DOMAIN rows # {}
           /\ \E r \in PaymentRequest :
                 /\ r.number <= NextNumber /\ r.settled = 0
                 /\ EndOf(r) = instalments /\ (scheme # "SFI23" => r.number # 0)
                 /\ \A i \in DOMAIN rows : rows[i].number < r.number
                 /\ r.lines \in ApplyDualAccounting(scheme, claim, rows)
                 /\ claims' = Append(claims, LineTotal(r.lines))
                 /\ \/ CompleteAdjustment(r, rows)
                    \/ RouteManualLedgerToRequestEditor(r, rows)
<1>1. VariablesType /\ rows \in Seq(PaymentRequest)
  BY DEF AdjustmentInv, RowsInv
<1>2. PICK n \in IncomingNumbers :
         LET number == ConfirmPaymentRequestNumber(n)
             previous == GetCompletedPaymentRequests(number)
         IN  /\ DOMAIN previous # {}
             /\ \E lines \in ApplyDualAccounting(scheme, claim, previous) :
                  /\ \/ CompleteAdjustment(NewRequest(number, lines), previous)
                     \/ RouteManualLedgerToRequestEditor(NewRequest(number, lines), previous)
                  /\ claims' = Append(claims, LineTotal(lines))
             /\ reused' = Reused(n)
  BY DEF AdjustPayment
<1>3. PICK number : number = ConfirmPaymentRequestNumber(n)
  OBVIOUS
<1>4. /\ number \in Nat /\ number <= NextNumber
      /\ \A i \in DOMAIN rows : rows[i].number < number
      /\ GetCompletedPaymentRequests(number) = rows
      /\ scheme # "SFI23" => number # 0
  BY <1>2, <1>3, IncomingType
<1>5. PICK lines \in ApplyDualAccounting(scheme, claim, rows) :
         /\ \/ CompleteAdjustment(NewRequest(number, lines), rows)
            \/ RouteManualLedgerToRequestEditor(NewRequest(number, lines), rows)
         /\ claims' = Append(claims, LineTotal(lines))
  BY <1>2, <1>3, <1>4
<1>6. lines \in Lines
  BY <1>1, DualAccountingType
<1>7. instalments \in Nat
  BY <1>1, AdjustmentAssumption DEF VariablesType, AdjustmentAssumption
<1>8. PICK r : r = NewRequest(number, lines)
  OBVIOUS
<1>9. /\ r \in PaymentRequest /\ r.number = number /\ r.settled = 0 /\ r.lines = lines
      /\ EndOf(r) = instalments
  BY <1>4, <1>6, <1>7, <1>8, NewRequestType
<1>10. waiting = {} /\ UNCHANGED <<scheme, instalments, closed, now>>
  BY DEF AdjustPayment
<1>11. \/ CompleteAdjustment(r, rows)
       \/ RouteManualLedgerToRequestEditor(r, rows)
  BY <1>5, <1>8
<1>12. DOMAIN rows # {}
  BY <1>2, <1>3, <1>4
<1>13. QED
  BY <1>12, <1>4, <1>5, <1>9, <1>10, <1>11

\* It keeps the invariant.
LEMMA AdjustPaymentKeeps ==
    ASSUME AdjustmentInv, NEW claim \in Claims, AdjustPayment(claim),
           ~reused'
    PROVE  AdjustmentInv'
  BY AdjustPaymentDoes, CompleteAdjustmentKeeps, RouteKeeps

\* The reply of the editor completes what waited for it.
LEMMA UpdateRequestsDoes ==
    ASSUME AdjustmentInv, UpdateRequestsAwaitingManualLedgerCheck
    PROVE  /\ waiting' = {} /\ suppressed' = 0
           /\ UNCHANGED <<scheme, instalments, claims, closed, now>>
           /\ \E w, q, new :
                 /\ waiting = {w} /\ Waits(w)
                 /\ Fit(q) /\ ValueTotal(q) = ValueTotal(w.requests)
                 /\ DebtTotal(q) = DebtTotal(w.requests)
                 /\ \A r, keys : PartsOf(w.requests, r, keys) => PartsOf(q, r, keys)
                 /\ SettledOnAP(rows) => Referenced(q)
                 /\ DebtFree(w.requests) => DebtFree(q)
                 /\ OneWay(w.requests) => OneWay(q)
                 /\ \A end : OnSchedule(end) /\ Ends(w.requests, end) => Ends(q, end)
                 /\ CompletedAs(new, q) /\ rows' = rows \o new
<1>1. rows \in Seq(PaymentRequest)
  BY DEF AdjustmentInv, RowsInv
<1>2. PICK w \in waiting :
         LET previous == GetCompletedPaymentRequests(w.number)
             reset == ResetDueDatesForSFI23(w.requests, previous, w.due)
             confirmed == ConfirmDueDates(scheme, reset, previous, now)
         IN  CompletePaymentRequests(EnrichPaymentRequests(confirmed, previous))
  BY DEF UpdateRequestsAwaitingManualLedgerCheck
<1>3. /\ waiting' = {} /\ suppressed' = 0
      /\ UNCHANGED <<scheme, instalments, claims, closed, now>>
  BY DEF UpdateRequestsAwaitingManualLedgerCheck
<1>4. waiting = {w} /\ Waits(w)
  BY DEF AdjustmentInv, PaymentInv
<1>5. GetCompletedPaymentRequests(w.number) = rows
  <2>1. {i \in DOMAIN rows : w.number = 0 \/ rows[i].number < w.number} = DOMAIN rows
    BY <1>4 DEF Waits
  <2>2. rows = [i \in DOMAIN rows |-> rows[i]]
    BY <1>1
  <2>3. QED
    BY <2>1, <2>2 DEF GetCompletedPaymentRequests, Restrict
<1>6. PICK given : given = w.requests
  OBVIOUS
<1>7. Fit(given) /\ w.due \in Nat
  BY <1>4, <1>6 DEF Waits
<1>8. PICK reset : reset = ResetDueDatesForSFI23(given, rows, w.due)
  OBVIOUS
<1>9. PICK confirmed : confirmed = ConfirmDueDates(scheme, reset, rows, now)
  OBVIOUS
<1>10. PICK q : q = EnrichPaymentRequests(confirmed, rows)
  OBVIOUS
<1>11. Alike(given, reset)
  BY <1>7, <1>8, ResetDueDatesAlike
<1>12. /\ Fit(reset) /\ \A r, keys : PartsOf(given, r, keys) => PartsOf(reset, r, keys)
       /\ ValueTotal(reset) = ValueTotal(given) /\ DebtTotal(reset) = DebtTotal(given)
       /\ DebtFree(given) => DebtFree(reset)
       /\ OneWay(given) => OneWay(reset)
  BY <1>7, <1>11, AlikeFits
<1>13. Alike(reset, confirmed)
  BY <1>1, <1>9, <1>12, ConfirmDueDatesAlike
<1>14. /\ Fit(confirmed) /\ \A r, keys : PartsOf(reset, r, keys) => PartsOf(confirmed, r, keys)
       /\ ValueTotal(confirmed) = ValueTotal(reset) /\ DebtTotal(confirmed) = DebtTotal(reset)
       /\ DebtFree(reset) => DebtFree(confirmed)
       /\ OneWay(reset) => OneWay(confirmed)
  BY <1>12, <1>13, AlikeFits
<1>15. /\ Alike(confirmed, q)
       /\ \A i \in DOMAIN confirmed : confirmed[i].ledger = "AR" =>
             q[i].settlementDate = GetOriginalSettlementDate(rows)
       /\ \A end : Ends(confirmed, end) => Ends(q, end)
  BY <1>1, <1>10, <1>14, EnrichAlike
<1>16. /\ Fit(q) /\ \A r, keys : PartsOf(confirmed, r, keys) => PartsOf(q, r, keys)
       /\ ValueTotal(q) = ValueTotal(confirmed) /\ DebtTotal(q) = DebtTotal(confirmed)
       /\ DebtFree(confirmed) => DebtFree(q)
       /\ OneWay(confirmed) => OneWay(q)
  BY <1>14, <1>15, AlikeFits
<1>17. SettledOnAP(rows) => Referenced(q)
  BY <1>1, <1>14, <1>15, EnrichedReferenced
<1>18. CompletePaymentRequests(q)
  BY <1>2, <1>5, <1>6, <1>8, <1>9, <1>10
<1>19. PICK new : CompletedAs(new, q) /\ rows' = rows \o new
  BY <1>16, <1>18, CompletionFits
<1>20. \A r, keys : PartsOf(given, r, keys) => PartsOf(q, r, keys)
  BY <1>12, <1>14, <1>16
<1>21. ASSUME NEW end, OnSchedule(end), Ends(given, end)
       PROVE  Ends(q, end)
  <2>1. reset = given
    BY <1>8, <1>21 DEF OnSchedule, ResetDueDatesForSFI23
  <2>2. Ends(confirmed, end)
    BY <1>1, <1>9, <1>12, <1>21, <2>1, ConfirmDueDatesEnd DEF OnSchedule
  <2>3. QED
    BY <1>15, <2>2
<1>22. QED
  BY <1>3, <1>4, <1>6, <1>12, <1>14, <1>16, <1>17, <1>19, <1>20, <1>21

\* It keeps the invariant.
LEMMA UpdateRequestsKeeps ==
    ASSUME AdjustmentInv, UpdateRequestsAwaitingManualLedgerCheck
    PROVE  AdjustmentInv'
<1>1. /\ VariablesType /\ RowsInv /\ rows \in Seq(PaymentRequest)
      /\ ValueTotal(rows) \in Int /\ DebtTotal(rows) \in Int
  BY TotalsType DEF AdjustmentInv, RowsInv
<1>2. /\ waiting' = {} /\ suppressed' = 0
      /\ UNCHANGED <<scheme, instalments, claims, closed, now>>
  BY UpdateRequestsDoes
<1>3. PICK w, q, new :
         /\ waiting = {w} /\ Waits(w)
         /\ Fit(q) /\ ValueTotal(q) = ValueTotal(w.requests)
         /\ DebtTotal(q) = DebtTotal(w.requests)
         /\ \A r, keys : PartsOf(w.requests, r, keys) => PartsOf(q, r, keys)
         /\ CompletedAs(new, q) /\ rows' = rows \o new
  BY UpdateRequestsDoes
<1>4. PICK r : r = [number |-> w.number, settled |-> 0]
  OBVIOUS
<1>5. PartsOf(q, r, Keys)
  BY <1>3, <1>4 DEF Waits
<1>6. /\ rows' \in Seq(PaymentRequest)
      /\ \A i \in DOMAIN rows' : Summed(rows'[i]) /\ SentRight(rows'[i])
      /\ \A i \in DOMAIN rows' :
            \/ i \in DOMAIN rows /\ rows'[i] = rows[i]
            \/ /\ rows'[i].number = r.number /\ rows'[i].settled = r.settled
               /\ DOMAIN rows'[i].lines \subseteq Keys
      /\ ValueTotal(rows') = ValueTotal(rows) + ValueTotal(q)
      /\ DebtTotal(rows') = DebtTotal(rows) + DebtTotal(q)
  BY <1>1, <1>3, <1>5, RowsGrow
<1>7. ValueTotal(q) \in Int /\ DebtTotal(q) \in Int
  BY <1>3, TotalsType DEF Fit
<1>8. VariablesType'
  BY <1>1, <1>2 DEF VariablesType
<1>9. NextNumber' = NextNumber /\ claims' = claims
  BY <1>2 DEF NextNumber
<1>10. RowsInv'
  <2>1. \A i \in DOMAIN rows' : rows'[i].number < NextNumber'
    BY <1>1, <1>3, <1>4, <1>6, <1>9 DEF RowsInv, Waits
  <2>2. DebtTotal(q) + DebtTotal(rows) <= 0
    BY <1>3 DEF Waits
  <2>3. DebtTotal(rows') <= 0
    BY <1>1, <1>6, <1>7, <2>2
  <2>4. QED
    BY <1>6, <2>1, <2>3 DEF RowsInv, Summed, SentRight, DebtTotal
<1>11. PaymentInv'
  <2>1. ValueTotal(q) + ValueTotal(rows) = claims[Len(claims)]
    BY <1>3 DEF Waits
  <2>2. ValueTotal(rows') + suppressed' = claims[Len(claims)]
    BY <1>1, <1>2, <1>6, <1>7, <2>1
  <2>3. QED
    BY <1>2, <1>9, <2>2 DEF PaymentInv, LatestPaid
<1>12. QED
  BY <1>8, <1>10, <1>11 DEF AdjustmentInv

\* Row i after a settlement.
Settled(r, v, date) == [r EXCEPT !.settled = v, !.settledOn = date]

\* It is worth what it was.
LEMMA SettledType ==
    ASSUME NEW r \in PaymentRequest, NEW v \in Int, NEW date \in Date
    PROVE  /\ Settled(r, v, date) \in PaymentRequest
           /\ Settled(r, v, date).number = r.number
           /\ Settled(r, v, date).ledger = r.ledger
           /\ Settled(r, v, date).value = r.value /\ Settled(r, v, date).lines = r.lines
           /\ Settled(r, v, date).sent = r.sent
           /\ Settled(r, v, date).original = r.original
           /\ EndOf(Settled(r, v, date)) = EndOf(r)
           /\ Settled(r, v, date).settlementDate = r.settlementDate
           /\ Settled(r, v, date).settled = v /\ Settled(r, v, date).settledOn = date
  BY DEF PaymentRequest, Settled, EndOf

\* A settlement leaves the money of all rows alone, and no row without a date.
LEMMA SettlementDoes ==
    ASSUME AdjustmentInv, NEW i \in DOMAIN rows, UpdateSettlementStatus(i)
    PROVE  /\ UNCHANGED <<scheme, instalments, claims, waiting, suppressed, closed, now>>
           /\ rows' \in Seq(PaymentRequest) /\ DOMAIN rows' = DOMAIN rows
           /\ \A j \in DOMAIN rows :
                 /\ rows'[j].number = rows[j].number /\ rows'[j].ledger = rows[j].ledger
                 /\ rows'[j].value = rows[j].value /\ rows'[j].lines = rows[j].lines
                 /\ rows'[j].sent = rows[j].sent /\ rows'[j].original = rows[j].original
                 /\ EndOf(rows'[j]) = EndOf(rows[j])
                 /\ rows'[j].settlementDate = rows[j].settlementDate
                 /\ \/ /\ rows'[j].settled = rows[j].settled
                       /\ rows'[j].settledOn = rows[j].settledOn
                    \/ rows'[j].settledOn # 0
           /\ ValueTotal(rows') = ValueTotal(rows) /\ DebtTotal(rows') = DebtTotal(rows)
<1>1. /\ VariablesType /\ rows \in Seq(PaymentRequest)
      /\ rows[i] \in PaymentRequest /\ rows[i].value \in Int /\ DOMAIN rows = 1..Len(rows)
  <2>1. VariablesType /\ rows \in Seq(PaymentRequest)
    BY DEF AdjustmentInv, RowsInv
  <2>2. rows[i] \in PaymentRequest /\ DOMAIN rows = 1..Len(rows)
    BY <2>1, ListType
  <2>3. QED
    BY <2>1, <2>2 DEF PaymentRequest
<1>2. PICK v \in Settlements(rows[i]) :
         rows' = [rows EXCEPT ![i].settled = v, ![i].settledOn = now + 1]
  BY DEF UpdateSettlementStatus
<1>3. v \in Int
  <2>1. PICK x \in Int : x = rows[i].value
    BY <1>1
  <2>2. v \in {x, Truncate(x, 2)}
    BY <1>2, <2>1 DEF Settlements
  <2>3. Truncate(x, 2) \in Int
    BY DEF Truncate
  <2>4. QED
    BY <2>2, <2>3
<1>4. now + 1 \in Date /\ now + 1 # 0
  BY <1>1, AdjustmentAssumption DEF VariablesType, Date, AdjustmentAssumption
<1>5. PICK all : all = rows'
  OBVIOUS
<1>6. all = [rows EXCEPT ![i] = Settled(rows[i], v, now + 1)]
  BY <1>2, <1>5 DEF Settled
<1>7. Settled(rows[i], v, now + 1) \in PaymentRequest
  BY <1>1, <1>3, <1>4, SettledType
<1>8. all \in Seq(PaymentRequest) /\ DOMAIN all = DOMAIN rows
  BY <1>1, <1>6, <1>7
<1>9. ASSUME NEW j \in DOMAIN rows
      PROVE  /\ all[j].number = rows[j].number /\ all[j].ledger = rows[j].ledger
             /\ all[j].value = rows[j].value /\ all[j].lines = rows[j].lines
             /\ all[j].sent = rows[j].sent /\ all[j].original = rows[j].original
             /\ EndOf(all[j]) = EndOf(rows[j])
             /\ all[j].settlementDate = rows[j].settlementDate
             /\ \/ all[j].settled = rows[j].settled /\ all[j].settledOn = rows[j].settledOn
                \/ all[j].settledOn # 0
  <2>1. CASE j = i
    BY <1>1, <1>3, <1>4, <1>6, <2>1, SettledType
  <2>2. CASE j # i
    BY <1>6, <2>2
  <2>3. QED
    BY <2>1, <2>2
<1>10. ValueTotal(all) = ValueTotal(rows) /\ DebtTotal(all) = DebtTotal(rows)
  <2>1. /\ ValueTotal(all) = SumOf(Values(all), DOMAIN rows)
        /\ DebtTotal(all) = SumOf(Debts(all), DOMAIN rows)
        /\ ValueTotal(rows) = SumOf(Values(rows), DOMAIN rows)
        /\ DebtTotal(rows) = SumOf(Debts(rows), DOMAIN rows)
    BY <1>1, <1>8, TotalsAreSums
  <2>2. \A j \in DOMAIN rows : Values(all)[j] = Values(rows)[j] /\ Debts(all)[j] = Debts(rows)[j]
    BY <1>8, <1>9 DEF Values, Debts
  <2>3. IsFiniteSet(DOMAIN rows)
    BY <1>1, ListType
  <2>4. /\ SumOf(Values(all), DOMAIN rows) = SumOf(Values(rows), DOMAIN rows)
        /\ SumOf(Debts(all), DOMAIN rows) = SumOf(Debts(rows), DOMAIN rows)
    BY <2>2, <2>3, SumSame
  <2>5. QED
    BY <2>1, <2>4
<1>11. UNCHANGED <<scheme, instalments, claims, waiting, suppressed, closed, now>>
  BY DEF UpdateSettlementStatus
<1>12. QED
  BY <1>5, <1>8, <1>9, <1>10, <1>11

\* It keeps the invariant.
LEMMA SettlementKeeps ==
    ASSUME AdjustmentInv, NEW i \in DOMAIN rows, UpdateSettlementStatus(i)
    PROVE  AdjustmentInv'
<1>1. VariablesType /\ RowsInv /\ rows \in Seq(PaymentRequest)
  BY DEF AdjustmentInv, RowsInv
<1>2. /\ UNCHANGED <<scheme, instalments, claims, waiting, suppressed, closed, now>>
      /\ rows' \in Seq(PaymentRequest) /\ DOMAIN rows' = DOMAIN rows
      /\ \A j \in DOMAIN rows :
            /\ rows'[j].number = rows[j].number /\ rows'[j].sent = rows[j].sent
            /\ rows'[j].value = rows[j].value /\ rows'[j].lines = rows[j].lines
      /\ ValueTotal(rows') = ValueTotal(rows) /\ DebtTotal(rows') = DebtTotal(rows)
  BY SettlementDoes
<1>3. VariablesType'
  BY <1>1, <1>2 DEF VariablesType
<1>4. NextNumber' = NextNumber
  BY <1>2 DEF NextNumber
<1>5. RowsInv'
  <2>1. \A j \in DOMAIN rows' : LineTotal(rows'[j].lines) = rows'[j].value
    BY <1>1, <1>2 DEF RowsInv, Summed
  <2>2. \A j \in DOMAIN rows' : rows'[j].sent <=> rows'[j].value # 0
    BY <1>1, <1>2 DEF RowsInv, SentRight
  <2>3. \A j \in DOMAIN rows' : rows'[j].number < NextNumber'
    BY <1>1, <1>2, <1>4 DEF RowsInv
  <2>4. DebtTotal(rows') <= 0
    BY <1>1, <1>2 DEF RowsInv
  <2>5. QED
    BY <1>2, <2>1, <2>2, <2>3, <2>4 DEF RowsInv, Summed, SentRight, DebtTotal
<1>6. PaymentInv'
  <2>1. CASE waiting = {} /\ LatestPaid
    BY <1>2, <2>1 DEF PaymentInv, LatestPaid
  <2>2. CASE \E w : waiting = {w} /\ Waits(w)
    <3>1. PICK w : waiting = {w} /\ Waits(w)
      BY <2>2
    <3>2. \A j \in DOMAIN rows' : rows'[j].number < w.number
      BY <1>2, <3>1 DEF Waits
    <3>3. Waits(w)'
      BY <1>2, <1>4, <3>1, <3>2 DEF Waits, DebtTotal
    <3>4. QED
      BY <1>2, <3>1, <3>3 DEF PaymentInv
  <2>3. QED
    BY <2>1, <2>2 DEF AdjustmentInv, PaymentInv
<1>7. QED
  BY <1>3, <1>5, <1>6 DEF AdjustmentInv

-----------------------------------------------------------------------------
(* The theorems.                                                           *)

\* Every step keeps the invariant.
LEMMA AdjustmentStep == AdjustmentInv /\ ~reused' /\ [Next]_vars => AdjustmentInv'
<1> SUFFICES ASSUME AdjustmentInv, ~reused', [Next]_vars
             PROVE  AdjustmentInv'
  OBVIOUS
<1> DEFINE Same == UNCHANGED <<scheme, instalments, claims, rows, waiting, suppressed>>
<1>1. CASE \E claim \in Claims : FirstPayment(claim)
  BY <1>1, FirstPaymentKeeps
<1>2. CASE \E claim \in Claims : AdjustPayment(claim)
  BY <1>2, AdjustPaymentKeeps
<1>3. CASE UpdateRequestsAwaitingManualLedgerCheck
  BY <1>3, UpdateRequestsKeeps
<1>4. CASE \E i \in DOMAIN rows : UpdateSettlementStatus(i)
  BY <1>4, SettlementKeeps
<1>5. ASSUME Same, closed' \in BOOLEAN, now' \in 0..LastDate
      PROVE  AdjustmentInv'
  <2>1. VariablesType'
    BY <1>5 DEF AdjustmentInv, VariablesType
  <2>2. NextNumber' = NextNumber
    BY <1>5 DEF NextNumber
  <2>3. RowsInv'
    BY <1>5, <2>2 DEF AdjustmentInv, RowsInv, Summed, SentRight, DebtTotal
  <2>4. PaymentInv'
    BY <1>5, <2>2 DEF AdjustmentInv, PaymentInv, LatestPaid, Waits, DebtTotal
  <2>5. QED
    BY <2>1, <2>3, <2>4 DEF AdjustmentInv
<1>6. now \in 0..LastDate /\ closed \in BOOLEAN /\ LastDate \in Nat
  BY AdjustmentAssumption DEF AdjustmentInv, VariablesType, AdjustmentAssumption
<1>7. CASE InstalmentDate
  <2>1. Same /\ closed' = closed /\ now' = now + 1 /\ now < LastDate
    BY <1>7 DEF InstalmentDate
  <2>2. now' \in 0..LastDate
    BY <1>6, <2>1
  <2>3. QED
    BY <1>5, <1>6, <2>1, <2>2
<1>8. CASE AddClosure
  BY <1>5, <1>6, <1>8 DEF AddClosure
<1>9. CASE UNCHANGED vars
  BY <1>5, <1>6, <1>9 DEF vars
<1>10. QED
  BY <1>1, <1>2, <1>3, <1>4, <1>7, <1>8, <1>9 DEF Next

\* What the invariant says of the properties.
LEMMA AdjustmentInvImplies ==
    ASSUME AdjustmentInv, reused \in BOOLEAN, scheme \notin {"BPS", "CS"} => ~reused
    PROVE  TypeOK /\ ClaimIsPaid /\ RowsSumTheirLines /\ SentUnlessZero /\ DebtNotOverpaid
<1>1. VariablesType /\ RowsInv /\ PaymentInv
  BY DEF AdjustmentInv
<1>2. /\ rows \in Seq(PaymentRequest) /\ NextNumber \in Nat /\ NextNumber <= Len(claims) + 1
      /\ Len(claims) \in Nat
  BY <1>1 DEF RowsInv, VariablesType, NextNumber
<1>3. ASSUME NEW i \in DOMAIN rows
      PROVE  /\ rows[i].ledger \in {"AP", "AR"}
             /\ rows[i].number \in 0..Len(claims)
             /\ rows[i].value \in Int /\ rows[i].settled \in Int
             /\ rows[i].settledOn \in Date /\ rows[i].settlementDate \in Date
             /\ rows[i].due \in Nat /\ rows[i].instalments \in Nat
             /\ rows[i].sent \in BOOLEAN /\ rows[i].original \in BOOLEAN
  <2>1. rows[i] \in PaymentRequest
    BY <1>2, ListType
  <2>2. rows[i].number < NextNumber /\ rows[i].number \in Nat
    BY <1>1, <2>1 DEF RowsInv, PaymentRequest
  <2>3. rows[i].number \in 0..Len(claims)
    BY <1>2, <2>2
  <2>4. QED
    BY <2>1, <2>3 DEF PaymentRequest
<1>4. waiting = {} \/ \E w \in waiting : waiting = {w} /\ w.number \in Nat
  BY <1>1 DEF PaymentInv, Waits
<1>5. TypeOK
  BY <1>1, <1>3, <1>4 DEF TypeOK, VariablesType
<1>6. ClaimIsPaid
  BY <1>1 DEF PaymentInv, LatestPaid, ClaimIsPaid, Completed
<1>7. RowsSumTheirLines
  BY <1>1 DEF RowsInv, Summed, RowsSumTheirLines
<1>8. SentUnlessZero
  BY <1>1 DEF RowsInv, SentRight, SentUnlessZero
<1>9. DebtNotOverpaid
  BY <1>1 DEF RowsInv, DebtTotal, DebtNotOverpaid
<1>10. QED
  BY <1>5, <1>6, <1>7, <1>8, <1>9

\* A number stays used.
LEMMA ReusedStays == reused /\ [Next]_vars => reused'
  BY DEF Next, vars, FirstPayment, AdjustPayment, Reused,
     UpdateRequestsAwaitingManualLedgerCheck, UpdateSettlementStatus,
     InstalmentDate, AddClosure

\* The invariant of the history of an agreement, up to the first request that
\* keeps a number that was used.
LEMMA AdjustmentInvariant == Spec => [](~reused => AdjustmentInv)
<1>1. QED
  BY AdjustmentInit, AdjustmentStep, ReusedStays, PTL DEF Spec

\* Only a BPS or CS request comes with such a number, and these pay no
\* instalments.
NumbersInv ==
    /\ reused \in BOOLEAN
    /\ scheme \notin {"BPS", "CS"} => ~reused
    /\ scheme \in {"BPS", "CS"} => instalments = 0

\* Other requests are numbered next.
LEMMA NumberedNext ==
    ASSUME AdjustmentInv, scheme \notin {"BPS", "CS"}, ~reused, NEW n \in IncomingNumbers
    PROVE  Reused(n) = FALSE
<1>1. /\ rows \in Seq(PaymentRequest) /\ NextNumber \in Nat
      /\ \A i \in DOMAIN rows : rows[i].number < NextNumber
  BY DEF AdjustmentInv, VariablesType, RowsInv, NextNumber
<1>2. \A i \in DOMAIN rows : rows[i].number \in Nat
  BY <1>1, ListType DEF PaymentRequest
<1>3. n = NextNumber
  BY DEF IncomingNumbers, NextNumber
<1>4. \A i \in DOMAIN rows : ~(rows[i].number >= NextNumber)
  BY <1>1, <1>2
<1>5. QED
  BY <1>3, <1>4 DEF Reused

\* Every step keeps it.
LEMMA NumbersStep ==
    (~reused => AdjustmentInv) /\ NumbersInv /\ [Next]_vars => NumbersInv'
<1> SUFFICES ASSUME ~reused => AdjustmentInv, NumbersInv, [Next]_vars
             PROVE  NumbersInv'
  OBVIOUS
<1>1. scheme' = scheme /\ instalments' = instalments
  BY DEF Next, vars, FirstPayment, AdjustPayment,
     UpdateRequestsAwaitingManualLedgerCheck, UpdateSettlementStatus,
     InstalmentDate, AddClosure
<1>2. CASE reused' = reused
  BY <1>1, <1>2 DEF NumbersInv
<1>3. CASE \E n \in IncomingNumbers : reused' = Reused(n)
  <2>1. PICK n \in IncomingNumbers : reused' = Reused(n)
    BY <1>3
  <2>2. Reused(n) \in BOOLEAN
    BY DEF NumbersInv, Reused
  <2>3. scheme \notin {"BPS", "CS"} => ~reused'
    BY <2>1, NumberedNext DEF NumbersInv
  <2>4. QED
    BY <1>1, <2>1, <2>2, <2>3 DEF NumbersInv
<1>4. QED
  BY <1>2, <1>3 DEF Next, vars, FirstPayment, AdjustPayment,
     UpdateRequestsAwaitingManualLedgerCheck, UpdateSettlementStatus,
     InstalmentDate, AddClosure

\* And so it always holds.
LEMMA NumbersInvariant == Spec => []NumbersInv
<1>1. Init => NumbersInv
  BY DEF Init, NumbersInv
<1>2. QED
  BY <1>1, NumbersStep, AdjustmentInvariant, PTL DEF Spec

\* Adjustment: until a request keeps a number that was used, every variable
\* keeps its type, numbers of requests stay within those that came in
\* and dates within the calendar, however many requests, instalments and
\* settlements there are.
THEOREM HistoryTyped == Spec => [](~reused => TypeOK)
<1>1. (~reused => AdjustmentInv) /\ NumbersInv => (~reused => TypeOK)
  BY AdjustmentInvImplies DEF NumbersInv
<1>2. QED
  BY <1>1, AdjustmentInvariant, NumbersInvariant, PTL

\* calculateDelta, allocateToLedgers, confirmPaymentRequestNumber: whatever was
\* claimed, split over ledgers, rounded, rekeyed with number 1 or sent to the
\* editor before, what was paid and taken back adds up to the latest claim, but
\* for what the closure of the agreement suppressed, as long as no request keeps
\* a number that was used.
THEOREM LatestClaimPaid == Spec => []ClaimIsPaid
<1>1. (~reused => AdjustmentInv) /\ NumbersInv => ClaimIsPaid
  BY AdjustmentInvImplies DEF NumbersInv, ClaimIsPaid
<1>2. QED
  BY <1>1, AdjustmentInvariant, NumbersInvariant, PTL

\* ensureValueConsistency, zeroValueSplit: the lines of every completed request
\* add up to its value, however its shares were rounded, until a request keeps
\* a number that was used.
THEOREM LinesAddUp == Spec => [](~reused => RowsSumTheirLines)
<1>1. (~reused => AdjustmentInv) /\ NumbersInv => (~reused => RowsSumTheirLines)
  BY AdjustmentInvImplies DEF NumbersInv
<1>2. QED
  BY <1>1, AdjustmentInvariant, NumbersInvariant, PTL

\* createOutboxEntry, checkSingleRequestOffsets: DAX is sent every request that
\* is worth something and none that is worth nothing, until a request keeps
\* a number that was used.
THEOREM ZeroNotSent == Spec => [](~reused => SentUnlessZero)
<1>1. (~reused => AdjustmentInv) /\ NumbersInv => (~reused => SentUnlessZero)
  BY AdjustmentInvImplies DEF NumbersInv
<1>2. QED
  BY <1>1, AdjustmentInvariant, NumbersInvariant, PTL

\* allocateToLedgers: of what is owed on the AR ledger top ups pay off at most
\* all, however long an allocation waited for its ledger check, as long as every
\* request is compared with all earlier ones.
THEOREM DebtPaidOffOnce == Spec => []DebtNotOverpaid
<1>1. (~reused => AdjustmentInv) /\ NumbersInv => DebtNotOverpaid
  BY AdjustmentInvImplies DEF NumbersInv, DebtNotOverpaid
<1>2. QED
  BY <1>1, AdjustmentInvariant, NumbersInvariant, PTL

-----------------------------------------------------------------------------
(* Debts, and what DAX has settled.                                        *)

\* No claim is negative, whatever penalties are among its lines.
ClaimsPay == \A c \in Claims : LineTotal(c) >= 0

\* As long as DAX has settled nothing on AP nothing is owed.
RowsDebt ==
    /\ \A i \in DOMAIN rows : rows[i].settledOn = 0 => rows[i].settled = 0
    /\ Referenced(rows)
    /\ SettledOnAP(rows) \/ (DebtFree(rows) /\ ValueTotal(rows) >= 0)

DebtInv ==
    /\ RowsDebt
    /\ claims # <<>> => claims[Len(claims)] >= 0
    /\ \A w \in waiting : SettledOnAP(rows) \/ DebtFree(w.requests)

\* New rows owe something only if DAX has settled something on AP.
LEMMA RowsDebtGrows ==
    ASSUME RowsInv, RowsDebt, NEW q, NEW new, CompletedAs(new, q), rows' = rows \o new,
           NEW r, NEW keys, PartsOf(q, r, keys), r.settled = 0,
           SettledOnAP(rows) => Referenced(q),
           ~SettledOnAP(rows) => DebtFree(q) /\ ValueTotal(rows) + ValueTotal(q) >= 0
    PROVE  RowsDebt' /\ (SettledOnAP(rows) => SettledOnAP(rows'))
<1>1. /\ rows' \in Seq(PaymentRequest)
      /\ \A i \in DOMAIN rows' :
            \/ i \in DOMAIN rows /\ rows'[i] = rows[i]
            \/ /\ rows'[i].number = r.number /\ rows'[i].settled = r.settled
               /\ DOMAIN rows'[i].lines \subseteq keys
      /\ \A i \in DOMAIN rows : i \in DOMAIN rows' /\ rows'[i] = rows[i]
      /\ ValueTotal(rows') = ValueTotal(rows) + ValueTotal(q)
      /\ Referenced(rows) /\ Referenced(q) => Referenced(rows')
      /\ DebtFree(rows) /\ DebtFree(q) => DebtFree(rows')
  BY RowsGrow
<1>2. \A i \in DOMAIN rows' : rows'[i].settledOn = 0 => rows'[i].settled = 0
  BY <1>1 DEF RowsDebt
<1>3. SettledOnAP(rows) => SettledOnAP(rows')
  BY <1>1 DEF SettledOnAP
<1>4. Referenced(rows')
  <2>1. DebtFree(q) => Referenced(q)
    BY DEF DebtFree, Referenced
  <2>2. QED
    BY <1>1, <2>1 DEF RowsDebt
<1>5. SettledOnAP(rows') \/ (DebtFree(rows') /\ ValueTotal(rows') >= 0)
  BY <1>1, <1>3 DEF RowsDebt
<1>6. RowsDebt'
  BY <1>2, <1>4, <1>5 DEF RowsDebt, Referenced, SettledOnAP, DebtFree
<1>7. QED
  BY <1>3, <1>6

\* Rows are unspent until DAX settles something on AP.
LEMMA RowsUnspent ==
    ASSUME RowsDebt, ~SettledOnAP(rows)
    PROVE  Unspent(rows)
  BY DEF RowsDebt, SettledOnAP, Unspent

\* The latest claim is not negative.
LEMMA LatestClaimPays ==
    ASSUME claims \in Seq(Int), rows \in Seq(PaymentRequest), ClaimsPay,
           NEW claim \in Claims, NEW lines \in ApplyDualAccounting(scheme, claim, rows),
           claims' = Append(claims, LineTotal(lines))
    PROVE  LineTotal(lines) >= 0 /\ claims' # <<>> /\ claims'[Len(claims')] >= 0
<1>1. LineTotal(lines) \in Int /\ LineTotal(lines) >= 0
  BY DualAccountingType, LineTotalType DEF ClaimsPay
<1>2. QED
  BY <1>1, ClaimAppended

\* First payments keep it.
LEMMA FirstPaymentDebt ==
    ASSUME AdjustmentInv, DebtInv, ClaimsPay, NEW claim \in Claims, FirstPayment(claim),
           ~reused'
    PROVE  DebtInv'
<1>1. /\ RowsInv /\ rows \in Seq(PaymentRequest) /\ claims \in Seq(Int) /\ RowsDebt
      /\ waiting = {} /\ waiting' = {} /\ ValueTotal(rows) \in Int
  BY TotalsType DEF FirstPayment, AdjustmentInv, RowsInv, VariablesType, DebtInv
<1>2. PICK r \in PaymentRequest : \E new :
         /\ DOMAIN rows = {} /\ Summed(r)
         /\ r.ledger = "AP" /\ r.settled = 0
         /\ r.lines \in ApplyDualAccounting(scheme, claim, rows)
         /\ claims' = Append(claims, LineTotal(r.lines))
         /\ CompletedAs(new, <<r>>) /\ rows' = rows \o new
  BY FirstPaymentDoes
<1>3. PICK new : CompletedAs(new, <<r>>) /\ rows' = rows \o new
  BY <1>2
<1>4. PICK q : q = <<r>>
  OBVIOUS
<1>5. PartsOf(q, r, DOMAIN r.lines) /\ ValueTotal(q) = r.value
  BY <1>2, <1>4, SingleFits
<1>6. DebtFree(q) /\ Referenced(q)
  BY <1>2, <1>4 DEF DebtFree, Referenced
<1>7. r.value \in Int /\ r.value >= 0 /\ claims'[Len(claims')] >= 0
  BY <1>1, <1>2, LatestClaimPays DEF Summed, PaymentRequest
<1>8. ~SettledOnAP(rows)
  BY <1>2 DEF SettledOnAP
<1>9. ValueTotal(rows) + ValueTotal(q) >= 0
  BY <1>1, <1>5, <1>7, <1>8 DEF RowsDebt
<1>10. RowsDebt'
  BY <1>1, <1>2, <1>3, <1>4, <1>5, <1>6, <1>8, <1>9, RowsDebtGrows
<1>11. QED
  BY <1>1, <1>7, <1>10 DEF DebtInv

\* Adjustments keep it.
LEMMA AdjustPaymentDebt ==
    ASSUME AdjustmentInv, DebtInv, ClaimsPay, NEW claim \in Claims, AdjustPayment(claim),
           ~reused'
    PROVE  DebtInv'
<1>1. /\ RowsInv /\ rows \in Seq(PaymentRequest) /\ claims \in Seq(Int) /\ RowsDebt
      /\ waiting = {} /\ ValueTotal(rows) \in Int
  BY TotalsType, AdjustPaymentDoes DEF AdjustmentInv, RowsInv, VariablesType, DebtInv
<1>2. PICK r \in PaymentRequest :
         /\ r.settled = 0
         /\ r.lines \in ApplyDualAccounting(scheme, claim, rows)
         /\ claims' = Append(claims, LineTotal(r.lines))
         /\ \/ CompleteAdjustment(r, rows)
            \/ RouteManualLedgerToRequestEditor(r, rows)
  BY AdjustPaymentDoes
<1>3. /\ LineTotal(r.lines) \in Int /\ LineTotal(r.lines) >= 0
      /\ claims'[Len(claims')] >= 0
  BY <1>1, <1>2, RequestKeys, LatestClaimPays
<1>4. CASE CompleteAdjustment(r, rows)
  <2>1. PICK q, new :
           /\ Fit(q) /\ PartsOf(q, r, KeysOf(r.lines, rows))
           /\ waiting' = waiting
           /\ ValueTotal(q) + suppressed' = LineTotal(r.lines) - ValueTotal(rows)
           /\ SettledOnAP(rows) => Referenced(q)
           /\ Unspent(rows) /\ LineTotal(r.lines) >= 0 => DebtFree(q) /\ suppressed' = 0
           /\ CompletedAs(new, q) /\ rows' = rows \o new
    BY <1>1, <1>4, CompleteAdjustmentDoes
  <2>2. ValueTotal(q) \in Int
    BY <2>1, TotalsType DEF Fit
  <2>3. ASSUME ~SettledOnAP(rows)
        PROVE  DebtFree(q) /\ ValueTotal(rows) + ValueTotal(q) >= 0
    <3>1. DebtFree(q) /\ suppressed' = 0
      BY <1>1, <1>3, <2>1, <2>3, RowsUnspent
    <3>2. ValueTotal(rows) + ValueTotal(q) = LineTotal(r.lines)
      BY <1>1, <1>3, <2>1, <2>2, <3>1
    <3>3. QED
      BY <1>3, <3>1, <3>2
  <2>4. RowsDebt'
    BY <1>1, <1>2, <2>1, <2>3, RowsDebtGrows
  <2>5. QED
    BY <1>1, <1>3, <2>1, <2>4 DEF DebtInv
<1>5. CASE RouteManualLedgerToRequestEditor(r, rows)
  <2>1. PICK requests \in Adjusted(r, rows) :
           /\ waiting' = {[number |-> r.number, due |-> r.due, requests |-> requests]}
           /\ rows' = rows
    BY <1>5 DEF RouteManualLedgerToRequestEditor
  <2>2. Unspent(rows) => DebtFree(requests)
    BY <1>1, <1>3, AdjustedFits
  <2>3. SettledOnAP(rows) \/ DebtFree(requests)
    BY <1>1, <2>2, RowsUnspent
  <2>4. \A w \in waiting' : w.requests = requests
    BY <2>1
  <2>5. RowsDebt'
    BY <1>1, <2>1 DEF RowsDebt, Referenced, SettledOnAP, DebtFree
  <2>6. \A w \in waiting' : SettledOnAP(rows') \/ DebtFree(w.requests)
    BY <2>1, <2>3, <2>4
  <2>7. QED
    BY <1>3, <2>5, <2>6 DEF DebtInv, SettledOnAP, DebtFree
<1>6. QED
  BY <1>2, <1>4, <1>5

\* Replies of the editor keep it.
LEMMA UpdateRequestsDebt ==
    ASSUME AdjustmentInv, DebtInv, UpdateRequestsAwaitingManualLedgerCheck
    PROVE  DebtInv'
<1>1. RowsInv /\ rows \in Seq(PaymentRequest) /\ RowsDebt /\ ValueTotal(rows) \in Int
  BY TotalsType DEF AdjustmentInv, RowsInv, DebtInv
<1>2. waiting' = {} /\ claims' = claims
  BY UpdateRequestsDoes
<1>3. PICK w, q, new :
         /\ waiting = {w} /\ Waits(w)
         /\ Fit(q) /\ ValueTotal(q) = ValueTotal(w.requests)
         /\ \A r, keys : PartsOf(w.requests, r, keys) => PartsOf(q, r, keys)
         /\ SettledOnAP(rows) => Referenced(q)
         /\ DebtFree(w.requests) => DebtFree(q)
         /\ CompletedAs(new, q) /\ rows' = rows \o new
  BY UpdateRequestsDoes
<1>4. PICK r : r = [number |-> w.number, settled |-> 0]
  OBVIOUS
<1>5. PartsOf(q, r, Keys) /\ r.settled = 0
  BY <1>3, <1>4 DEF Waits
<1>6. ~SettledOnAP(rows) => DebtFree(q)
  BY <1>3 DEF DebtInv
<1>7. ValueTotal(rows) + ValueTotal(q) >= 0
  <2>1. ValueTotal(q) + ValueTotal(rows) = claims[Len(claims)] /\ claims # <<>>
    BY <1>3 DEF Waits
  <2>2. ValueTotal(q) \in Int
    BY <1>3, TotalsType DEF Fit
  <2>3. QED
    BY <1>1, <2>1, <2>2 DEF DebtInv
<1>8. RowsDebt'
  BY <1>1, <1>3, <1>5, <1>6, <1>7, RowsDebtGrows
<1>9. QED
  BY <1>2, <1>8 DEF DebtInv

\* Settlements keep it.
LEMMA SettlementDebt ==
    ASSUME AdjustmentInv, DebtInv, NEW i \in DOMAIN rows, UpdateSettlementStatus(i)
    PROVE  DebtInv'
<1>1. RowsDebt
  BY DEF DebtInv
<1>2. /\ UNCHANGED <<scheme, instalments, claims, waiting, suppressed, closed, now>>
      /\ DOMAIN rows' = DOMAIN rows
      /\ \A j \in DOMAIN rows :
            /\ rows'[j].ledger = rows[j].ledger /\ rows'[j].value = rows[j].value
            /\ rows'[j].settlementDate = rows[j].settlementDate
            /\ \/ /\ rows'[j].settled = rows[j].settled
                  /\ rows'[j].settledOn = rows[j].settledOn
               \/ rows'[j].settledOn # 0
      /\ ValueTotal(rows') = ValueTotal(rows)
  BY SettlementDoes
<1>3. \A j \in DOMAIN rows' : rows'[j].settledOn = 0 => rows'[j].settled = 0
  BY <1>1, <1>2 DEF RowsDebt
<1>4. Referenced(rows')
  BY <1>1, <1>2 DEF RowsDebt, Referenced
<1>5. SettledOnAP(rows) => SettledOnAP(rows')
  BY <1>2 DEF SettledOnAP
<1>6. DebtFree(rows) => DebtFree(rows')
  BY <1>2 DEF DebtFree
<1>7. SettledOnAP(rows') \/ (DebtFree(rows') /\ ValueTotal(rows') >= 0)
  BY <1>1, <1>2, <1>5, <1>6 DEF RowsDebt
<1>8. RowsDebt'
  BY <1>3, <1>4, <1>7 DEF RowsDebt, Referenced, SettledOnAP, DebtFree
<1>9. \A w \in waiting' : SettledOnAP(rows') \/ DebtFree(w.requests)
  BY <1>2, <1>5 DEF DebtInv
<1>10. claims' # <<>> => claims'[Len(claims')] >= 0
  BY <1>2 DEF DebtInv
<1>11. QED
  BY <1>8, <1>9, <1>10 DEF DebtInv, SettledOnAP, DebtFree

\* Every step keeps it.
LEMMA DebtStep ==
    ASSUME ClaimsPay
    PROVE  AdjustmentInv /\ DebtInv /\ ~reused' /\ [Next]_vars => DebtInv'
<1> SUFFICES ASSUME AdjustmentInv, DebtInv, ~reused', [Next]_vars
             PROVE  DebtInv'
  OBVIOUS
<1>1. ASSUME UNCHANGED <<claims, rows, waiting>>
      PROVE  DebtInv'
  BY <1>1 DEF DebtInv, RowsDebt, Referenced, SettledOnAP, DebtFree
<1>2. CASE \E claim \in Claims : FirstPayment(claim)
  BY <1>2, FirstPaymentDebt
<1>3. CASE \E claim \in Claims : AdjustPayment(claim)
  BY <1>3, AdjustPaymentDebt
<1>4. CASE UpdateRequestsAwaitingManualLedgerCheck
  BY <1>4, UpdateRequestsDebt
<1>5. CASE \E i \in DOMAIN rows : UpdateSettlementStatus(i)
  BY <1>5, SettlementDebt
<1>6. CASE InstalmentDate \/ AddClosure \/ UNCHANGED vars
  BY <1>1, <1>6 DEF InstalmentDate, AddClosure, vars
<1>7. QED
  BY <1>2, <1>3, <1>4, <1>5, <1>6 DEF Next

\* No debt is raised before DAX has settled something.
LEMMA DebtInvariant ==
    ASSUME ClaimsPay
    PROVE  Spec => [](~reused => DebtInv)
<1>1. Init => DebtInv
  <2> SUFFICES ASSUME Init
               PROVE  DebtInv
    OBVIOUS
  <2>1. claims = <<>> /\ waiting = {} /\ rows = <<>> /\ DOMAIN rows = {}
    BY DEF Init
  <2>2. rows \in Seq(PaymentRequest)
    BY <2>1
  <2>3. ValueTotal(rows) = 0
    BY <2>1, <2>2, TotalsAreSums, SumEmpty
  <2>4. QED
    BY <2>1, <2>3 DEF DebtInv, RowsDebt, Referenced, DebtFree
<1>2. AdjustmentInv /\ DebtInv /\ ~reused' /\ [Next]_vars => DebtInv'
  BY DebtStep
<1>3. QED
  BY <1>1, <1>2, AdjustmentInvariant, ReusedStays, PTL DEF Spec

\* enrichPaymentRequests, getOutstandingLedgerValues: if no claim is negative, a
\* debt is never raised before DAX has settled something on AP, and so always
\* names the settlement it corrects: until then AP has yet to pay out all that
\* was claimed, and takes every reduction in full.  It is proved as long as every
\* request is compared with all earlier ones.
THEOREM DebtNamesSettlement ==
    ASSUME ClaimsPay
    PROVE  Spec => [](~reused => DebtFollowsSettlement)
<1>1. DebtInv => DebtFollowsSettlement
  BY DEF DebtInv, RowsDebt, Referenced, DebtFollowsSettlement
<1>2. QED
  BY <1>1, DebtInvariant, PTL

-----------------------------------------------------------------------------
(* One fund for all lines of a BPS agreement.                              *)

KeysIn(keys, fund) == \A k \in keys : k[2] = fund

OfFund(q, fund) == \A i \in DOMAIN q : KeysIn(DOMAIN q[i].lines, fund)

FundInv ==
    scheme = "BPS" =>
        \E fund \in Funds :
            OfFund(rows, fund) /\ \A w \in waiting : OfFund(w.requests, fund)

\* The keys of lines and rows of one fund.
LEMMA KeysOfFund ==
    ASSUME NEW fund, NEW lines, KeysIn(DOMAIN lines, fund), OfFund(rows, fund)
    PROVE  KeysIn(KeysOf(lines, rows), fund)
  BY DEF KeysIn, OfFund, KeysOf

\* Completed parts of requests of the fund of the rows.
LEMMA FundGrows ==
    ASSUME RowsInv, NEW q, NEW new, CompletedAs(new, q), rows' = rows \o new,
           NEW r, NEW keys, PartsOf(q, r, keys),
           NEW fund, OfFund(rows, fund), KeysIn(keys, fund)
    PROVE  OfFund(rows', fund)
<1>1. \A i \in DOMAIN rows' :
         \/ i \in DOMAIN rows /\ rows'[i] = rows[i]
         \/ /\ rows'[i].number = r.number /\ rows'[i].settled = r.settled
            /\ DOMAIN rows'[i].lines \subseteq keys
  BY RowsGrow
<1>2. QED
  BY <1>1 DEF OfFund, KeysIn

\* If a row has lines then so has one with the highest number of these.
LEMMA PreviousFundsFound ==
    ASSUME RowsInv, VariablesType, NEW i \in DOMAIN rows, DOMAIN rows[i].lines # {}
    PROVE  PreviousDomesticFunds(rows) # {}
<1> DEFINE withLines == {j \in DOMAIN rows : DOMAIN rows[j].lines # {}}
           numbers == {rows[j].number : j \in withLines}
<1>1. NextNumber \in Nat
  BY DEF VariablesType, NextNumber
<1>2. \A j \in DOMAIN rows : rows[j].number \in 0..NextNumber
  <2>1. \A j \in DOMAIN rows : rows[j].number \in Nat /\ rows[j].number < NextNumber
    BY ListType DEF RowsInv, PaymentRequest
  <2>2. QED
    BY <1>1, <2>1
<1>3. numbers \in SUBSET (0..NextNumber) /\ numbers # {}
  BY <1>2
<1>4. \A j \in withLines : rows[j].number \in numbers
  OBVIOUS
<1>5. PICK m : m = Max(numbers)
  OBVIOUS
<1>6. m \in numbers /\ \A n \in numbers : m >= n
  <2> HIDE DEF numbers
  <2>1. QED
    BY <1>1, <1>3, <1>5, MaxIsMember
<1>7. PICK j \in withLines : rows[j].number = m
  BY <1>6
<1>8. \A l \in withLines : rows[l].number <= rows[j].number
  <2>1. \A l \in withLines : rows[l].number \in Int
    BY <1>2
  <2>2. QED
    BY <1>4, <1>6, <1>7, <2>1
<1>9. PICK k \in DOMAIN rows[j].lines : TRUE
  BY <1>7
<1>10. k[2] \in PreviousDomesticFunds(rows)
  BY <1>7, <1>8, <1>9 DEF PreviousDomesticFunds
<1>11. QED
  BY <1>10

\* A BPS claim gets the fund code of the rows.
LEMMA FundOfClaim ==
    ASSUME RowsInv, VariablesType, scheme = "BPS", NEW g \in Funds, OfFund(rows, g),
           NEW claim \in Claims, NEW lines \in ApplyDualAccounting(scheme, claim, rows)
    PROVE  \E fund \in Funds : OfFund(rows, fund) /\ KeysIn(DOMAIN lines, fund)
<1>1. \A k \in DOMAIN lines : k[2] \in DomesticFunds(scheme, k[1], rows)
  BY DualAccountingType DEF RowsInv
<1>2. \A k \in DOMAIN lines : k[2] \in SelectDomesticFundCode(rows, "DOM00", "DOM01")
  BY <1>1 DEF DomesticFunds
<1>3. "DOM00" \in Funds /\ "DOM01" \in Funds
  BY DEF Funds
<1>4. CASE DOMAIN rows = {}
  <2>1. OfFund(rows, "DOM00")
    BY <1>4 DEF OfFund
  <2>2. KeysIn(DOMAIN lines, "DOM00")
    BY <1>2, <1>4 DEF SelectDomesticFundCode, KeysIn
  <2>3. QED
    BY <1>3, <2>1, <2>2
<1>5. CASE DOMAIN rows # {} /\ PreviousDomesticFunds(rows) = {}
  <2>1. OfFund(rows, "DOM01")
    BY <1>5, PreviousFundsFound DEF OfFund, KeysIn
  <2>2. KeysIn(DOMAIN lines, "DOM01")
    BY <1>2, <1>5 DEF SelectDomesticFundCode, KeysIn
  <2>3. QED
    BY <1>3, <2>1, <2>2
<1>6. CASE DOMAIN rows # {} /\ PreviousDomesticFunds(rows) # {}
  <2>1. PreviousDomesticFunds(rows) \subseteq {g}
    BY DEF PreviousDomesticFunds, OfFund, KeysIn
  <2>2. KeysIn(DOMAIN lines, g)
    BY <1>2, <1>6, <2>1 DEF SelectDomesticFundCode, KeysIn
  <2>3. QED
    BY <2>2
<1>7. QED
  BY <1>4, <1>5, <1>6

\* First payments choose the fund.
LEMMA FirstPaymentFund ==
    ASSUME AdjustmentInv, FundInv, NEW claim \in Claims, FirstPayment(claim),
           ~reused'
    PROVE  FundInv'
<1>1. /\ RowsInv /\ VariablesType /\ scheme' = scheme /\ waiting' = {}
  BY DEF AdjustmentInv, FirstPayment
<1>2. PICK r \in PaymentRequest : \E new :
         /\ DOMAIN rows = {} /\ Summed(r)
         /\ r.ledger = "AP" /\ r.settled = 0
         /\ r.lines \in ApplyDualAccounting(scheme, claim, rows)
         /\ CompletedAs(new, <<r>>) /\ rows' = rows \o new
  BY FirstPaymentDoes
<1>3. PICK new : CompletedAs(new, <<r>>) /\ rows' = rows \o new
  BY <1>2
<1>4. PICK q : q = <<r>>
  OBVIOUS
<1>5. PartsOf(q, r, DOMAIN r.lines)
  BY <1>2, <1>4, SingleFits
<1>6. ASSUME scheme = "BPS"
      PROVE  \E fund \in Funds : OfFund(rows', fund)
  <2>1. PICK fund \in Funds : OfFund(rows, fund) /\ KeysIn(DOMAIN r.lines, fund)
    BY <1>1, <1>2, <1>6, FundOfClaim DEF FundInv
  <2>2. OfFund(rows', fund)
    BY <1>1, <1>3, <1>4, <1>5, <2>1, FundGrows
  <2>3. QED
    BY <2>2
<1>7. QED
  BY <1>1, <1>6 DEF FundInv, OfFund, KeysIn

\* Adjustments follow it.
LEMMA AdjustPaymentFund ==
    ASSUME AdjustmentInv, FundInv, NEW claim \in Claims, AdjustPayment(claim),
           ~reused'
    PROVE  FundInv'
<1>1. RowsInv /\ VariablesType /\ waiting = {} /\ scheme' = scheme
  BY AdjustPaymentDoes DEF AdjustmentInv
<1>2. PICK r \in PaymentRequest :
         /\ r.lines \in ApplyDualAccounting(scheme, claim, rows)
         /\ \/ CompleteAdjustment(r, rows)
            \/ RouteManualLedgerToRequestEditor(r, rows)
  BY AdjustPaymentDoes
<1>3. ASSUME scheme = "BPS"
      PROVE  \E fund \in Funds :
                OfFund(rows', fund) /\ \A w \in waiting' : OfFund(w.requests, fund)
  <2>1. PICK fund \in Funds : OfFund(rows, fund) /\ KeysIn(DOMAIN r.lines, fund)
    BY <1>1, <1>2, <1>3, FundOfClaim DEF FundInv
  <2>2. KeysIn(KeysOf(r.lines, rows), fund)
    BY <2>1, KeysOfFund
  <2>3. CASE CompleteAdjustment(r, rows)
    <3>1. PICK q, new :
             /\ PartsOf(q, r, KeysOf(r.lines, rows)) /\ waiting' = waiting
             /\ CompletedAs(new, q) /\ rows' = rows \o new
      BY <1>1, <2>3, CompleteAdjustmentDoes
    <3>2. OfFund(rows', fund)
      BY <1>1, <2>1, <2>2, <3>1, FundGrows
    <3>3. QED
      BY <1>1, <3>1, <3>2
  <2>4. CASE RouteManualLedgerToRequestEditor(r, rows)
    <3>1. PICK requests \in Adjusted(r, rows) :
             /\ waiting' = {[number |-> r.number, due |-> r.due, requests |-> requests]}
             /\ rows' = rows
      BY <2>4 DEF RouteManualLedgerToRequestEditor
    <3>2. PartsOf(requests, r, KeysOf(r.lines, rows))
      BY <1>1, AdjustedFits
    <3>3. OfFund(requests, fund)
      BY <2>2, <3>2 DEF PartsOf, OfFund, KeysIn
    <3>4. \A w \in waiting' : w.requests = requests
      BY <3>1
    <3>5. QED
      BY <2>1, <3>1, <3>3, <3>4
  <2>5. QED
    BY <1>2, <2>3, <2>4
<1>4. QED
  BY <1>1, <1>3 DEF FundInv, OfFund, KeysIn

\* Replies of the editor keep it.
LEMMA UpdateRequestsFund ==
    ASSUME AdjustmentInv, FundInv, UpdateRequestsAwaitingManualLedgerCheck
    PROVE  FundInv'
<1>1. RowsInv
  BY DEF AdjustmentInv
<1>2. waiting' = {} /\ scheme' = scheme
  BY UpdateRequestsDoes
<1>3. PICK w, q, new :
         /\ waiting = {w} /\ Waits(w)
         /\ \A r, keys : PartsOf(w.requests, r, keys) => PartsOf(q, r, keys)
         /\ CompletedAs(new, q) /\ rows' = rows \o new
  BY UpdateRequestsDoes
<1>4. PICK r : r = [number |-> w.number, settled |-> 0]
  OBVIOUS
<1>5. ASSUME scheme = "BPS"
      PROVE  \E fund \in Funds : OfFund(rows', fund)
  <2>1. PICK fund \in Funds : OfFund(rows, fund) /\ OfFund(w.requests, fund)
    BY <1>3, <1>5 DEF FundInv
  <2>2. PICK keys : keys = {k \in Keys : k[2] = fund}
    OBVIOUS
  <2>3. KeysIn(keys, fund)
    BY <2>2 DEF KeysIn
  <2>4. PartsOf(w.requests, r, keys)
    BY <1>3, <1>4, <2>1, <2>2 DEF Waits, PartsOf, OfFund, KeysIn
  <2>5. PartsOf(q, r, keys)
    BY <1>3, <2>4
  <2>6. OfFund(rows', fund)
    BY <1>1, <1>3, <2>1, <2>3, <2>5, FundGrows
  <2>7. QED
    BY <2>6
<1>6. QED
  BY <1>2, <1>5 DEF FundInv, OfFund, KeysIn

\* Settlements keep it.
LEMMA SettlementFund ==
    ASSUME AdjustmentInv, FundInv, NEW i \in DOMAIN rows, UpdateSettlementStatus(i)
    PROVE  FundInv'
<1>1. /\ UNCHANGED <<scheme, instalments, claims, waiting, suppressed, closed, now>>
      /\ DOMAIN rows' = DOMAIN rows
      /\ \A j \in DOMAIN rows : rows'[j].lines = rows[j].lines
  BY SettlementDoes
<1>2. ASSUME NEW fund \in Funds, OfFund(rows, fund)
      PROVE  OfFund(rows', fund)
  BY <1>1, <1>2 DEF OfFund
<1>3. QED
  BY <1>1, <1>2 DEF FundInv, OfFund, KeysIn

\* Every step keeps it.
LEMMA FundStep == AdjustmentInv /\ FundInv /\ ~reused' /\ [Next]_vars => FundInv'
<1> SUFFICES ASSUME AdjustmentInv, FundInv, ~reused', [Next]_vars
             PROVE  FundInv'
  OBVIOUS
<1>1. ASSUME UNCHANGED <<scheme, rows, waiting>>
      PROVE  FundInv'
  BY <1>1 DEF FundInv, OfFund, KeysIn
<1>2. CASE \E claim \in Claims : FirstPayment(claim)
  BY <1>2, FirstPaymentFund
<1>3. CASE \E claim \in Claims : AdjustPayment(claim)
  BY <1>3, AdjustPaymentFund
<1>4. CASE UpdateRequestsAwaitingManualLedgerCheck
  BY <1>4, UpdateRequestsFund
<1>5. CASE \E i \in DOMAIN rows : UpdateSettlementStatus(i)
  BY <1>5, SettlementFund
<1>6. CASE InstalmentDate \/ AddClosure \/ UNCHANGED vars
  BY <1>1, <1>6 DEF InstalmentDate, AddClosure, vars
<1>7. QED
  BY <1>2, <1>3, <1>4, <1>5, <1>6 DEF Next

\* applyDualAccounting, selectDomesticFundCode: all lines of a BPS agreement are
\* paid from one fund, the one its latest request with lines was paid from; again
\* as long as every request is compared with all earlier ones.
THEOREM OneFund == Spec => [](~reused => OneDomesticFund)
<1>1. Init => FundInv
  <2> SUFFICES ASSUME Init
               PROVE  FundInv
    OBVIOUS
  <2>1. waiting = {} /\ DOMAIN rows = {} /\ "DOM00" \in Funds
    BY DEF Init, Funds
  <2>2. QED
    BY <2>1 DEF FundInv, OfFund
<1>2. AdjustmentInv /\ FundInv /\ ~reused' /\ [Next]_vars => FundInv'
  BY FundStep
<1>3. FundInv => OneDomesticFund
  BY DEF FundInv, OfFund, KeysIn, OneDomesticFund
<1>4. QED
  BY <1>1, <1>2, <1>3, AdjustmentInvariant, ReusedStays, PTL DEF Spec

-----------------------------------------------------------------------------
(* Schedules that end together.                                            *)

\* All rows end with the instalments of the agreement, and AP pays something.
RowsOnSchedule ==
    scheme # "SFI23" =>
        /\ Ends(rows, instalments) /\ Advances(rows) = {}
        /\ ValueTotal(rows) - DebtTotal(rows) >= 0

SchedulesInv ==
    /\ RowsOnSchedule
    /\ scheme # "SFI23" =>
         \A w \in waiting : w.number # 0 /\ Ends(w.requests, instalments)

\* What is completed on schedule leaves the rows on schedule.
LEMMA SchedulesGrow ==
    ASSUME RowsInv, RowsOnSchedule, UNCHANGED <<scheme, instalments>>,
           NEW q, Fit(q), NEW new, CompletedAs(new, q), rows' = rows \o new,
           NEW r, NEW keys, PartsOf(q, r, keys),
           scheme # "SFI23" =>
              /\ r.number # 0 /\ Ends(q, instalments)
              /\ (ValueTotal(rows) - DebtTotal(rows)) + (ValueTotal(q) - DebtTotal(q)) >= 0
    PROVE  RowsOnSchedule'
<1> SUFFICES ASSUME scheme # "SFI23"
             PROVE  /\ Ends(rows', instalments) /\ Advances(rows') = {}
                    /\ ValueTotal(rows') - DebtTotal(rows') >= 0
  BY DEF RowsOnSchedule, Ends, EndOf, Advances, Numbered, DebtTotal
<1>1. /\ \A i \in DOMAIN rows' :
            \/ i \in DOMAIN rows /\ rows'[i] = rows[i]
            \/ /\ rows'[i].number = r.number /\ rows'[i].settled = r.settled
               /\ DOMAIN rows'[i].lines \subseteq keys
      /\ ValueTotal(rows') = ValueTotal(rows) + ValueTotal(q)
      /\ DebtTotal(rows') = DebtTotal(rows) + DebtTotal(q)
      /\ \A end : Ends(rows, end) /\ Ends(q, end) => Ends(rows', end)
  BY RowsGrow
<1>2. Ends(rows', instalments)
  BY <1>1 DEF RowsOnSchedule
<1>3. Advances(rows') = {}
  BY <1>1 DEF RowsOnSchedule, Advances, Numbered
<1>4. /\ ValueTotal(q) \in Int /\ DebtTotal(q) \in Int
      /\ ValueTotal(rows) \in Int /\ DebtTotal(rows) \in Int
  BY TotalsType DEF Fit, RowsInv
<1>5. ValueTotal(rows') - DebtTotal(rows') >= 0
  BY <1>1, <1>4
<1>6. QED
  BY <1>2, <1>3, <1>5

\* A first payment has the schedule that is asked for.
LEMMA FirstPaymentSchedule ==
    ASSUME AdjustmentInv, SchedulesInv, ClaimsPay, NEW claim \in Claims, FirstPayment(claim),
           ~reused'
    PROVE  SchedulesInv'
<1>1. /\ RowsInv /\ rows \in Seq(PaymentRequest) /\ claims \in Seq(Int) /\ RowsOnSchedule
      /\ waiting' = {} /\ UNCHANGED <<scheme, instalments>>
  BY DEF FirstPayment, AdjustmentInv, RowsInv, VariablesType, SchedulesInv
<1>2. PICK r \in PaymentRequest : \E new :
         /\ DOMAIN rows = {} /\ Summed(r) /\ r.ledger = "AP"
         /\ EndOf(r) = instalments /\ (scheme # "SFI23" => r.number # 0)
         /\ r.lines \in ApplyDualAccounting(scheme, claim, rows)
         /\ claims' = Append(claims, LineTotal(r.lines))
         /\ CompletedAs(new, <<r>>) /\ rows' = rows \o new
  BY FirstPaymentDoes
<1>3. PICK q : q = <<r>>
  OBVIOUS
<1>4. PICK new : CompletedAs(new, q) /\ rows' = rows \o new
  BY <1>2, <1>3
<1>5. /\ Fit(q) /\ PartsOf(q, r, DOMAIN r.lines) /\ Ends(q, instalments)
      /\ ValueTotal(q) = r.value /\ DebtTotal(q) = 0
  BY <1>2, <1>3, SingleFits
<1>6. r.value \in Int /\ r.value >= 0
  BY <1>1, <1>2, LatestClaimPays DEF Summed, PaymentRequest
<1>7. ValueTotal(rows) = 0 /\ DebtTotal(rows) = 0
  <2>1. /\ ValueTotal(rows) = SumOf(Values(rows), DOMAIN rows)
        /\ DebtTotal(rows) = SumOf(Debts(rows), DOMAIN rows)
    BY <1>1, TotalsAreSums
  <2>2. QED
    BY <1>2, <2>1, SumEmpty
<1>8. (ValueTotal(rows) - DebtTotal(rows)) + (ValueTotal(q) - DebtTotal(q)) >= 0
  BY <1>5, <1>6, <1>7
<1>9. RowsOnSchedule'
  BY <1>1, <1>2, <1>4, <1>5, <1>8, SchedulesGrow
<1>10. QED
  BY <1>1, <1>9 DEF SchedulesInv

\* Adjustments end with what they adjust, completed or sent to the editor.
LEMMA AdjustPaymentSchedule ==
    ASSUME AdjustmentInv, SchedulesInv, ClaimsPay, NEW claim \in Claims, AdjustPayment(claim),
           ~reused'
    PROVE  SchedulesInv'
<1>1. /\ RowsInv /\ rows \in Seq(PaymentRequest) /\ claims \in Seq(Int) /\ RowsOnSchedule
      /\ waiting = {} /\ UNCHANGED <<scheme, instalments>> /\ now \in Nat
      /\ ValueTotal(rows) \in Int /\ DebtTotal(rows) \in Int
  BY TotalsType, AdjustPaymentDoes, AdjustmentAssumption
  DEF AdjustmentInv, RowsInv, VariablesType, SchedulesInv, AdjustmentAssumption
<1>2. PICK r \in PaymentRequest :
         /\ EndOf(r) = instalments /\ (scheme # "SFI23" => r.number # 0)
         /\ r.lines \in ApplyDualAccounting(scheme, claim, rows)
         /\ claims' = Append(claims, LineTotal(r.lines))
         /\ \/ CompleteAdjustment(r, rows)
            \/ RouteManualLedgerToRequestEditor(r, rows)
  BY AdjustPaymentDoes
<1>3. LineTotal(r.lines) \in Int /\ LineTotal(r.lines) >= 0
  BY <1>1, <1>2, RequestKeys, LatestClaimPays
<1>4. scheme # "SFI23" => OnSchedule(instalments)
  BY <1>1 DEF RowsOnSchedule, OnSchedule
<1>5. CASE CompleteAdjustment(r, rows)
  <2>1. PICK q, new :
           /\ Fit(q) /\ PartsOf(q, r, KeysOf(r.lines, rows)) /\ waiting' = waiting
           /\ \A end : OnSchedule(end) /\ EndOf(r) = end => Ends(q, end)
           /\ (ValueTotal(rows) - DebtTotal(rows)) + (ValueTotal(q) - DebtTotal(q))
                 >= LineTotal(r.lines)
           /\ CompletedAs(new, q) /\ rows' = rows \o new
    BY <1>1, <1>5, CompleteAdjustmentDoes
  <2>2. ValueTotal(q) \in Int /\ DebtTotal(q) \in Int
    BY <2>1, TotalsType DEF Fit
  <2>3. (ValueTotal(rows) - DebtTotal(rows)) + (ValueTotal(q) - DebtTotal(q)) >= 0
    BY <1>1, <1>3, <2>1, <2>2
  <2>4. scheme # "SFI23" => Ends(q, instalments)
    BY <1>2, <1>4, <2>1
  <2>5. RowsOnSchedule'
    BY <1>1, <1>2, <2>1, <2>3, <2>4, SchedulesGrow
  <2>6. QED
    BY <1>1, <2>1, <2>5 DEF SchedulesInv
<1>6. CASE RouteManualLedgerToRequestEditor(r, rows)
  <2>1. PICK requests \in Adjusted(r, rows) :
           /\ waiting' = {[number |-> r.number, due |-> r.due, requests |-> requests]}
           /\ rows' = rows
    BY <1>6 DEF RouteManualLedgerToRequestEditor
  <2>2. scheme # "SFI23" => Ends(requests, instalments)
    BY <1>1, <1>2, <1>4, AdjustedFits
  <2>3. \A w \in waiting' : w.requests = requests /\ w.number = r.number
    BY <2>1
  <2>4. scheme # "SFI23" => \A w \in waiting' : w.number # 0 /\ Ends(w.requests, instalments)
    BY <1>2, <2>2, <2>3
  <2>5. RowsOnSchedule'
    BY <1>1, <2>1 DEF RowsOnSchedule, Ends, EndOf, Advances, Numbered, DebtTotal
  <2>6. QED
    BY <1>1, <2>4, <2>5 DEF SchedulesInv, Ends, EndOf
<1>7. QED
  BY <1>2, <1>5, <1>6

\* Replies of the editor end with it too, however many instalments went by.
LEMMA UpdateRequestsSchedule ==
    ASSUME AdjustmentInv, SchedulesInv, DebtInv, UpdateRequestsAwaitingManualLedgerCheck
    PROVE  SchedulesInv'
<1>1. /\ RowsInv /\ rows \in Seq(PaymentRequest) /\ RowsOnSchedule /\ now \in Nat
      /\ ValueTotal(rows) \in Int /\ DebtTotal(rows) \in Int
  BY TotalsType, AdjustmentAssumption
  DEF AdjustmentInv, RowsInv, VariablesType, SchedulesInv, AdjustmentAssumption
<1>2. waiting' = {} /\ UNCHANGED <<scheme, instalments>>
  BY UpdateRequestsDoes
<1>3. PICK w, q, new :
         /\ waiting = {w} /\ Waits(w)
         /\ Fit(q) /\ ValueTotal(q) = ValueTotal(w.requests)
         /\ DebtTotal(q) = DebtTotal(w.requests)
         /\ \A r, keys : PartsOf(w.requests, r, keys) => PartsOf(q, r, keys)
         /\ \A end : OnSchedule(end) /\ Ends(w.requests, end) => Ends(q, end)
         /\ CompletedAs(new, q) /\ rows' = rows \o new
  BY UpdateRequestsDoes
<1>4. PICK r : r = [number |-> w.number, settled |-> 0]
  OBVIOUS
<1>5. PartsOf(q, r, Keys) /\ r.number = w.number
  BY <1>3, <1>4 DEF Waits
<1>6. scheme # "SFI23" => OnSchedule(instalments)
  BY <1>1 DEF RowsOnSchedule, OnSchedule
<1>7. scheme # "SFI23" => r.number # 0 /\ Ends(q, instalments)
  BY <1>3, <1>5, <1>6 DEF SchedulesInv
<1>8. (ValueTotal(rows) - DebtTotal(rows)) + (ValueTotal(q) - DebtTotal(q)) >= 0
  <2>1. /\ ValueTotal(q) + ValueTotal(rows) = claims[Len(claims)]
        /\ DebtTotal(q) + DebtTotal(rows) <= 0 /\ claims # <<>>
    BY <1>3 DEF Waits
  <2>2. ValueTotal(q) \in Int /\ DebtTotal(q) \in Int
    BY <1>3, TotalsType DEF Fit
  <2>3. ValueTotal(q) + ValueTotal(rows) >= 0
    BY <2>1 DEF DebtInv
  <2>4. QED
    BY <1>1, <2>1, <2>2, <2>3
<1>9. RowsOnSchedule'
  BY <1>1, <1>2, <1>3, <1>5, <1>7, <1>8, SchedulesGrow
<1>10. QED
  BY <1>2, <1>9 DEF SchedulesInv

\* Settlements move no dates.
LEMMA SettlementSchedule ==
    ASSUME AdjustmentInv, SchedulesInv, NEW i \in DOMAIN rows, UpdateSettlementStatus(i)
    PROVE  SchedulesInv'
<1>1. /\ UNCHANGED <<scheme, instalments, claims, waiting, suppressed, closed, now>>
      /\ DOMAIN rows' = DOMAIN rows
      /\ \A j \in DOMAIN rows : /\ rows'[j].number = rows[j].number
                                /\ EndOf(rows'[j]) = EndOf(rows[j])
      /\ ValueTotal(rows') = ValueTotal(rows) /\ DebtTotal(rows') = DebtTotal(rows)
  BY SettlementDoes
<1>2. /\ Ends(rows, instalments) => Ends(rows', instalments)
      /\ Advances(rows) = {} => Advances(rows') = {}
  BY <1>1 DEF Ends, Advances, Numbered
<1>3. scheme # "SFI23" =>
         /\ Ends(rows', instalments) /\ Advances(rows') = {}
         /\ ValueTotal(rows') - DebtTotal(rows') >= 0
  BY <1>1, <1>2 DEF SchedulesInv, RowsOnSchedule
<1>4. RowsOnSchedule'
  BY <1>1, <1>3 DEF RowsOnSchedule, Ends, EndOf, Advances, Numbered, DebtTotal
<1>5. QED
  BY <1>1, <1>4 DEF SchedulesInv, Ends, EndOf

\* Every step keeps it.
LEMMA SchedulesStep ==
    ASSUME ClaimsPay
    PROVE  AdjustmentInv /\ DebtInv /\ SchedulesInv /\ ~reused' /\ [Next]_vars
              => SchedulesInv'
<1> SUFFICES ASSUME AdjustmentInv, DebtInv, SchedulesInv, ~reused', [Next]_vars
             PROVE  SchedulesInv'
  OBVIOUS
<1>1. ASSUME UNCHANGED <<scheme, instalments, rows, waiting>>
      PROVE  SchedulesInv'
  BY <1>1 DEF SchedulesInv, RowsOnSchedule, Ends, EndOf, Advances, Numbered, DebtTotal
<1>2. CASE \E claim \in Claims : FirstPayment(claim)
  BY <1>2, FirstPaymentSchedule
<1>3. CASE \E claim \in Claims : AdjustPayment(claim)
  BY <1>3, AdjustPaymentSchedule
<1>4. CASE UpdateRequestsAwaitingManualLedgerCheck
  BY <1>4, UpdateRequestsSchedule
<1>5. CASE \E i \in DOMAIN rows : UpdateSettlementStatus(i)
  BY <1>5, SettlementSchedule
<1>6. CASE InstalmentDate \/ AddClosure \/ UNCHANGED vars
  BY <1>1, <1>6 DEF InstalmentDate, AddClosure, vars
<1>7. QED
  BY <1>2, <1>3, <1>4, <1>5, <1>6 DEF Next

\* confirmDueDates, getOutstandingSchedule: if no claim is negative, a downward
\* adjustment is spread over instalments that end with those of the agreement,
\* whatever was settled by then and however long the editor kept it: what AP pays
\* in all is never negative, so that of the instalments the last ones are left.
THEOREM AdjustmentsEndWithSchedule ==
    ASSUME ClaimsPay
    PROVE  Spec => []EndsWithSchedule
<1>1. Init => SchedulesInv
  <2> SUFFICES ASSUME Init
               PROVE  SchedulesInv
    OBVIOUS
  <2>1. waiting = {} /\ rows = <<>> /\ DOMAIN rows = {} /\ rows \in Seq(PaymentRequest)
    BY DEF Init
  <2>2. ValueTotal(rows) = 0 /\ DebtTotal(rows) = 0
    BY <2>1, TotalsAreSums, SumEmpty
  <2>3. QED
    BY <2>1, <2>2 DEF SchedulesInv, RowsOnSchedule, Ends, Advances, Numbered
<1>2. AdjustmentInv /\ DebtInv /\ SchedulesInv /\ ~reused' /\ [Next]_vars
              => SchedulesInv'
  BY SchedulesStep
<1>3. (~reused => SchedulesInv) /\ NumbersInv /\ (~reused => AdjustmentInv)
         => EndsWithSchedule
  <2> SUFFICES ASSUME ~reused => SchedulesInv, NumbersInv, instalments # 0, scheme # "SFI23",
                      NEW i \in DOMAIN rows
               PROVE  EndOf(rows[i]) = instalments
    BY DEF EndsWithSchedule
  <2>1. ~reused
    BY DEF NumbersInv
  <2>2. QED
    BY <2>1 DEF SchedulesInv, RowsOnSchedule, Ends
<1>4. Spec => [](~reused => DebtInv)
  BY DebtInvariant
<1>5. QED
  BY <1>1, <1>2, <1>3, <1>4, AdjustmentInvariant, NumbersInvariant, ReusedStays,
     PTL DEF Spec

-----------------------------------------------------------------------------
(* Reductions that are checked.                                            *)

\* Request r is part of a split that ignoreZeroValueSplits leaves out.
Cancelled(q, r) ==
    \E i, j \in DOMAIN q :
       /\ q[i].number = r.number /\ q[j].number = r.number
       /\ q[i].ledger = "AP" /\ q[j].ledger = "AP"
       /\ q[i].value # 0 /\ q[i].original = q[j].original
       /\ q[i].value = -q[j].value

\* Some request took money away.
Reduced(q) == \E i \in DOMAIN q : q[i].value < 0 /\ ~Cancelled(q, q[i])

\* What is checked.
LEMMA CheckedRequests ==
    ASSUME NEW q, NEW delta
    PROVE  RequiresManualLedgerCheck(delta, q) <=>
              UseManualLedgerCheck /\ delta # 0 /\ (delta < 0 \/ Reduced(q))
<1> DEFINE K == {i \in DOMAIN q : ~Cancelled(q, q[i])}
           counted == IgnoreZeroValueSplits(q)
<1>1. counted = Restrict(q, K)
  BY DEF IgnoreZeroValueSplits, Cancelled
<1>2. DOMAIN counted = K /\ \A i \in K : counted[i] = q[i]
  BY <1>1 DEF Restrict
<1>3. (\E i \in DOMAIN counted : counted[i].value < 0) <=> Reduced(q)
  <2> HIDE DEF counted
  <2>1. QED
    BY <1>2 DEF Reduced
<1>4. RequiresManualLedgerCheck(delta, q) <=>
         UseManualLedgerCheck /\ delta # 0
         /\ (delta < 0 \/ \E i \in DOMAIN counted : counted[i].value < 0)
  BY DEF RequiresManualLedgerCheck
<1>5. QED
  BY <1>3, <1>4

\* A list of requests of one number took money away if it is worth less than 0.
LEMMA ReducedTogether ==
    ASSUME NEW new \in Seq(PaymentRequest), Len(new) \in {1, 2}, OneWay(new),
           NEW n, \A i \in DOMAIN new : new[i].number = n
    PROVE  Reduced(new) <=> ValueTotal(new) < 0
<1>1. DOMAIN new = 1..Len(new) /\ \A i \in DOMAIN new : new[i].value \in Int
  BY ListType DEF PaymentRequest
<1>2. ValueTotal(new) = Values(new)[1] + (IF Len(new) = 1 THEN 0 ELSE Values(new)[2])
  BY ShortTotals
<1>3. 1 \in DOMAIN new /\ (Len(new) = 2 => 2 \in DOMAIN new)
  BY <1>1
<1>4. ValueTotal(new) = new[1].value + (IF Len(new) = 1 THEN 0 ELSE new[2].value)
  BY <1>2, <1>3 DEF Values
<1>5. \A i \in DOMAIN new : i = 1 \/ (i = 2 /\ Len(new) = 2)
  BY <1>1
<1>6. CASE \A i \in DOMAIN new : new[i].value >= 0
  <2>1. ~Reduced(new)
    BY <1>1, <1>6 DEF Reduced
  <2>2. ~(ValueTotal(new) < 0)
    BY <1>1, <1>3, <1>4, <1>6
  <2>3. QED
    BY <2>1, <2>2
<1>7. CASE \A i \in DOMAIN new : new[i].value <= 0
  <2>1. ASSUME NEW r, Cancelled(new, r)
        PROVE  FALSE
    BY <1>1, <1>7, <2>1 DEF Cancelled
  <2>2. Reduced(new) <=> \E i \in DOMAIN new : new[i].value < 0
    BY <2>1 DEF Reduced
  <2>3. QED
    BY <1>1, <1>3, <1>4, <1>5, <1>7, <2>2
<1>8. CASE CancelsOut(new)
  <2>1. /\ Len(new) = 2 /\ new[1].value + new[2].value = 0
        /\ \A i \in DOMAIN new : new[i].ledger = "AP" /\ new[i].original
    BY <1>1, <1>8, 2 \in {1, 2} DEF CancelsOut
  <2>2. ValueTotal(new) = 0
    BY <1>4, <2>1
  <2>3. ASSUME NEW i \in DOMAIN new, new[i].value < 0
        PROVE  Cancelled(new, new[i])
    <3>1. /\ new[1].original = new[2].original /\ new[1].number = n /\ new[2].number = n
          /\ new[1].ledger = "AP" /\ new[2].ledger = "AP"
      <4>1. new[1] \in PaymentRequest /\ new[2] \in PaymentRequest
        BY <1>3, <2>1, ListType
      <4>2. new[1].original \in BOOLEAN /\ new[2].original \in BOOLEAN
        BY <4>1 DEF PaymentRequest
      <4>3. QED
        BY <1>3, <2>1, <4>2
    <3>2. new[1].value # 0 /\ new[1].value = -new[2].value
      <4>1. PICK a \in Int, b \in Int : a = new[1].value /\ b = new[2].value
        BY <1>1, <1>3, <2>1
      <4>2. a + b = 0 /\ (a < 0 \/ b < 0)
        BY <1>5, <2>1, <2>3, <4>1
      <4>3. a # 0 /\ a = -b
        BY <4>2
      <4>4. QED
        BY <4>1, <4>3
    <3>3. new[i].number = n
      OBVIOUS
    <3>4. QED
      BY <1>3, <2>1, <3>1, <3>2, <3>3 DEF Cancelled
  <2>4. ~Reduced(new)
    BY <2>3 DEF Reduced
  <2>5. QED
    BY <2>2, <2>4
<1>9. QED
  BY <1>6, <1>7, <1>8 DEF OneWay

\* Requests of a new number add to the reductions what they take away together.
LEMMA ReducedGrows ==
    ASSUME NEW q \in Seq(PaymentRequest), NEW new \in Seq(PaymentRequest),
           Len(new) \in {1, 2}, OneWay(new),
           NEW n, \A i \in DOMAIN new : new[i].number = n,
           \A i \in DOMAIN q : q[i].number # n
    PROVE  Reduced(q \o new) <=> Reduced(q) \/ ValueTotal(new) < 0
<1>1. PICK all : all = q \o new
  OBVIOUS
<1>2. /\ all \in Seq(PaymentRequest) /\ Len(all) = Len(q) + Len(new)
      /\ \A i \in DOMAIN q : all[i] = q[i]
      /\ \A i \in DOMAIN new : all[Len(q) + i] = new[i]
      /\ \A i \in DOMAIN all :
            i \in DOMAIN q \/ \E j \in DOMAIN new : all[i] = new[j]
  BY <1>1, Appended
<1>3. /\ \A i \in DOMAIN q : i \in DOMAIN all
      /\ \A j \in DOMAIN new : \E i \in DOMAIN all : all[i] = new[j]
  <2>1. /\ DOMAIN q = 1..Len(q) /\ DOMAIN new = 1..Len(new)
        /\ DOMAIN all = 1..(Len(q) + Len(new)) /\ Len(q) \in Nat /\ Len(new) \in Nat
    BY <1>2, ListType
  <2>2. \A j \in DOMAIN new : Len(q) + j \in DOMAIN all
    BY <2>1
  <2>3. QED
    BY <1>2, <2>1, <2>2
<1>4. ASSUME NEW i \in DOMAIN q
      PROVE  Cancelled(all, q[i]) <=> Cancelled(q, q[i])
  <2>1. \A k \in DOMAIN all : all[k].number = q[i].number => k \in DOMAIN q
    BY <1>2
  <2>2. ASSUME Cancelled(all, q[i])
        PROVE  Cancelled(q, q[i])
    <3>1. PICK a \in DOMAIN all, b \in DOMAIN all :
             /\ all[a].number = q[i].number /\ all[b].number = q[i].number
             /\ all[a].ledger = "AP" /\ all[b].ledger = "AP"
             /\ all[a].value # 0 /\ all[a].original = all[b].original
             /\ all[a].value = -all[b].value
      BY <2>2 DEF Cancelled
    <3>2. a \in DOMAIN q /\ b \in DOMAIN q /\ all[a] = q[a] /\ all[b] = q[b]
      BY <1>2, <2>1, <3>1
    <3>3. QED
      BY <3>1, <3>2 DEF Cancelled
  <2>3. ASSUME Cancelled(q, q[i])
        PROVE  Cancelled(all, q[i])
    <3>1. PICK a \in DOMAIN q, b \in DOMAIN q :
             /\ q[a].number = q[i].number /\ q[b].number = q[i].number
             /\ q[a].ledger = "AP" /\ q[b].ledger = "AP"
             /\ q[a].value # 0 /\ q[a].original = q[b].original
             /\ q[a].value = -q[b].value
      BY <2>3 DEF Cancelled
    <3>2. a \in DOMAIN all /\ b \in DOMAIN all /\ all[a] = q[a] /\ all[b] = q[b]
      BY <1>2, <1>3
    <3>3. QED
      BY <3>1, <3>2 DEF Cancelled
  <2>4. QED
    BY <2>2, <2>3
<1>5. ASSUME NEW j \in DOMAIN new
      PROVE  Cancelled(all, new[j]) <=> Cancelled(new, new[j])
  <2>1. \A k \in DOMAIN all :
           all[k].number = new[j].number => \E l \in DOMAIN new : all[k] = new[l]
    BY <1>2
  <2>2. ASSUME Cancelled(all, new[j])
        PROVE  Cancelled(new, new[j])
    <3>1. PICK a \in DOMAIN all, b \in DOMAIN all :
             /\ all[a].number = new[j].number /\ all[b].number = new[j].number
             /\ all[a].ledger = "AP" /\ all[b].ledger = "AP"
             /\ all[a].value # 0 /\ all[a].original = all[b].original
             /\ all[a].value = -all[b].value
      BY <2>2 DEF Cancelled
    <3>2. PICK c \in DOMAIN new, d \in DOMAIN new : all[a] = new[c] /\ all[b] = new[d]
      BY <2>1, <3>1
    <3>3. QED
      BY <3>1, <3>2 DEF Cancelled
  <2>3. ASSUME Cancelled(new, new[j])
        PROVE  Cancelled(all, new[j])
    <3>1. PICK c \in DOMAIN new, d \in DOMAIN new :
             /\ new[c].number = new[j].number /\ new[d].number = new[j].number
             /\ new[c].ledger = "AP" /\ new[d].ledger = "AP"
             /\ new[c].value # 0 /\ new[c].original = new[d].original
             /\ new[c].value = -new[d].value
      BY <2>3 DEF Cancelled
    <3>2. PICK a \in DOMAIN all, b \in DOMAIN all : all[a] = new[c] /\ all[b] = new[d]
      BY <1>3
    <3>3. QED
      BY <3>1, <3>2 DEF Cancelled
  <2>4. QED
    BY <2>2, <2>3
<1>6. Reduced(all) <=> Reduced(q) \/ Reduced(new)
  <2>1. ASSUME Reduced(all)
        PROVE  Reduced(q) \/ Reduced(new)
    BY <1>2, <1>4, <1>5, <2>1 DEF Reduced
  <2>2. ASSUME Reduced(q)
        PROVE  Reduced(all)
    BY <1>2, <1>3, <1>4, <2>2 DEF Reduced
  <2>3. ASSUME Reduced(new)
        PROVE  Reduced(all)
    <3>1. PICK j \in DOMAIN new : new[j].value < 0 /\ ~Cancelled(new, new[j])
      BY <2>3 DEF Reduced
    <3>2. PICK i \in DOMAIN all : all[i] = new[j]
      BY <1>3
    <3>3. QED
      BY <1>5, <3>1, <3>2 DEF Reduced
  <2>4. QED
    BY <2>1, <2>2, <2>3
<1>7. QED
  BY <1>1, <1>6, ReducedTogether

\* A claim lowers what was claimed if it is less than the one before it.
LEMMA LoweredGrows ==
    ASSUME claims \in Seq(Int), NEW v \in Int, claims' = Append(claims, v)
    PROVE  /\ claims # <<>> => (Lowered(claims') <=> Lowered(claims) \/ v < claims[Len(claims)])
           /\ claims = <<>> => ~Lowered(claims')
<1>1. PICK m \in Nat : m = Len(claims)
  OBVIOUS
<1>2. /\ Len(claims') = m + 1 /\ claims'[m + 1] = v
      /\ \A i \in 1..m : claims'[i] = claims[i]
  BY <1>1
<1>3. claims = <<>> <=> m = 0
  BY <1>1
<1>4. CASE m = 0
  <2>1. 2..(m + 1) = {}
    BY <1>4
  <2>2. QED
    BY <1>2, <1>3, <1>4, <2>1 DEF Lowered
<1>5. CASE m # 0
  <2>1. /\ 2..(m + 1) = (2..m) \cup {m + 1}
        /\ \A i \in 2..m : i \in 1..m /\ i - 1 \in 1..m
        /\ (m + 1) - 1 = m /\ m \in 1..m
    BY <1>5
  <2>2. Lowered(claims') <=> \E i \in 2..(m + 1) : claims'[i] < claims'[i - 1]
    BY <1>2 DEF Lowered
  <2>3. Lowered(claims) <=> \E i \in 2..m : claims[i] < claims[i - 1]
    BY <1>1 DEF Lowered
  <2>4. \A i \in 2..m : claims'[i] = claims[i] /\ claims'[i - 1] = claims[i - 1]
    BY <1>2, <2>1
  <2>5. claims'[m + 1] < claims'[(m + 1) - 1] <=> v < claims[m]
    BY <1>2, <2>1
  <2>6. (\E i \in 2..(m + 1) : claims'[i] < claims'[i - 1]) <=>
           \/ \E i \in 2..m : claims'[i] < claims'[i - 1]
           \/ claims'[m + 1] < claims'[(m + 1) - 1]
    BY <2>1
  <2>7. QED
    BY <1>1, <1>3, <1>5, <2>2, <2>3, <2>4, <2>5, <2>6
<1>6. QED
  BY <1>4, <1>5

\* Unless the agreement is closed, the rows took money away just if a claim was
\* lowered, counting an adjustment that waits.
ReductionsInv ==
    /\ claims = <<>> <=> DOMAIN rows = {}
    /\ ~closed =>
         /\ suppressed = 0
         /\ waiting = {} => (Reduced(rows) <=> Lowered(claims))
         /\ \A w \in waiting :
               /\ OneWay(w.requests)
               /\ Lowered(claims) <=> Reduced(rows) \/ ValueTotal(w.requests) < 0

\* What is completed reduces the rows just if it takes money away.
LEMMA CompletionReduces ==
    ASSUME rows \in Seq(PaymentRequest), NEW q, NEW new, CompletedAs(new, q), OneWay(q),
           NEW r, NEW keys, PartsOf(q, r, keys),
           \A i \in DOMAIN rows : rows[i].number # r.number,
           rows' = rows \o new
    PROVE  Reduced(rows') <=> Reduced(rows) \/ ValueTotal(q) < 0
<1>1. /\ new \in Seq(PaymentRequest) /\ Len(new) \in {1, 2} /\ OneWay(new)
      /\ ValueTotal(new) = ValueTotal(q) /\ PartsOf(new, r, keys)
  BY DEF CompletedAs
<1>2. \A i \in DOMAIN new : new[i].number = r.number
  BY <1>1 DEF PartsOf
<1>3. PICK n : n = r.number
  OBVIOUS
<1>4. Reduced(rows \o new) <=> Reduced(rows) \/ ValueTotal(new) < 0
  BY <1>1, <1>2, <1>3, ReducedGrows
<1>5. QED
  BY <1>1, <1>4

\* There are rows once something was completed.
LEMMA CompletionAdds ==
    ASSUME rows \in Seq(PaymentRequest), NEW q, NEW new, CompletedAs(new, q),
           rows' = rows \o new
    PROVE  DOMAIN rows' # {}
<1>1. /\ rows' \in Seq(PaymentRequest) /\ Len(rows') = Len(rows) + Len(new)
      /\ Len(new) \in {1, 2}
  BY Appended DEF CompletedAs
<1>2. Len(rows) \in Nat /\ DOMAIN rows' = 1..Len(rows')
  BY <1>1, ListType
<1>3. 1 \in DOMAIN rows'
  BY <1>1, <1>2
<1>4. QED
  BY <1>3

\* A first payment takes nothing away.
LEMMA FirstPaymentReduces ==
    ASSUME AdjustmentInv, ReductionsInv, ClaimsPay, NEW claim \in Claims, FirstPayment(claim),
           ~reused'
    PROVE  ReductionsInv'
<1>1. /\ rows \in Seq(PaymentRequest) /\ claims \in Seq(Int)
      /\ waiting' = {} /\ suppressed' = 0
  BY DEF FirstPayment, AdjustmentInv, RowsInv, VariablesType
<1>2. PICK r \in PaymentRequest : \E new :
         /\ DOMAIN rows = {} /\ Summed(r) /\ r.ledger = "AP"
         /\ r.lines \in ApplyDualAccounting(scheme, claim, rows)
         /\ claims' = Append(claims, LineTotal(r.lines))
         /\ CompletedAs(new, <<r>>) /\ rows' = rows \o new
  BY FirstPaymentDoes
<1>3. PICK q : q = <<r>>
  OBVIOUS
<1>4. PICK new : CompletedAs(new, q) /\ rows' = rows \o new
  BY <1>2, <1>3
<1>5. PartsOf(q, r, DOMAIN r.lines) /\ ValueTotal(q) = r.value
  BY <1>2, <1>3, SingleFits
<1>6. r.value \in Int /\ r.value >= 0 /\ claims' # <<>>
  BY <1>1, <1>2, LatestClaimPays DEF Summed, PaymentRequest
<1>7. OneWay(q)
  BY <1>3, <1>6 DEF OneWay
<1>8. ~Reduced(rows) /\ claims = <<>>
  BY <1>2 DEF Reduced, ReductionsInv
<1>9. ~Reduced(rows')
  <2>1. Reduced(rows') <=> Reduced(rows) \/ ValueTotal(q) < 0
    BY <1>1, <1>2, <1>4, <1>5, <1>7, CompletionReduces
  <2>2. QED
    BY <1>5, <1>6, <1>8, <2>1
<1>10. ~Lowered(claims')
  <2>1. LineTotal(r.lines) \in Int
    BY <1>1, RequestKeys
  <2>2. QED
    BY <1>1, <1>2, <1>8, <2>1, LoweredGrows
<1>11. DOMAIN rows' # {}
  BY <1>1, <1>4, CompletionAdds
<1>12. QED
  BY <1>1, <1>6, <1>9, <1>10, <1>11 DEF ReductionsInv, Reduced, Cancelled, Lowered

\* An adjustment is checked if it takes money away or an earlier one did.
LEMMA AdjustPaymentReduces ==
    ASSUME AdjustmentInv, ReductionsInv, NEW claim \in Claims, AdjustPayment(claim),
           ~reused'
    PROVE  /\ ReductionsInv'
           /\ ~closed /\ UseManualLedgerCheck =>
                 (waiting' # {} <=>
                    Lowered(claims') /\ claims'[Len(claims')] # claims[Len(claims)])
<1>1. /\ RowsInv /\ rows \in Seq(PaymentRequest) /\ claims \in Seq(Int)
      /\ ValueTotal(rows) \in Int
  BY TotalsType DEF AdjustmentInv, RowsInv, VariablesType
<1>2. waiting = {} /\ closed' = closed /\ DOMAIN rows # {}
  BY AdjustPaymentDoes
<1>3. PICK r \in PaymentRequest :
         /\ \A i \in DOMAIN rows : rows[i].number < r.number
         /\ claims' = Append(claims, LineTotal(r.lines))
         /\ \/ CompleteAdjustment(r, rows)
            \/ RouteManualLedgerToRequestEditor(r, rows)
  BY AdjustPaymentDoes
<1>4. PICK v \in Int : v = LineTotal(r.lines)
  BY <1>1, RequestKeys
<1>5. claims # <<>> /\ claims' # <<>> /\ claims'[Len(claims')] = v
  BY <1>1, <1>2, <1>3, <1>4, ClaimAppended DEF ReductionsInv
<1>6. PICK last \in Int : last = claims[Len(claims)]
  <2>1. claims[Len(claims)] \in Int
    BY <1>1, <1>5
  <2>2. QED
    BY <2>1
<1>7. Lowered(claims') <=> Lowered(claims) \/ v < last
  BY <1>1, <1>3, <1>4, <1>5, <1>6, LoweredGrows
<1>8. \A i \in DOMAIN rows : rows[i].number # r.number
  <2>1. \A i \in DOMAIN rows : rows[i].number \in Nat
    BY <1>1, ListType DEF PaymentRequest
  <2>2. r.number \in Nat
    BY DEF PaymentRequest
  <2>3. QED
    BY <1>3, <2>1, <2>2
<1>9. ~closed => /\ suppressed = 0 /\ ValueTotal(rows) = last
                 /\ Reduced(rows) <=> Lowered(claims)
  <2>1. LatestPaid
    BY <1>2 DEF AdjustmentInv, PaymentInv
  <2>2. ValueTotal(rows) + suppressed = last
    BY <1>5, <1>6, <2>1 DEF LatestPaid
  <2>3. QED
    BY <1>1, <1>2, <1>6, <2>2 DEF ReductionsInv
<1>10. CASE CompleteAdjustment(r, rows)
  <2>1. PICK q, new :
           /\ Fit(q) /\ PartsOf(q, r, KeysOf(r.lines, rows)) /\ waiting' = waiting
           /\ suppressed' \in Int
           /\ ValueTotal(q) + suppressed' = LineTotal(r.lines) - ValueTotal(rows)
           /\ ~closed => OneWay(q) /\ suppressed' = 0
           /\ CompletedAs(new, q) /\ rows' = rows \o new
    BY <1>1, <1>10, CompleteAdjustmentDoes
  <2>2. DOMAIN rows' # {}
    BY <1>1, <2>1, CompletionAdds
  <2>3. ~closed => ValueTotal(q) = v - last
    <3>1. ValueTotal(q) \in Int
      BY <2>1, TotalsType DEF Fit
    <3>2. QED
      BY <1>4, <1>9, <2>1, <3>1
  <2>4. ~closed => (Reduced(rows') <=> Lowered(claims'))
    <3>1. SUFFICES ASSUME ~closed
                   PROVE  Reduced(rows') <=> Lowered(claims')
      OBVIOUS
    <3>2. Reduced(rows') <=> Reduced(rows) \/ ValueTotal(q) < 0
      BY <1>1, <1>8, <2>1, <3>1, CompletionReduces
    <3>3. ValueTotal(q) < 0 <=> v < last
      BY <2>3, <3>1
    <3>4. QED
      BY <1>7, <1>9, <3>1, <3>2, <3>3
  <2>5. ~closed /\ UseManualLedgerCheck => ~(Lowered(claims') /\ v # last)
    <3>1. SUFFICES ASSUME ~closed, UseManualLedgerCheck
                   PROVE  ~(Lowered(claims') /\ v # last)
      OBVIOUS
    <3>2. ~IsAgreementClosed(r.value)
      BY <3>1 DEF IsAgreementClosed
    <3>3. PICK requests \in Adjusted(r, rows) :
             ~RequiresManualLedgerCheck(ValueTotal(requests), rows)
      BY <1>10, <3>2 DEF CompleteAdjustment
    <3>4. ValueTotal(requests) = v - last
      BY <1>1, <1>4, <1>9, <3>1, AdjustedFits
    <3>5. ~(v - last # 0 /\ (v - last < 0 \/ Reduced(rows)))
      BY <3>1, <3>3, <3>4, CheckedRequests
    <3>6. v - last # 0 <=> v # last
      OBVIOUS
    <3>7. v - last < 0 <=> v < last
      OBVIOUS
    <3>8. QED
      BY <1>7, <1>9, <3>1, <3>5, <3>6, <3>7
  <2>6. waiting' = {}
    BY <1>2, <2>1
  <2>7. ReductionsInv'
    BY <1>2, <1>5, <2>1, <2>2, <2>4, <2>6 DEF ReductionsInv, Reduced, Cancelled, Lowered
  <2>8. QED
    BY <1>5, <1>6, <2>5, <2>6, <2>7
<1>11. CASE RouteManualLedgerToRequestEditor(r, rows)
  <2>1. PICK requests \in Adjusted(r, rows) :
           /\ RequiresManualLedgerCheck(ValueTotal(requests), rows)
           /\ waiting' = {[number |-> r.number, due |-> r.due, requests |-> requests]}
           /\ rows' = rows /\ suppressed' = suppressed
    BY <1>11 DEF RouteManualLedgerToRequestEditor
  <2>2. OneWay(requests) /\ ValueTotal(requests) = v - ValueTotal(rows)
    BY <1>1, <1>4, AdjustedFits
  <2>3. waiting' # {} /\ \A w \in waiting' : w.requests = requests
    BY <2>1
  <2>4. ~closed => /\ Lowered(claims') <=> Reduced(rows) \/ ValueTotal(requests) < 0
                   /\ Lowered(claims') /\ v # last
    <3>1. SUFFICES ASSUME ~closed
                   PROVE  /\ Lowered(claims') <=> Reduced(rows) \/ ValueTotal(requests) < 0
                          /\ Lowered(claims') /\ v # last
      OBVIOUS
    <3>2. ValueTotal(requests) = v - last
      BY <1>9, <2>2, <3>1
    <3>3. ValueTotal(requests) < 0 <=> v < last
      BY <3>2
    <3>4. ValueTotal(requests) # 0 /\ (ValueTotal(requests) < 0 \/ Reduced(rows))
      BY <2>1, CheckedRequests
    <3>5. v # last
      BY <3>2, <3>4
    <3>6. QED
      BY <1>7, <1>9, <3>1, <3>3, <3>4, <3>5
  <2>5. ReductionsInv'
    <3>1. claims' # <<>> /\ DOMAIN rows' # {}
      BY <1>2, <1>5, <2>1
    <3>2. Reduced(rows') <=> Reduced(rows)
      BY <2>1
    <3>3. ~closed => suppressed' = 0
      BY <1>9, <2>1
    <3>4. ASSUME NEW w \in waiting'
          PROVE  w.requests = requests
      BY <2>3
    <3>5. ASSUME ~closed, NEW w \in waiting'
          PROVE  /\ OneWay(w.requests)
                 /\ Lowered(claims') <=> Reduced(rows') \/ ValueTotal(w.requests) < 0
      BY <2>2, <2>4, <3>2, <3>4, <3>5
    <3>6. QED
      BY <1>2, <2>3, <3>1, <3>3, <3>5
      DEF ReductionsInv, Reduced, Cancelled, Lowered, OneWay, CancelsOut
  <2>6. QED
    BY <1>5, <1>6, <2>3, <2>4, <2>5
<1>12. QED
  BY <1>3, <1>10, <1>11

\* The reply of the editor takes away what waited to be.
LEMMA UpdateRequestsReduces ==
    ASSUME AdjustmentInv, ReductionsInv, UpdateRequestsAwaitingManualLedgerCheck
    PROVE  ReductionsInv'
<1>1. rows \in Seq(PaymentRequest) /\ \A i \in DOMAIN rows : rows[i].number \in Nat
  <2>1. rows \in Seq(PaymentRequest)
    BY DEF AdjustmentInv, RowsInv
  <2>2. QED
    BY <2>1, ListType DEF PaymentRequest
<1>2. waiting' = {} /\ suppressed' = 0 /\ claims' = claims /\ closed' = closed
  BY UpdateRequestsDoes
<1>3. PICK w, q, new :
         /\ waiting = {w} /\ Waits(w) /\ ValueTotal(q) = ValueTotal(w.requests)
         /\ \A r, keys : PartsOf(w.requests, r, keys) => PartsOf(q, r, keys)
         /\ OneWay(w.requests) => OneWay(q)
         /\ CompletedAs(new, q) /\ rows' = rows \o new
  BY UpdateRequestsDoes
<1>4. PICK r : r = [number |-> w.number, settled |-> 0]
  OBVIOUS
<1>5. PartsOf(q, r, Keys) /\ r.number = w.number
  BY <1>3, <1>4 DEF Waits
<1>6. \A i \in DOMAIN rows : rows[i].number # r.number
  BY <1>1, <1>3, <1>5 DEF Waits
<1>7. ~closed => (Reduced(rows') <=> Lowered(claims))
  <2>1. SUFFICES ASSUME ~closed
                 PROVE  Reduced(rows') <=> Lowered(claims)
    OBVIOUS
  <2>2. /\ OneWay(q)
        /\ Lowered(claims) <=> Reduced(rows) \/ ValueTotal(q) < 0
    BY <1>3, <2>1 DEF ReductionsInv
  <2>3. Reduced(rows') <=> Reduced(rows) \/ ValueTotal(q) < 0
    BY <1>1, <1>3, <1>5, <1>6, <2>2, CompletionReduces
  <2>4. QED
    BY <2>2, <2>3
<1>8. DOMAIN rows' # {} /\ claims # <<>>
  BY <1>1, <1>3, CompletionAdds DEF Waits
<1>9. QED
  BY <1>2, <1>7, <1>8 DEF ReductionsInv, Reduced, Cancelled, Lowered

\* Settlements take nothing away.
LEMMA SettlementReduces ==
    ASSUME AdjustmentInv, ReductionsInv, NEW i \in DOMAIN rows, UpdateSettlementStatus(i)
    PROVE  ReductionsInv'
<1>1. /\ UNCHANGED <<scheme, instalments, claims, waiting, suppressed, closed, now>>
      /\ DOMAIN rows' = DOMAIN rows
      /\ \A j \in DOMAIN rows :
            /\ rows'[j].number = rows[j].number /\ rows'[j].ledger = rows[j].ledger
            /\ rows'[j].value = rows[j].value /\ rows'[j].original = rows[j].original
  BY SettlementDoes
<1>2. PICK all : all = rows'
  OBVIOUS
<1>3. \A j \in DOMAIN rows : Cancelled(all, all[j]) <=> Cancelled(rows, rows[j])
  BY <1>1, <1>2 DEF Cancelled
<1>4. Reduced(all) <=> Reduced(rows)
  BY <1>1, <1>2, <1>3 DEF Reduced
<1>5. Reduced(rows') <=> Reduced(rows)
  BY <1>2, <1>4
<1>6. QED
  BY <1>1, <1>5
  DEF ReductionsInv, Reduced, Cancelled, Lowered, OneWay, CancelsOut

\* Every step keeps the invariant.
LEMMA ReductionsStep ==
    ASSUME ClaimsPay
    PROVE  AdjustmentInv /\ ReductionsInv /\ ~reused' /\ [Next]_vars => ReductionsInv'
<1> SUFFICES ASSUME AdjustmentInv, ReductionsInv, ~reused', [Next]_vars
             PROVE  ReductionsInv'
  OBVIOUS
<1>1. ASSUME UNCHANGED <<claims, rows, waiting, suppressed>>, closed' = closed \/ closed'
      PROVE  ReductionsInv'
  BY <1>1 DEF ReductionsInv, Reduced, Cancelled, Lowered, OneWay, CancelsOut
<1>2. CASE \E claim \in Claims : FirstPayment(claim)
  BY <1>2, FirstPaymentReduces
<1>3. CASE \E claim \in Claims : AdjustPayment(claim)
  BY <1>3, AdjustPaymentReduces
<1>4. CASE UpdateRequestsAwaitingManualLedgerCheck
  BY <1>4, UpdateRequestsReduces
<1>5. CASE \E i \in DOMAIN rows : UpdateSettlementStatus(i)
  BY <1>5, SettlementReduces
<1>6. CASE InstalmentDate \/ AddClosure \/ UNCHANGED vars
  BY <1>1, <1>6 DEF InstalmentDate, AddClosure, vars
<1>7. QED
  BY <1>2, <1>3, <1>4, <1>5, <1>6 DEF Next

\* requiresManualLedgerCheck, ignoreZeroValueSplits: if no claim is negative, an
\* adjustment of an open agreement goes to the editor exactly if it changes what
\* was claimed and it, or a request before it, lowered that, however the earlier
\* ones were split over ledgers and requests and whatever the editor made of them,
\* as long as every request is compared with all earlier ones.
THEOREM LoweredIsChecked ==
    ASSUME ClaimsPay
    PROVE  Spec => CheckedIfLowered
<1> DEFINE Checked ==
             (/\ UseManualLedgerCheck /\ ~closed /\ ~reused'
              /\ Len(claims') > Len(claims) /\ claims # <<>>)
             => (waiting' # {} <=>
                   Lowered(claims') /\ claims'[Len(claims')] # claims[Len(claims)])
<1>1. Init => ReductionsInv
  <2> SUFFICES ASSUME Init
               PROVE  ReductionsInv
    OBVIOUS
  <2>1. waiting = {} /\ DOMAIN rows = {} /\ claims = <<>> /\ suppressed = 0
    BY DEF Init
  <2>2. 2..Len(claims) = {}
    BY <2>1
  <2>3. QED
    BY <2>1, <2>2 DEF ReductionsInv, Reduced, Lowered
<1>2. AdjustmentInv /\ ReductionsInv /\ ~reused' /\ [Next]_vars => ReductionsInv'
  BY ReductionsStep
<1>3. AdjustmentInv /\ ReductionsInv /\ [Next]_vars => Checked
  <2> SUFFICES ASSUME AdjustmentInv, ReductionsInv, ~reused', [Next]_vars,
                      UseManualLedgerCheck, ~closed,
                      Len(claims') > Len(claims), claims # <<>>
               PROVE  waiting' # {} <=>
                        Lowered(claims') /\ claims'[Len(claims')] # claims[Len(claims)]
    OBVIOUS
  <2>1. Len(claims) \in Nat
    BY DEF AdjustmentInv, VariablesType
  <2>2. ~(Len(claims) > Len(claims))
    BY <2>1
  <2>3. claims' # claims
    BY <2>2
  <2>4. ASSUME NEW claim \in Claims, FirstPayment(claim)
        PROVE  FALSE
    BY <2>4, FirstPaymentDoes DEF ReductionsInv
  <2>5. \E claim \in Claims : AdjustPayment(claim)
    BY <2>3, <2>4 DEF Next, vars, UpdateRequestsAwaitingManualLedgerCheck,
       UpdateSettlementStatus, InstalmentDate, AddClosure
  <2>6. QED
    BY <2>5, AdjustPaymentReduces
<1>4. [][Checked]_vars <=> CheckedIfLowered
  BY DEF CheckedIfLowered
<1>5. QED
  BY <1>1, <1>2, <1>3, <1>4, AdjustmentInvariant, NumbersInvariant, ReusedStays,
     PTL DEF Spec
=============================================================================

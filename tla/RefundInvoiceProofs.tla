------------------------ MODULE RefundInvoiceProofs ------------------------
(***************************************************************************)
(* Theorems about Refunds, for any callers, networks, currencies, amounts  *)
(* and rates, and about Invoices, for any threads, purchases and texts. The*)
(* two modules have no name in common.                                     *)
(*                                                                         *)
(* Both compute over data: sums, text, digits. What a recursive function   *)
(* does is proved from one fact about recursion, RecursionExists, and from *)
(* the least counterexample (LeastNumber).                                 *)
(***************************************************************************)
EXTENDS MCRefunds, Invoices, FiniteSetTheorems, SequenceTheorems,
        WellFoundedInduction, TLAPS

-----------------------------------------------------------------------------
(* Recursion                                                               *)

\* A set of numbers that is not empty has a least one.
LEMMA LeastNumber ==
  ASSUME NEW T, T \subseteq Nat, T # {}
  PROVE  \E n \in T : \A k \in T : n <= k
<1> DEFINE R == OpToRel(<, Nat)
<1>1. IsWellFoundedOn(R, Nat)
  BY NatLessThanWellFounded
<1>2. \A x, y \in Nat : x < y => <<x, y>> \in R
  BY DEF OpToRel
<1> HIDE DEF R
<1>3. PICK n \in T : \A k \in T : ~(<<k, n>> \in R)
  BY <1>1, WFMin
<1>4. ASSUME NEW k \in T PROVE n <= k
  <2>1. ~(k < n) /\ k \in Nat /\ n \in Nat
    BY <1>2, <1>3
  <2> QED BY <2>1
<1> QED BY <1>4

\* A function defined by recursion on d: b[d] at the base B, elsewhere F of d and
\* of the value at pred[d].
Solves(g, S, B, b, F, pred) ==
  \A d \in S : g[d] = IF d \in B THEN b[d] ELSE F[<<d, g[pred[d]]>>]

\* There is one such function at most if pred lowers a measure.
LEMMA RecursionUnique ==
  ASSUME NEW S, NEW B, NEW b, NEW F, NEW pred, NEW m,
         \A d \in S : m[d] \in Nat,
         \A d \in S \ B : pred[d] \in S /\ m[pred[d]] < m[d],
         NEW g, NEW h, Solves(g, S, B, b, F, pred), Solves(h, S, B, b, F, pred)
  PROVE  \A d \in S : g[d] = h[d]
<1> SUFFICES ASSUME NEW d \in S, g[d] # h[d] PROVE FALSE
  OBVIOUS
<1> DEFINE T == {m[e] : e \in {x \in S : g[x] # h[x]}}
<1>1. T \subseteq Nat /\ m[d] \in T
  OBVIOUS
<1>2. PICK i \in T : \A j \in T : i <= j
  BY <1>1, LeastNumber
<1>3. PICK e \in S : m[e] = i /\ g[e] # h[e]
  OBVIOUS
<1>4. CASE e \in B
  BY <1>3, <1>4 DEF Solves
<1>5. CASE e \notin B
  <2>1. pred[e] \in S /\ m[pred[e]] < m[e] /\ m[pred[e]] \in Nat /\ m[e] \in Nat
    BY <1>5
  <2>2. ASSUME m[pred[e]] \in T PROVE FALSE
    <3>1. i <= m[pred[e]] /\ i = m[e]
      BY <1>2, <1>3, <2>2
    <3> QED BY <2>1, <3>1
  <2>3. g[pred[e]] = h[pred[e]]
    BY <2>1, <2>2
  <2> QED BY <1>3, <1>5, <2>3 DEF Solves
<1> QED BY <1>4, <1>5

\* And there is one: the solutions for all smaller measures, put together.
LEMMA RecursionExists ==
  ASSUME NEW D, NEW V, NEW B, NEW b, NEW F, NEW pred, NEW m,
         \A d \in D : m[d] \in Nat,
         \A d \in D \ B : pred[d] \in D /\ m[pred[d]] < m[d],
         \A d \in D \cap B : b[d] \in V,
         \A d \in D \ B, v \in V : F[<<d, v>>] \in V
  PROVE  \E g \in [D -> V] : Solves(g, D, B, b, F, pred)
<1> DEFINE Up(n) == {d \in D : m[d] < n}
           Sols(n) == {h \in [Up(n) -> V] : Solves(h, Up(n), B, b, F, pred)}
<1>1. ASSUME NEW n \in Nat, NEW k \in Nat, NEW g \in Sols(n), NEW h \in Sols(k),
             NEW d \in Up(n) \cap Up(k)
      PROVE  g[d] = h[d]
  <2> DEFINE S == Up(n) \cap Up(k)
  <2>1. \A x \in S : m[x] \in Nat
    OBVIOUS
  <2>2. \A x \in S \ B : pred[x] \in S /\ m[pred[x]] < m[x]
    OBVIOUS
  <2>3. Solves(g, S, B, b, F, pred) /\ Solves(h, S, B, b, F, pred)
    BY DEF Solves
  <2>4. d \in S
    OBVIOUS
  <2> HIDE DEF S
  <2> QED BY <2>1, <2>2, <2>3, <2>4, RecursionUnique
<1>2. ASSUME NEW n \in Nat PROVE Sols(n) # {}
  <2> DEFINE T == {k \in Nat : Sols(k) = {}}
  <2> SUFFICES ASSUME T # {} PROVE FALSE
    OBVIOUS
  <2>1. PICK k \in T : \A j \in T : k <= j
    <3> T \subseteq Nat
      OBVIOUS
    <3> QED BY LeastNumber
  <2>2. CASE k = 0
    <3>1. Up(k) = {}
      BY <2>2
    <3> DEFINE h == [d \in Up(k) |-> b[d]]
    <3>2. h \in Sols(k)
      BY <3>1 DEF Solves
    <3> QED BY <3>2
  <2>3. CASE k # 0
    <3>1. k - 1 \in Nat /\ k - 1 \notin T
      BY <2>1, <2>3
    <3>2. PICK g : g \in Sols(k - 1)
      BY <3>1
    <3> DEFINE h == [d \in Up(k) |-> IF d \in B THEN b[d] ELSE F[<<d, g[pred[d]]>>]]
    <3>3. \A d \in Up(k) \ B : pred[d] \in Up(k - 1) /\ pred[d] \in Up(k)
      OBVIOUS
    <3>4. h \in [Up(k) -> V]
      <4> SUFFICES ASSUME NEW d \in Up(k), d \notin B PROVE F[<<d, g[pred[d]]>>] \in V
        OBVIOUS
      <4>1. g[pred[d]] \in V
        BY <3>2, <3>3
      <4> QED BY <4>1
    <3>5. \A d \in Up(k - 1) : d \in Up(k) /\ h[d] = g[d]
      BY <3>2 DEF Solves
    <3>6. Solves(h, Up(k), B, b, F, pred)
      <4> SUFFICES ASSUME NEW d \in Up(k)
                   PROVE h[d] = IF d \in B THEN b[d] ELSE F[<<d, h[pred[d]]>>]
        BY DEF Solves
      <4> QED BY <3>3, <3>5
    <3>7. h \in Sols(k)
      BY <3>4, <3>6
    <3> QED BY <3>7
  <2> QED BY <2>2, <2>3
<1> DEFINE H == [n \in Nat |-> CHOOSE h \in Sols(n) : TRUE]
           G == [d \in D |-> H[m[d] + 1][d]]
<1>3. \A n \in Nat : H[n] \in Sols(n)
  BY <1>2
<1> HIDE DEF H, Sols
<1>4. \A d \in D : d \in Up(m[d] + 1) /\ m[d] + 1 \in Nat
  OBVIOUS
<1>5. G \in [D -> V]
  BY <1>3, <1>4 DEF Sols
<1>6. ASSUME NEW d \in D PROVE G[d] = IF d \in B THEN b[d] ELSE F[<<d, G[pred[d]]>>]
  <2>1. Solves(H[m[d] + 1], Up(m[d] + 1), B, b, F, pred)
    BY <1>3, <1>4 DEF Sols
  <2>2. G[d] = IF d \in B THEN b[d] ELSE F[<<d, H[m[d] + 1][pred[d]]>>]
    BY <1>4, <2>1 DEF Solves
  <2>3. ASSUME d \notin B PROVE H[m[d] + 1][pred[d]] = G[pred[d]]
    <3>1. pred[d] \in Up(m[d] + 1) /\ pred[d] \in D
      BY <2>3
    <3>2. pred[d] \in Up(m[pred[d]] + 1) /\ m[pred[d]] + 1 \in Nat
      BY <3>1, <1>4
    <3> QED BY <1>1, <1>3, <1>4, <3>1, <3>2
  <2> QED BY <2>2, <2>3
<1> QED BY <1>5, <1>6 DEF Solves

-----------------------------------------------------------------------------
(* Refunds: the sum that Stripe keeps                                      *)

LEMMA SumOfRefunds ==
  ASSUME NEW S, IsFiniteSet(S), \A r \in S : refunds[r].amount \in Nat
  PROVE  MapThenSumSet(LAMBDA r : refunds[r].amount, S) \in Nat
<1> DEFINE D == SUBSET S
           chosen(s) == CHOOSE x \in s : TRUE
           pred == [s \in D |-> s \ {chosen(s)}]
           m == [s \in D |-> Cardinality(s)]
           b == [s \in {{}} |-> 0]
           Adds(f) == f = [s \in D |-> IF s = {} THEN 0
                                       ELSE refunds[chosen(s)].amount + f[s \ {chosen(s)}]]
           iter == CHOOSE f : Adds(f)
           W == Nat \cup {iter[s] : s \in D}
           F == [sv \in D \X W |-> refunds[chosen(sv[1])].amount + sv[2]]
<1>1. ASSUME NEW s \in D \ {{}}
      PROVE  /\ chosen(s) \in s /\ chosen(s) \in S
             /\ pred[s] \in D /\ pred[s] = s \ {chosen(s)} /\ m[pred[s]] < m[s]
  <2>1. chosen(s) \in s
    OBVIOUS
  <2>2. IsFiniteSet(s) /\ Cardinality(s) \in Nat
    BY FS_Subset, FS_CardinalityType
  <2>3. Cardinality(s \ {chosen(s)}) = Cardinality(s) - 1
    <3> HIDE DEF chosen
    <3> QED BY <2>1, <2>2, FS_RemoveElement
  <2> QED BY <2>1, <2>2, <2>3
<1>2. \A s \in D : m[s] \in Nat
  BY FS_Subset, FS_CardinalityType
<1>3. \A s \in D \ {{}}, v \in W : F[<<s, v>>] = refunds[chosen(s)].amount + v
  OBVIOUS
<1>4. \A s \in D \ {{}}, v \in Nat : F[<<s, v>>] \in Nat
  <2> SUFFICES ASSUME NEW s \in D \ {{}}, NEW v \in Nat PROVE F[<<s, v>>] \in Nat
    OBVIOUS
  <2>1. refunds[chosen(s)].amount \in Nat /\ v \in W
    BY <1>1
  <2>2. F[<<s, v>>] = refunds[chosen(s)].amount + v
    BY <1>3, <2>1
  <2> HIDE DEF F
  <2> QED BY <2>1, <2>2
<1>5. \A s \in D \cap {{}} : b[s] = 0 /\ b[s] \in Nat
  OBVIOUS
<1> HIDE DEF F, W, chosen
<1>6. ASSUME NEW f, \A s \in D : f[s] \in W
      PROVE  Adds(f) => Solves(f, D, {{}}, b, F, pred)
  <2> SUFFICES ASSUME Adds(f), NEW s \in D
               PROVE  f[s] = IF s \in {{}} THEN b[s] ELSE F[<<s, f[pred[s]]>>]
    BY DEF Solves
  <2>1. CASE s = {}
    BY <1>5, <2>1
  <2>2. CASE s # {}
    <3>1. f[s] = refunds[chosen(s)].amount + f[s \ {chosen(s)}]
      BY <2>2
    <3>2. F[<<s, f[pred[s]]>>] = refunds[chosen(s)].amount + f[pred[s]]
      BY <1>1, <1>3, <1>6, <2>2
    <3> QED BY <1>1, <2>2, <3>1, <3>2
  <2> QED BY <2>1, <2>2
<1>7. PICK g \in [D -> Nat] : Solves(g, D, {{}}, b, F, pred)
  <2> HIDE DEF D, F, pred, m, b
  <2> QED BY <1>1, <1>2, <1>4, <1>5, RecursionExists
<1>8. Adds(g)
  <2> SUFFICES ASSUME NEW s \in D
               PROVE  g[s] = IF s = {} THEN 0
                             ELSE refunds[chosen(s)].amount + g[s \ {chosen(s)}]
    OBVIOUS
  <2>1. CASE s = {}
    BY <1>5, <1>7, <2>1 DEF Solves
  <2>2. CASE s # {}
    <3>1. g[pred[s]] \in W
      BY <1>1, <1>7, <2>2 DEF W
    <3> QED BY <1>1, <1>3, <1>7, <2>2, <3>1 DEF Solves
  <2> QED BY <2>1, <2>2
<1>9. Adds(iter)
  BY <1>8
<1>10. MapThenSumSet(LAMBDA r : refunds[r].amount, S) = iter[S]
  BY DEF MapThenSumSet, MapThenFoldSet, chosen
<1>11. \A s \in D : iter[s] \in W
  BY DEF W
<1> HIDE DEF iter
<1>12. Solves(iter, D, {{}}, b, F, pred)
  BY <1>6, <1>9, <1>11
<1>13. \A s \in D : iter[s] = g[s]
  <2> HIDE DEF D, F, pred, m, b
  <2> QED BY <1>1, <1>2, <1>7, <1>12, RecursionUnique
<1> QED BY <1>7, <1>10, <1>13

LEMMA RemainingIsBounded ==
  ASSUME TypeOK
  PROVE  Remaining \in Int /\ Remaining <= ChargeAmount
<1> DEFINE S == {r \in DOMAIN refunds : refunds[r].status # "failed"}
<1>1. Len(refunds) \in Nat /\ DOMAIN refunds = 1 .. Len(refunds)
  BY DEF TypeOK
<1>2. IsFiniteSet(S)
  <2>1. IsFiniteSet(1 .. Len(refunds))
    BY <1>1, FS_Interval
  <2>2. S \subseteq 1 .. Len(refunds)
    BY <1>1
  <2> QED BY <2>1, <2>2, FS_Subset
<1>3. \A r \in S : refunds[r].amount \in Nat
  <2>1. \A r \in DOMAIN refunds : refunds[r] \in Refund
    BY <1>1 DEF TypeOK
  <2> QED BY <2>1, AmountAssumption DEF Refund
<1> HIDE DEF S
<1>4. MapThenSumSet(LAMBDA r : refunds[r].amount, S) \in Nat
  BY <1>2, <1>3, SumOfRefunds
<1>5. Remaining = ChargeAmount - MapThenSumSet(LAMBDA r : refunds[r].amount, S)
  BY DEF Remaining, S
<1> QED BY <1>4, <1>5, AmountAssumption

-----------------------------------------------------------------------------
(* Refunds: conversion                                                     *)

\* Rounding half up, of any fraction: the result is within half of one, and a
\* half goes up.
LEMMA HalfUpRounds ==
  ASSUME NEW num \in Nat, NEW den \in Nat \ {0}
  PROVE  /\ HalfUp(num, den) \in Nat
         /\ -den < 2 * (HalfUp(num, den) * den - num)
         /\ 2 * (HalfUp(num, den) * den - num) <= den
<1> DEFINE n == 2 * num + den
           d == 2 * den
           q == n \div d
<1>1. n \in Nat /\ d \in Nat \ {0}
  OBVIOUS
<1>2. q \in Nat /\ d * q <= n /\ n < d * q + d
  <2> HIDE DEF n, d
  <2> QED BY <1>1
<1>3. HalfUp(num, den) = q
  BY DEF HalfUp
<1> HIDE DEF q
<1>4. d * q = 2 * (q * den)
  BY <1>2
<1>5. q * den \in Int
  BY <1>2
<1> QED BY <1>2, <1>3, <1>4, <1>5

LEMMA ScaleType == \A c : Scale(c) \in Nat \ {0}
BY DEF Scale

LEMMA ConvertType ==
  ASSUME NEW amount \in Nat, NEW from, NEW to, NEW r \in (Nat \ {0}) \X (Nat \ {0})
  PROVE  /\ Convert(amount, from, to, r) \in Nat
         /\ WithinHalfUnit(amount, from, to, r)
<1> DEFINE num == amount * r[1] * Scale(to)
           den == Scale(from) * r[2]
<1>1. num \in Nat
  <2>1. r[1] \in Nat /\ Scale(to) \in Nat
    BY ScaleType
  <2>2. amount * r[1] \in Nat
    BY <2>1
  <2> QED BY <2>1, <2>2
<1>2. den \in Nat \ {0}
  BY ScaleType
<1>3. Convert(amount, from, to, r) = HalfUp(num, den)
  BY DEF Convert
<1> HIDE DEF num, den
<1>4. /\ HalfUp(num, den) \in Nat
      /\ -den < 2 * (HalfUp(num, den) * den - num)
      /\ 2 * (HalfUp(num, den) * den - num) <= den
  BY <1>1, <1>2, HalfUpRounds
<1> QED BY <1>3, <1>4 DEF WithinHalfUnit, num, den

\* Lines 277-301: for all amounts, all rates and any two currencies, with minor
\* units or without, a conversion is within half a minor unit of the exact value.
THEOREM ConversionRoundsHalfUp ==
  \A amount \in Nat, from, to, r \in (Nat \ {0}) \X (Nat \ {0}) :
    WithinHalfUnit(amount, from, to, r)
BY ConvertType

\* What TLC evaluates of it.
THEOREM ConversionsOfTheRun == Spec => []ConversionWithinHalfUnit
<1>1. {<<50, 1>>, <<1, 50>>, <<1493, 10>>, <<7, 1000>>, <<1, 1>>}
        \subseteq (Nat \ {0}) \X (Nat \ {0})
  OBVIOUS
<1>2. ConversionWithinHalfUnit
  BY <1>1, ConvertType DEF ConversionWithinHalfUnit
<1> QED BY <1>2, PTL

-----------------------------------------------------------------------------
(* Refunds: types, and what callers know of their refunds                  *)

LEMMA ShapeOfCallers ==
  ASSUME NEW s \in {Idle} \cup Creating \cup Estimating
  PROVE  /\ s.pc \in {"idle", "creating", "estimating"}
         /\ s.pc = "creating" => s \in Creating
         /\ s.pc = "estimating" => s \in Estimating
         /\ s.pc = "idle" => s = Idle
BY DEF Idle, Creating, Estimating

LEMMA WindowType == \A n : Window(n) \in 5 .. 30
BY DEF Window, NETWORK_PROCESSING_WINDOWS

LEMMA RefundsDomain ==
  ASSUME TypeOK
  PROVE  /\ Len(refunds) \in 0 .. MaxRefunds
         /\ DOMAIN refunds = 1 .. Len(refunds)
         /\ IsFiniteSet(DOMAIN refunds)
         /\ \A r \in DOMAIN refunds : refunds[r] \in Refund
<1>1. Len(refunds) \in 0 .. MaxRefunds /\ DOMAIN refunds = 1 .. Len(refunds)
  BY BoundAssumption DEF TypeOK
<1>2. IsFiniteSet(DOMAIN refunds)
  BY <1>1, FS_Interval
<1> QED BY <1>1, <1>2 DEF TypeOK

\* What one caller asks Stripe for, whatever it was called with.
LEMMA RefundAmountType ==
  ASSUME NEW asked \in Asked, NEW currency, NEW rate \in Rates \cup {NoRate}
  PROVE  RefundAmount(asked, currency, rate) \in {None} \cup Nat
<1> DEFINE amount == IF asked \in {None, 0} THEN ChargeAmount ELSE asked
<1>1. amount \in Nat
  BY AmountAssumption DEF Asked
<1>2. asked \in {None} \cup Nat
  BY AmountAssumption DEF Asked
<1>3. rate # NoRate => Convert(amount, OriginalCurrency, currency, rate) \in Nat
  <2> HIDE DEF amount
  <2> QED BY <1>1, RateAssumption, ConvertType
<1> HIDE DEF amount
<1>4. RefundAmount(asked, currency, rate)
        = IF currency = OriginalCurrency THEN asked
          ELSE IF rate = NoRate THEN amount
          ELSE Convert(amount, OriginalCurrency, currency, rate)
  BY DEF RefundAmount, amount
<1> QED BY <1>1, <1>2, <1>3, <1>4

\* A refund that Stripe creates: one more, pending, not told, not warned of.
LEMMA CreatedAppends ==
  ASSUME TypeOK, NEW p \in Processes, Created(p)
  PROVE  /\ refunds' \in Seq(Refund)
         /\ Len(refunds') = Len(refunds) + 1 /\ Len(refunds') <= MaxRefunds
         /\ \A r \in DOMAIN refunds : refunds'[r] = refunds[r]
         /\ refunds'[Len(refunds')].told = NotTold
         /\ refunds'[Len(refunds')].warned = FALSE
         /\ process[p] \in Creating
<1>1. process[p] \in Creating
  BY ShapeOfCallers DEF TypeOK, Created
<1>2. PICK amount \in 1 .. Remaining :
        refunds' = Append(refunds,
           [asked |-> process[p].asked, amount |-> amount, status |-> "pending",
            age |-> 0, told |-> NotTold, warned |-> FALSE])
  BY DEF Created
<1>3. amount \in 1 .. ChargeAmount
  BY RemainingIsBounded, AmountAssumption
<1> DEFINE new == [asked |-> process[p].asked, amount |-> amount, status |-> "pending",
                   age |-> 0, told |-> NotTold, warned |-> FALSE]
<1>4. new \in Refund
  BY <1>1, <1>3, BoundAssumption DEF Refund, Creating, MaxAge
<1>5. new.told = NotTold /\ new.warned = FALSE
  OBVIOUS
<1> HIDE DEF new
<1>6. refunds' = Append(refunds, new)
  BY <1>2 DEF new
<1>7. Len(refunds) < MaxRefunds
  BY DEF Created
<1> QED BY <1>1, <1>4, <1>5, <1>6, <1>7, BoundAssumption, RefundsDomain DEF TypeOK

\* What CallersAreTold counts.
LEMMA ToldMeans ==
  ASSUME TypeOK
  PROVE  /\ IsFiniteSet(Untold) /\ Cardinality(Untold) \in Nat
         /\ IsFiniteSet(Estimators) /\ Cardinality(Estimators) \in Nat
         /\ lost \in Nat
<1>1. IsFiniteSet(Untold) /\ IsFiniteSet(Estimators)
  <2>1. Untold \subseteq DOMAIN refunds /\ Estimators \subseteq Processes
    BY DEF Untold, Estimators
  <2> QED BY <2>1, RefundsDomain, ProcessAssumption, FS_Subset
<1>2. lost \in Nat
  BY BoundAssumption DEF TypeOK
<1> QED BY <1>1, <1>2, FS_CardinalityType

\* A step of one caller that learns nothing and leaves the refunds.
LEMMA CallerStepIInv ==
  ASSUME IInv, NEW p \in Processes, InitiateRefund(p) \/ RefundError(p)
  PROVE  IInv'
<1>1. UNCHANGED <<network, refunds, lost>>
  BY DEF InitiateRefund, RefundError
<1>2. PICK state \in {Idle} \cup Creating : process' = [process EXCEPT ![p] = state]
  <2>1. CASE InitiateRefund(p)
    <3>1. PICK asked \in Asked, currency \in Currencies \cup {OriginalCurrency},
               rate \in Rates \cup {NoRate} :
            process' = [process EXCEPT ![p] =
              [pc |-> "creating", asked |-> asked,
               amount |-> RefundAmount(asked, currency, rate)]]
      BY <2>1 DEF InitiateRefund, Goto
    <3>2. RefundAmount(asked, currency, rate) \in {None} \cup Nat
      BY RefundAmountType
    <3> QED BY <3>1, <3>2 DEF Creating
  <2>2. CASE RefundError(p)
    BY <2>2 DEF RefundError, Goto
  <2> QED BY <2>1, <2>2
<1>3. process[p].pc # "estimating"
  BY DEF InitiateRefund, RefundError, Idle
<1>4. state.pc # "estimating"
  BY DEF Idle, Creating
<1>5. /\ process'[p].pc # "estimating"
      /\ \A q \in Processes : q # p => process'[q] = process[q]
  BY <1>2, <1>4 DEF IInv, TypeOK
<1>6. TypeOK'
  BY <1>1, <1>2 DEF IInv, TypeOK
<1>7. EstimatesPending'
  BY <1>1, <1>5 DEF IInv, EstimatesPending
<1>8. WarnedAreOverdue' /\ ToldTheNetwork'
  BY <1>1 DEF IInv, WarnedAreOverdue, ToldTheNetwork
<1>9. CallersAreTold'
  <2>1. Untold' = Untold /\ Estimators' = Estimators
    BY <1>1, <1>3, <1>5 DEF Untold, Estimators
  <2> QED BY <1>1, <2>1 DEF IInv, CallersAreTold
<1> QED BY <1>6, <1>7, <1>8, <1>9 DEF IInv

\* A refund is created: one more is not estimated. Its caller goes on to do so,
\* or its answer is lost.
LEMMA CreateIInv ==
  ASSUME IInv, NEW p \in Processes, CreateRefund(p) \/ AnswerLost(p)
  PROVE  IInv'
<1> DEFINE n == Len(refunds) + 1
<1>1. /\ refunds' \in Seq(Refund) /\ Len(refunds') = n /\ n <= MaxRefunds
      /\ \A r \in DOMAIN refunds : refunds'[r] = refunds[r]
      /\ refunds'[n].told = NotTold /\ refunds'[n].warned = FALSE
      /\ process[p] \in Creating
  BY CreatedAppends DEF IInv, CreateRefund, AnswerLost
<1>2. /\ Len(refunds) \in Nat /\ n \in 1 .. MaxRefunds
      /\ DOMAIN refunds = 1 .. Len(refunds) /\ DOMAIN refunds' = DOMAIN refunds \cup {n}
      /\ n \notin DOMAIN refunds
  <2>1. Len(refunds) \in Nat /\ DOMAIN refunds = 1 .. Len(refunds)
    BY RefundsDomain, BoundAssumption DEF IInv
  <2>2. DOMAIN refunds' = 1 .. n
    BY <1>1
  <2> QED BY <1>1, <2>1, <2>2, BoundAssumption
<1>3. process[p].pc # "estimating" /\ UNCHANGED network
  BY <1>1 DEF Creating, CreateRefund, AnswerLost
<1>4. /\ process[p].pc # "estimating"
      /\ \A q \in Processes : q # p => process'[q] = process[q]
  BY <1>3 DEF IInv, TypeOK, CreateRefund, AnswerLost, Goto
<1>5. Untold' = Untold \cup {n}
  BY <1>1, <1>2 DEF Untold
<1>6. WarnedAreOverdue' /\ ToldTheNetwork'
  BY <1>1, <1>2, <1>3 DEF IInv, WarnedAreOverdue, ToldTheNetwork
<1>7. Cardinality(Untold') = Cardinality(Untold) + 1
  <2>1. n \notin Untold
    BY <1>2 DEF Untold
  <2> QED BY <1>5, <2>1, ToldMeans, FS_AddElement DEF IInv
<1>8. CASE CreateRefund(p)
  <2>1. process' = [process EXCEPT ![p] = [pc |-> "estimating", refund |-> n]]
        /\ UNCHANGED <<network, lost>>
    BY <1>8 DEF CreateRefund, Goto
  <2>2. TypeOK'
    <3>1. [pc |-> "estimating", refund |-> n] \in Estimating
      BY <1>2 DEF Estimating
    <3> QED BY <1>1, <2>1, <3>1 DEF IInv, TypeOK
  <2>3. process'[p].pc = "estimating" /\ process'[p].refund = n
    BY <2>1 DEF IInv, TypeOK
  <2>4. EstimatesPending'
    BY <1>1, <1>2, <1>4, <2>3 DEF IInv, EstimatesPending
  <2>5. CallersAreTold'
    <3>1. Estimators' = Estimators \cup {p} /\ p \notin Estimators
      BY <1>4, <2>3 DEF Estimators
    <3>2. Cardinality(Estimators') = Cardinality(Estimators) + 1
      BY <3>1, ToldMeans, FS_AddElement DEF IInv
    <3>3. ASSUME Cardinality(Untold) <= Cardinality(Estimators) + lost
          PROVE  Cardinality(Untold') <= Cardinality(Estimators') + lost'
      BY <1>7, <2>1, <3>2, <3>3, ToldMeans DEF IInv
    <3> QED BY <1>3, <3>3 DEF IInv, CallersAreTold
  <2> QED BY <1>6, <2>2, <2>4, <2>5 DEF IInv
<1>9. CASE AnswerLost(p)
  <2>1. process' = [process EXCEPT ![p] = Idle] /\ lost' = lost + 1 /\ lost < MaxLost
        /\ UNCHANGED network
    BY <1>9 DEF AnswerLost, Goto
  <2>2. TypeOK'
    <3>1. lost' \in 0 .. MaxLost
      BY <2>1, BoundAssumption DEF IInv, TypeOK
    <3> QED BY <1>1, <2>1, <3>1 DEF IInv, TypeOK
  <2>3. process'[p].pc # "estimating"
    BY <2>1 DEF IInv, TypeOK, Idle
  <2>4. EstimatesPending'
    BY <1>1, <1>2, <1>4, <2>3 DEF IInv, EstimatesPending
  <2>5. CallersAreTold'
    <3>1. Estimators' = Estimators
      BY <1>4, <2>3 DEF Estimators
    <3>2. ASSUME Cardinality(Untold) <= Cardinality(Estimators) + lost
          PROVE  Cardinality(Untold') <= Cardinality(Estimators') + lost'
      BY <1>7, <2>1, <3>1, <3>2, ToldMeans DEF IInv
    <3> QED BY <1>3, <3>2 DEF IInv, CallersAreTold
  <2> QED BY <1>6, <2>2, <2>4, <2>5 DEF IInv
<1> QED BY <1>8, <1>9

\* The caller is told, or its process dies before, or its network is null.
LEMMA LearnIInv ==
  ASSUME IInv, NEW p \in Processes, Estimate(p) \/ EstimateRaises(p) \/ Crash(p)
  PROVE  IInv'
<1> DEFINE r == process[p].refund
<1>1. /\ process[p].pc = "estimating" /\ UNCHANGED network
      /\ process' = [process EXCEPT ![p] = Idle]
  BY DEF Estimate, EstimateRaises, Crash, Goto
<1>2. r \in DOMAIN refunds /\ refunds[r].told = NotTold /\ refunds[r] \in Refund
  BY <1>1, RefundsDomain DEF IInv, EstimatesPending
<1>3. /\ process'[p].pc # "estimating"
      /\ \A q \in Processes : q # p => process'[q] = process[q]
  BY <1>1 DEF IInv, TypeOK, Idle
<1>4. \A q \in Processes : process'[q].pc = "estimating" =>
        /\ process'[q] = process[q]
        /\ q # p
        /\ process[q].refund # r
  BY <1>1, <1>3 DEF IInv, EstimatesPending
<1>5. Estimators' = Estimators \ {p} /\ p \in Estimators
  BY <1>1, <1>3 DEF Estimators
<1>6. Cardinality(Estimators') = Cardinality(Estimators) - 1
  BY <1>5, ToldMeans, FS_RemoveElement DEF IInv
<1>7. network # NoNetwork => Cardinality(Untold) <= Cardinality(Estimators) + lost
  BY DEF IInv, CallersAreTold
<1>8. CASE Estimate(p)
  <2>1. PICK n \in CardNetworks : refunds' = [refunds EXCEPT ![r].told = n]
    BY <1>8 DEF Estimate
  <2>2. UNCHANGED lost
    BY <1>8 DEF Estimate
  <2> DEFINE new == [refunds[r] EXCEPT !.told = n]
  <2>3. n # NotTold /\ new \in Refund
    <3>1. n \in Networks \cup {"unknown"}
      BY DEF CardNetworks, IInv, TypeOK
    <3>2. n # NotTold
      BY <3>1, NetworkAssumption DEF NotTold
    <3> QED BY <1>2, <3>1, <3>2 DEF Refund
  <2>4. new.told = n /\ new.age = refunds[r].age /\ new.warned = refunds[r].warned
    BY <1>2 DEF Refund
  <2>5. refunds' = [refunds EXCEPT ![r] = new]
    BY <2>1
  <2> HIDE DEF new
  <2>6. /\ refunds' \in Seq(Refund) /\ Len(refunds') = Len(refunds)
        /\ DOMAIN refunds' = DOMAIN refunds /\ refunds'[r] = new
        /\ \A k \in DOMAIN refunds : k # r => refunds'[k] = refunds[k]
    BY <1>2, <2>3, <2>5, ExceptSeq, RefundsDomain DEF IInv, TypeOK
  <2>7. TypeOK'
    BY <1>1, <2>2, <2>6 DEF IInv, TypeOK
  <2>8. EstimatesPending'
    BY <1>4, <2>6 DEF IInv, EstimatesPending
  <2>9. WarnedAreOverdue' /\ ToldTheNetwork'
    BY <1>1, <2>4, <2>6 DEF IInv, WarnedAreOverdue, ToldTheNetwork, CardNetworks
  <2>10. CallersAreTold'
    <3>1. Untold' = Untold \ {r} /\ r \in Untold
      BY <1>2, <2>3, <2>4, <2>6 DEF Untold
    <3>2. Cardinality(Untold') = Cardinality(Untold) - 1
      BY <3>1, ToldMeans, FS_RemoveElement DEF IInv
    <3>3. ASSUME Cardinality(Untold) <= Cardinality(Estimators) + lost
          PROVE  Cardinality(Untold') <= Cardinality(Estimators') + lost'
      BY <1>6, <2>2, <3>2, <3>3, ToldMeans DEF IInv
    <3> QED BY <1>1, <1>7, <3>3 DEF CallersAreTold
  <2> QED BY <2>7, <2>8, <2>9, <2>10 DEF IInv
<1>9. CASE Crash(p)
  <2>1. UNCHANGED refunds /\ lost' = lost + 1 /\ lost < MaxLost
    BY <1>9 DEF Crash
  <2>2. TypeOK'
    <3>1. lost' \in 0 .. MaxLost
      BY <2>1, BoundAssumption DEF IInv, TypeOK
    <3> QED BY <1>1, <2>1, <3>1 DEF IInv, TypeOK
  <2>3. EstimatesPending'
    BY <1>4, <2>1 DEF IInv, EstimatesPending
  <2>4. WarnedAreOverdue' /\ ToldTheNetwork'
    BY <1>1, <2>1 DEF IInv, WarnedAreOverdue, ToldTheNetwork
  <2>5. CallersAreTold'
    <3>1. Untold' = Untold
      BY <2>1 DEF Untold
    <3>2. ASSUME Cardinality(Untold) <= Cardinality(Estimators) + lost
          PROVE  Cardinality(Untold') <= Cardinality(Estimators') + lost'
      BY <1>6, <2>1, <3>1, <3>2, ToldMeans DEF IInv
    <3> QED BY <1>1, <1>7, <3>2 DEF CallersAreTold
  <2> QED BY <2>2, <2>3, <2>4, <2>5 DEF IInv
<1>10. CASE EstimateRaises(p)
  <2>1. UNCHANGED <<refunds, lost>> /\ network = NoNetwork
    BY <1>10 DEF EstimateRaises
  <2>2. TypeOK'
    BY <1>1, <2>1 DEF IInv, TypeOK
  <2>3. EstimatesPending'
    BY <1>4, <2>1 DEF IInv, EstimatesPending
  <2>4. WarnedAreOverdue' /\ ToldTheNetwork'
    BY <1>1, <2>1 DEF IInv, WarnedAreOverdue, ToldTheNetwork
  <2>5. CallersAreTold'
    BY <1>1, <2>1 DEF CallersAreTold
  <2> QED BY <2>2, <2>3, <2>4, <2>5 DEF IInv
<1> QED BY <1>8, <1>9, <1>10

\* A step of the refunds alone: none comes or goes, no caller is told, and what
\* is warned of is overdue.
LEMMA RefundsStepIInv ==
  ASSUME IInv, UNCHANGED <<network, process, lost>>,
         refunds' \in [DOMAIN refunds -> Refund],
         \A r \in DOMAIN refunds :
           /\ refunds'[r].told = refunds[r].told
           /\ refunds'[r].warned => refunds'[r].age > Window(network)
  PROVE  IInv'
<1>1. refunds' \in Seq(Refund) /\ Len(refunds') = Len(refunds)
      /\ DOMAIN refunds' = DOMAIN refunds
  <2>1. Len(refunds) \in Nat /\ DOMAIN refunds = 1 .. Len(refunds)
    BY RefundsDomain, BoundAssumption DEF IInv
  <2> QED BY <2>1
<1>2. TypeOK'
  BY <1>1 DEF IInv, TypeOK
<1>3. EstimatesPending'
  BY <1>1 DEF IInv, EstimatesPending
<1>4. WarnedAreOverdue' /\ ToldTheNetwork'
  BY <1>1 DEF IInv, WarnedAreOverdue, ToldTheNetwork
<1>5. CallersAreTold'
  <2>1. Untold' = Untold /\ Estimators' = Estimators
    BY <1>1 DEF Untold, Estimators
  <2> QED BY <2>1 DEF IInv, CallersAreTold
<1> QED BY <1>2, <1>3, <1>4, <1>5 DEF IInv

LEMMA EnvironmentIInv ==
  ASSUME IInv, Tick \/ \E r \in 1 .. MaxRefunds : CheckRefundStatus(r) \/ Settle(r)
  PROVE  IInv'
<1>1. \A r \in DOMAIN refunds : refunds[r] \in Refund
  BY RefundsDomain DEF IInv
<1>2. Window(network) \in Nat
  BY WindowType
<1>3. CASE Tick
  <2>1. ASSUME NEW r \in DOMAIN refunds
        PROVE  /\ refunds'[r] \in Refund
               /\ refunds'[r].told = refunds[r].told
               /\ refunds'[r].warned = refunds[r].warned
               /\ refunds'[r].age >= refunds[r].age
    <3>1. refunds'[r] = [refunds[r] EXCEPT !.age =
            IF @ + DaysPerTick <= MaxAge THEN @ + DaysPerTick ELSE @]
      BY <1>3 DEF Tick
    <3>2. refunds[r].age \in 0 .. MaxAge /\ MaxAge \in Nat /\ DaysPerTick \in Nat
      BY <1>1, BoundAssumption DEF Refund, MaxAge
    <3> HIDE DEF MaxAge
    <3> QED BY <1>1, <3>1, <3>2 DEF Refund
  <2>2. UNCHANGED <<network, process, lost>> /\ DOMAIN refunds' = DOMAIN refunds
    BY <1>3 DEF Tick
  <2>3. refunds' \in [DOMAIN refunds -> Refund]
    BY <1>3, <2>1 DEF Tick
  <2>4. \A r \in DOMAIN refunds : refunds'[r].warned => refunds'[r].age > Window(network)
    <3> SUFFICES ASSUME NEW r \in DOMAIN refunds, refunds'[r].warned
                 PROVE  refunds'[r].age > Window(network)
      OBVIOUS
    <3>1. refunds[r].age > Window(network)
      BY <2>1 DEF IInv, WarnedAreOverdue
    <3>2. refunds[r].age \in Int /\ refunds'[r].age \in Int
      BY <1>1, <2>1 DEF Refund
    <3> QED BY <1>2, <2>1, <3>1, <3>2
  <2> QED BY <2>1, <2>2, <2>3, <2>4, RefundsStepIInv
<1>4. ASSUME NEW r \in 1 .. MaxRefunds, CheckRefundStatus(r) \/ Settle(r)
      PROVE  IInv'
  <2>1. r \in DOMAIN refunds /\ UNCHANGED <<network, process, lost>>
    BY <1>4 DEF CheckRefundStatus, Settle
  <2>2. PICK new \in Refund :
          /\ refunds' = [refunds EXCEPT ![r] = new]
          /\ new.told = refunds[r].told
          /\ new.age = refunds[r].age
          /\ new.warned => refunds[r].warned \/ refunds[r].age > Window(network)
    <3>1. CASE CheckRefundStatus(r)
      <4> DEFINE new == [refunds[r] EXCEPT !.warned = @ \/ Overdue(refunds[r])]
      <4>1. refunds' = [refunds EXCEPT ![r] = new]
        BY <2>1, <3>1 DEF CheckRefundStatus
      <4>2. (refunds[r].warned \/ Overdue(refunds[r])) \in BOOLEAN
        OBVIOUS
      <4>3. new \in Refund
        BY <1>1, <2>1, <4>2 DEF Refund
      <4>4. /\ new.told = refunds[r].told
            /\ new.age = refunds[r].age
            /\ new.warned => refunds[r].warned \/ refunds[r].age > Window(network)
        BY <1>1, <2>1 DEF Refund, Overdue
      <4> QED BY <4>1, <4>3, <4>4
    <3>2. CASE Settle(r)
      <4>1. PICK status \in {"succeeded", "failed"} :
              refunds' = [refunds EXCEPT ![r] = [refunds[r] EXCEPT !.status = status]]
        BY <2>1, <3>2 DEF Settle
      <4> DEFINE new == [refunds[r] EXCEPT !.status = status]
      <4>2. new \in Refund
        BY <1>1, <2>1 DEF Refund
      <4>3. /\ new.told = refunds[r].told
            /\ new.age = refunds[r].age
            /\ new.warned = refunds[r].warned
        BY <1>1, <2>1 DEF Refund
      <4> QED BY <4>1, <4>2, <4>3
    <3> QED BY <1>4, <3>1, <3>2
  <2>3. refunds' \in [DOMAIN refunds -> Refund]
    BY <1>1, <2>1, <2>2
  <2>4. ASSUME NEW k \in DOMAIN refunds
        PROVE  /\ refunds'[k].told = refunds[k].told
               /\ refunds'[k].warned => refunds'[k].age > Window(network)
    <3>1. refunds'[k] = IF k = r THEN new ELSE refunds[k]
      BY <2>2
    <3> QED BY <2>2, <3>1 DEF IInv, WarnedAreOverdue
  <2> QED BY <2>1, <2>3, <2>4, RefundsStepIInv
<1> QED BY <1>3, <1>4

LEMMA RefundsInitIInv == Init => IInv
<1> SUFFICES ASSUME Init PROVE IInv
  OBVIOUS
<1>1. TypeOK
  BY BoundAssumption DEF Init, TypeOK
<1>2. EstimatesPending /\ WarnedAreOverdue /\ ToldTheNetwork
  BY DEF Init, EstimatesPending, WarnedAreOverdue, ToldTheNetwork, Idle
<1>3. CallersAreTold
  <2>1. Untold = {} /\ lost = 0
    BY DEF Init, Untold
  <2>2. Cardinality(Untold) <= Cardinality(Estimators) + lost
    BY <1>1, <2>1, ToldMeans, FS_EmptySet
  <2> QED BY <2>2 DEF CallersAreTold
<1> QED BY <1>1, <1>2, <1>3 DEF IInv

LEMMA RefundsNextIInv == IInv /\ [Next]_vars => IInv'
<1> SUFFICES ASSUME IInv, [Next]_vars PROVE IInv'
  OBVIOUS
<1>1. CASE UNCHANGED vars
  BY <1>1 DEF vars, IInv, TypeOK, EstimatesPending, CallersAreTold, Untold, Estimators,
              WarnedAreOverdue, ToldTheNetwork
<1> QED
  BY <1>1, CallerStepIInv, CreateIInv, LearnIInv, EnvironmentIInv DEF Next

LEMMA RefundsInvariance == Spec => []IInv
BY RefundsInitIInv, RefundsNextIInv, PTL DEF Spec

\* Every value of the refund processor and of Stripe has its type; in particular
\* no refund is of more than was paid, whatever was asked for and converted.
THEOREM RefundsTypeCorrect == Spec => []TypeOK
<1>1. IInv => TypeOK
  BY DEF IInv
<1> QED BY <1>1, RefundsInvariance, PTL

\* Lines 123-162: whatever callers, answers and crashes do at the same time, as
\* many refunds at most are untold as callers are about to learn of theirs and
\* answers were lost, if the network of the charge is not null.
THEOREM EveryCallerIsTold == Spec => []CallersAreTold
<1>1. IInv => CallersAreTold
  BY DEF IInv
<1> QED BY <1>1, RefundsInvariance, PTL

\* Lines 136-148 and 209-213: for any card networks and however the days pass, a
\* warning in the calendar days that the caller was told to wait needs a lookup
\* that failed, of a network with a shorter window than the default.
THEOREM EarlyWarningsAreOfFailedLookups == Spec => []EarlyWarningsNeedAFailedLookup
<1>1. IInv => EarlyWarningsNeedAFailedLookup
  <2> SUFFICES ASSUME IInv, NEW r \in DOMAIN refunds, Early(refunds[r])
               PROVE  /\ refunds[r].told = "unknown" /\ network # "unknown"
                      /\ Window(network) < Window("unknown")
    BY DEF EarlyWarningsNeedAFailedLookup
  <2>1. PICK age, told : age = refunds[r].age /\ told = refunds[r].told
    OBVIOUS
  <2>2. age \in Int
    BY <2>1, RefundsDomain DEF IInv, Refund
  <2>3. age > Window(network) /\ age <= Window(told) /\ told \in {network, "unknown"}
    BY <2>1 DEF IInv, WarnedAreOverdue, ToldTheNetwork, Early
  <2>4. told # network /\ Window(network) < Window(told)
    <3>1. Window(network) \in Int /\ Window(told) \in Int
      BY WindowType
    <3> QED BY <2>2, <2>3, <3>1
  <2> QED BY <2>1, <2>3, <2>4
<1> QED BY <1>1, RefundsInvariance, PTL

-----------------------------------------------------------------------------
(* Invoices: flattening                                                    *)

\* Induction on a set of numbers.
LEMMA SetInduction ==
  ASSUME NEW T, 0 \in T, \A n \in Nat : n \in T => n + 1 \in T
  PROVE  \A n \in Nat : n \in T
<1> SUFFICES ASSUME Nat \ T # {} PROVE FALSE
  OBVIOUS
<1>1. PICK n \in Nat \ T : \A k \in Nat \ T : n <= k
  <2> Nat \ T \subseteq Nat
    OBVIOUS
  <2> QED BY LeastNumber
<1>2. n - 1 \in Nat /\ n - 1 \in T
  BY <1>1
<1> QED BY <1>1, <1>2

LEMMA FlattenUnfolds ==
  ASSUME NEW S, NEW seqs \in Seq(Seq(S)), seqs # << >>
  PROVE  \E f \in [1 .. Len(seqs) -> Seq(S)] :
           /\ f[1] = seqs[1]
           /\ \A i \in 2 .. Len(seqs) : f[i] = f[i - 1] \o seqs[i]
           /\ FlattenSeq(seqs) = f[Len(seqs)]
<1> DEFINE D == 1 .. Len(seqs)
           Joins(f) == f = [i \in D |-> IF i = 1 THEN seqs[i] ELSE f[i - 1] \o seqs[i]]
           flatten == CHOOSE f : Joins(f)
           W == Seq(S) \cup {flatten[i] : i \in D}
           F == [iv \in D \X W |-> iv[2] \o seqs[iv[1]]]
           pred == [i \in D |-> IF i = 1 THEN 1 ELSE i - 1]
           m == [i \in D |-> i]
           b == [i \in {1} |-> seqs[1]]
<1>1. /\ Len(seqs) \in Nat \ {0} /\ 1 \in D /\ Len(seqs) \in D
      /\ \A i \in D : seqs[i] \in Seq(S)
  BY EmptySeq, ElementOfSeq
<1>2. \A i \in D : m[i] \in Nat
  OBVIOUS
<1>3. \A i \in D \ {1} : pred[i] \in D /\ pred[i] = i - 1 /\ m[pred[i]] < m[i]
  OBVIOUS
<1>4. \A i \in D \cap {1} : b[i] \in Seq(S) /\ b[i] = seqs[1]
  BY <1>1
<1>5. \A i \in D, v \in W : F[<<i, v>>] = v \o seqs[i]
  OBVIOUS
<1>6. Seq(S) \subseteq W /\ \A i \in D : flatten[i] \in W
  OBVIOUS
<1> HIDE DEF D, F, W, pred, m, b
<1>7. \A i \in D \ {1}, v \in Seq(S) : F[<<i, v>>] \in Seq(S)
  <2> SUFFICES ASSUME NEW i \in D, NEW v \in Seq(S) PROVE v \o seqs[i] \in Seq(S)
    BY <1>5, <1>6
  <2> QED BY <1>1, ConcatProperties
<1>8. PICK g \in [D -> Seq(S)] : Solves(g, D, {1}, b, F, pred)
  BY <1>2, <1>3, <1>4, <1>7, RecursionExists
<1>9. ASSUME NEW i \in D
      PROVE  g[i] = IF i = 1 THEN seqs[i] ELSE g[i - 1] \o seqs[i]
  <2>1. CASE i = 1
    BY <1>4, <1>8, <2>1 DEF Solves
  <2>2. CASE i # 1
    <3>1. i - 1 \in D /\ g[i - 1] \in W
      BY <1>3, <1>6, <1>8, <2>2
    <3>2. g[i] = F[<<i, g[i - 1]>>]
      BY <1>3, <1>8, <2>2 DEF Solves
    <3> QED BY <1>5, <2>2, <3>1, <3>2
  <2> QED BY <2>1, <2>2
<1>10. Joins(g)
  BY <1>9
<1>11. Joins(flatten)
  BY <1>10
<1>12. FlattenSeq(seqs) = flatten[Len(seqs)]
  BY <1>1 DEF FlattenSeq, D
<1> HIDE DEF flatten
<1>13. \A i \in D : flatten[i] = IF i = 1 THEN seqs[i] ELSE flatten[i - 1] \o seqs[i]
  BY <1>11
<1>14. Solves(flatten, D, {1}, b, F, pred)
  <2> SUFFICES ASSUME NEW i \in D
               PROVE  flatten[i] = IF i \in {1} THEN b[i] ELSE F[<<i, flatten[pred[i]]>>]
    BY DEF Solves
  <2>1. CASE i = 1
    BY <1>4, <1>13, <2>1
  <2>2. CASE i # 1
    <3>1. i - 1 \in D /\ flatten[i - 1] \in W /\ pred[i] = i - 1
      BY <1>3, <1>6, <2>2
    <3>2. F[<<i, flatten[i - 1]>>] = flatten[i - 1] \o seqs[i]
      BY <1>5, <3>1
    <3> QED BY <1>13, <2>2, <3>1, <3>2
  <2> QED BY <2>1, <2>2
<1>15. \A i \in D : flatten[i] = g[i]
  BY <1>2, <1>3, <1>8, <1>14, RecursionUnique
<1>16. FlattenSeq(seqs) = g[Len(seqs)]
  BY <1>1, <1>12, <1>15
<1>17. \A i \in 2 .. Len(seqs) : i \in D /\ i # 1
  BY DEF D
<1> QED BY <1>1, <1>8, <1>9, <1>16, <1>17 DEF D

LEMMA FlattenType ==
  ASSUME NEW S, NEW seqs \in Seq(Seq(S))
  PROVE  FlattenSeq(seqs) \in Seq(S)
<1>1. CASE seqs = << >>
  BY <1>1, EmptySeq DEF FlattenSeq
<1>2. CASE seqs # << >>
  <2>1. Len(seqs) \in 1 .. Len(seqs)
    BY <1>2, EmptySeq
  <2>2. PICK f \in [1 .. Len(seqs) -> Seq(S)] : FlattenSeq(seqs) = f[Len(seqs)]
    BY <1>2, FlattenUnfolds
  <2> QED BY <2>1, <2>2
<1> QED BY <1>1, <1>2

LEMMA FlattenAppend ==
  ASSUME NEW S, NEW seqs \in Seq(Seq(S)), NEW x \in Seq(S)
  PROVE  FlattenSeq(Append(seqs, x)) = FlattenSeq(seqs) \o x
<1> DEFINE n == Len(seqs)
           more == Append(seqs, x)
<1>1. /\ n \in Nat /\ more \in Seq(Seq(S)) /\ Len(more) = n + 1 /\ more # << >>
      /\ \A i \in 1 .. n : more[i] = seqs[i]
      /\ more[n + 1] = x
  <2>1. more \in Seq(Seq(S)) /\ Len(more) = n + 1 /\ n \in Nat
    OBVIOUS
  <2>2. more # << >>
    <3>1. Len(<< >>) = 0
      OBVIOUS
    <3> HIDE DEF more
    <3> QED BY <2>1, <3>1
  <2> QED BY <2>1, <2>2
<1> HIDE DEF more
<1>2. PICK f \in [1 .. n + 1 -> Seq(S)] :
        /\ f[1] = more[1]
        /\ \A i \in 2 .. n + 1 : f[i] = f[i - 1] \o more[i]
        /\ FlattenSeq(more) = f[n + 1]
  <2>1. \E f \in [1 .. Len(more) -> Seq(S)] :
          /\ f[1] = more[1]
          /\ \A i \in 2 .. Len(more) : f[i] = f[i - 1] \o more[i]
          /\ FlattenSeq(more) = f[Len(more)]
    BY <1>1, FlattenUnfolds
  <2>2. Len(more) = n + 1
    BY <1>1
  <2> HIDE DEF n
  <2> QED BY <2>1, <2>2
<1>3. CASE n = 0
  <2>1. seqs = << >>
    BY <1>3, EmptySeq
  <2>2. FlattenSeq(seqs) = << >>
    BY <2>1, EmptySeq DEF FlattenSeq
  <2>3. FlattenSeq(more) = x
    BY <1>1, <1>2, <1>3
  <2> QED BY <2>2, <2>3, ConcatEmptySeq DEF more
<1>4. CASE n # 0
  <2>1. PICK g \in [1 .. n -> Seq(S)] :
          /\ g[1] = seqs[1]
          /\ \A i \in 2 .. n : g[i] = g[i - 1] \o seqs[i]
          /\ FlattenSeq(seqs) = g[n]
    <3>1. seqs # << >>
      BY <1>4, EmptySeq
    <3> QED BY <3>1, FlattenUnfolds
  <2> DEFINE T == {i \in Nat : i \in 1 .. n => f[i] = g[i]}
  <2>2. 0 \in T
    OBVIOUS
  <2>3. ASSUME NEW i \in Nat, i \in T PROVE i + 1 \in T
    <3>1. CASE i = 0
      BY <1>1, <1>2, <2>1, <3>1
    <3>2. CASE i # 0 /\ i + 1 \in 1 .. n
      <4>1. i + 1 \in 2 .. n /\ i + 1 \in 2 .. n + 1 /\ i \in 1 .. n /\ (i + 1) - 1 = i
        BY <1>1, <3>2
      <4>2. f[i + 1] = f[i] \o more[i + 1] /\ g[i + 1] = g[i] \o seqs[i + 1]
        BY <1>2, <2>1, <4>1
      <4>3. f[i] = g[i] /\ more[i + 1] = seqs[i + 1]
        BY <1>1, <2>3, <3>2, <4>1
      <4>4. f[i + 1] = g[i + 1]
        BY <4>2, <4>3
      <4> QED BY <4>4
    <3> QED BY <3>1, <3>2
  <2> HIDE DEF T
  <2>4. \A i \in Nat : i \in T
    BY <2>2, <2>3, SetInduction
  <2>5. f[n] = g[n]
    <3>1. n \in Nat /\ n \in 1 .. n /\ n \in T
      BY <1>1, <1>4, <2>4
    <3> QED BY <3>1 DEF T
  <2>6. f[n + 1] = f[n] \o x
    <3>1. n + 1 \in 2 .. n + 1 /\ (n + 1) - 1 = n
      BY <1>1, <1>4
    <3> QED BY <1>1, <1>2, <3>1
  <2> QED BY <1>2, <2>1, <2>5, <2>6 DEF more
<1> QED BY <1>3, <1>4

\* A text cut into its characters and put together again.
LEMMA FlattenSingletons ==
  ASSUME NEW S, NEW t \in Seq(S)
  PROVE  FlattenSeq([i \in DOMAIN t |-> <<t[i]>>]) = t
<1> DEFINE n == Len(t)
           seqs == [i \in DOMAIN t |-> <<t[i]>>]
<1>1. n \in Nat /\ DOMAIN t = 1 .. n /\ \A i \in 1 .. n : t[i] \in S
  BY ElementOfSeq
<1>2. /\ seqs \in Seq(Seq(S)) /\ Len(seqs) = n
      /\ \A i \in 1 .. n : seqs[i] = <<t[i]>>
  <2>1. seqs \in [1 .. n -> Seq(S)]
    BY <1>1
  <2> HIDE DEF seqs
  <2>2. seqs \in Seq(Seq(S)) /\ Len(seqs) = n
    BY <1>1, <2>1
  <2> QED BY <1>1, <2>2 DEF seqs
<1> HIDE DEF seqs
<1>3. CASE n = 0
  <2>1. t = << >> /\ seqs = << >>
    BY <1>2, <1>3, EmptySeq
  <2> QED BY <2>1, EmptySeq DEF FlattenSeq, seqs
<1>4. CASE n # 0
  <2>1. PICK f \in [1 .. n -> Seq(S)] :
          /\ f[1] = seqs[1]
          /\ \A i \in 2 .. n : f[i] = f[i - 1] \o seqs[i]
          /\ FlattenSeq(seqs) = f[n]
    <3>1. seqs # << >>
      BY <1>2, <1>4, EmptySeq
    <3>2. \E f \in [1 .. Len(seqs) -> Seq(S)] :
          /\ f[1] = seqs[1]
          /\ \A i \in 2 .. Len(seqs) : f[i] = f[i - 1] \o seqs[i]
          /\ FlattenSeq(seqs) = f[Len(seqs)]
      BY <1>2, <3>1, FlattenUnfolds
    <3>3. Len(seqs) = n
      BY <1>2
    <3> HIDE DEF n
    <3> QED BY <3>2, <3>3
  <2> DEFINE T == {i \in Nat : i \in 1 .. n => f[i] = SubSeq(t, 1, i)}
  <2>2. 0 \in T
    OBVIOUS
  <2>3. ASSUME NEW i \in Nat, i \in T PROVE i + 1 \in T
    <3> SUFFICES ASSUME i + 1 \in 1 .. n PROVE f[i + 1] = SubSeq(t, 1, i + 1)
      OBVIOUS
    <3>1. SubSeq(t, 1, i + 1) = SubSeq(t, 1, i) \o <<t[i + 1]>>
      <4>1. 1 \in 1 .. Len(t) /\ i + 1 \in 1 .. Len(t) /\ (i + 1) - 1 = i
        BY <1>1
      <4> QED BY <4>1, SubSeqRecursiveSecond
    <3>2. CASE i = 0
      <4>1. SubSeq(t, 1, 0) = << >>
        BY SubSeqEmpty
      <4>2. << >> \o <<t[1]>> = <<t[1]>>
        BY <1>1, <1>4, ConcatEmptySeq
      <4> QED BY <1>1, <1>2, <1>4, <2>1, <3>1, <3>2, <4>1, <4>2
    <3>3. CASE i # 0
      <4>1. i \in 1 .. n /\ i + 1 \in 2 .. n /\ (i + 1) - 1 = i
        BY <1>1, <3>3
      <4>2. f[i + 1] = f[i] \o <<t[i + 1]>>
        BY <1>2, <2>1, <4>1
      <4> QED BY <2>3, <3>1, <4>1, <4>2
    <3> QED BY <3>2, <3>3
  <2> HIDE DEF T
  <2>4. \A i \in Nat : i \in T
    BY <2>2, <2>3, SetInduction
  <2>5. f[n] = SubSeq(t, 1, n)
    BY <1>1, <1>4, <2>4 DEF T
  <2> QED BY <2>1, <2>5, SubSeqFull DEF seqs
<1> QED BY <1>3, <1>4

-----------------------------------------------------------------------------
(* Invoices: text                                                          *)

Characters == Ascii \cup {"accented", "mark", "dash"}

LEMMA TextMeans ==
  /\ Text = Seq(Characters) /\ Ascii \subseteq Characters
  /\ \A t \in Seq(Ascii) : t \in Text /\ IsAscii(t)
<1>1. Text = Seq(Characters)
  BY DEF Text, Characters
<1>2. Ascii \subseteq Characters
  BY DEF Characters
<1>3. ASSUME NEW t \in Seq(Ascii) PROVE t \in Seq(Characters) /\ IsAscii(t)
  BY <1>2, SeqMonotonic, ElementOfSeq DEF IsAscii
<1> QED BY <1>1, <1>2, <1>3

LEMMA NormalizedType ==
  ASSUME NEW t \in Text PROVE Normalized(t) \in Text
<1> DEFINE seqs == [i \in DOMAIN t |-> IF t[i] = "accented" THEN <<"letter", "mark">>
                                      ELSE <<t[i]>>]
<1>1. /\ Len(t) \in Nat /\ DOMAIN t = 1 .. Len(t)
      /\ \A i \in 1 .. Len(t) : t[i] \in Characters
  BY TextMeans, ElementOfSeq
<1>2. "letter" \in Characters /\ "mark" \in Characters
  BY DEF Characters, Ascii
<1>3. seqs \in [1 .. Len(t) -> Seq(Characters)]
  BY <1>1, <1>2
<1>4. Normalized(t) = FlattenSeq(seqs)
  BY DEF Normalized
<1> HIDE DEF seqs
<1>5. seqs \in Seq(Seq(Characters))
  BY <1>1, <1>3
<1> QED BY <1>4, <1>5, FlattenType, TextMeans

\* Lines 233-241: what _strip_to_ascii returns is ASCII, of any text.
LEMMA StrippedIsAscii ==
  ASSUME NEW t \in Text
  PROVE  StripToAscii(t) \in Seq(Ascii)
<1> DEFINE u == Normalized(t)
<1>1. u \in Seq(Characters)
  BY NormalizedType, TextMeans
<1>2. Len(u) \in Nat /\ DOMAIN u = 1 .. Len(u)
  BY <1>1
<1>3. StripToAscii(t) \in [1 .. Len(u) -> Ascii]
  <2>1. "question" \in Ascii
    BY DEF Ascii
  <2>2. StripToAscii(t) = [i \in 1 .. Len(u) |-> IF u[i] \in Ascii THEN u[i] ELSE "question"]
    BY <1>2 DEF StripToAscii
  <2> HIDE DEF u
  <2> QED BY <2>1, <2>2
<1> QED BY <1>2, <1>3

\* ASCII is left as it is, so stripping twice is stripping once.
LEMMA AsciiIsKept ==
  ASSUME NEW t \in Seq(Ascii)
  PROVE  StripToAscii(t) = t
<1>1. \A i \in DOMAIN t : t[i] \in Ascii
  BY ElementOfSeq
<1>2. [i \in DOMAIN t |-> IF t[i] = "accented" THEN <<"letter", "mark">> ELSE <<t[i]>>]
        = [i \in DOMAIN t |-> <<t[i]>>]
  <2>1. "accented" \notin Ascii
    BY DEF Ascii
  <2> QED BY <1>1, <2>1
<1>3. Normalized(t) = t
  BY <1>2, FlattenSingletons DEF Normalized
<1>4. StripToAscii(t) = [i \in DOMAIN t |-> IF t[i] \in Ascii THEN t[i] ELSE "question"]
  BY <1>3 DEF StripToAscii
<1> QED BY <1>1, <1>4

-----------------------------------------------------------------------------
(* Invoices: digits                                                        *)

Digit == 0 .. 9

\* How ReadBack takes a sequence of digits.
Value(digits) == FoldLeft(LAMBDA n, d : 10 * n + d, 0, digits)

LEMMA ValueUnfolds ==
  ASSUME NEW digits \in Seq(Digit)
  PROVE  \E f \in [0 .. Len(digits) -> Nat] :
           /\ f[0] = 0
           /\ \A i \in 1 .. Len(digits) : f[i] = 10 * f[i - 1] + digits[i]
           /\ Value(digits) = f[Len(digits)]
<1> DEFINE N == Len(digits)
           D == SUBSET (1 .. N)
           Reads(f) == f = [s \in D |-> IF s = {} THEN 0
                                        ELSE 10 * f[s \ {Max(s)}] + digits[Max(s)]]
           iter == CHOOSE f : Reads(f)
           W == Nat \cup {iter[s] : s \in D}
           F == [sv \in D \X W |-> 10 * sv[2] + digits[Max(sv[1])]]
           pred == [s \in D |-> s \ {Max(s)}]
           m == [s \in D |-> Cardinality(s)]
           b == [s \in {{}} |-> 0]
<1>1. /\ N \in Nat /\ DOMAIN digits = 1 .. N
      /\ \A i \in 1 .. N : digits[i] \in Digit /\ digits[i] \in Nat
  BY ElementOfSeq DEF Digit
<1>2. \A s \in D : IsFiniteSet(s) /\ Cardinality(s) \in Nat
  <2>1. IsFiniteSet(1 .. N)
    BY <1>1, FS_Interval
  <2> QED BY <2>1, FS_Subset, FS_CardinalityType
<1>3. \A s \in D \ {{}} : Max(s) \in s
  <2> SUFFICES ASSUME NEW s \in D, s # {} PROVE \E x \in s : \A y \in s : x >= y
    BY DEF Max
  <2> DEFINE T == {N - x : x \in s}
  <2>1. T \subseteq Nat /\ T # {}
    <3>1. \A x \in s : x \in 1 .. N
      OBVIOUS
    <3> HIDE DEF N
    <3>2. \A x \in 1 .. N : N - x \in Nat
      BY <1>1
    <3> QED BY <3>1, <3>2
  <2>2. PICK t \in T : \A k \in T : t <= k
    <3> HIDE DEF T
    <3> QED BY <2>1, LeastNumber
  <2>3. PICK x \in s : t = N - x
    OBVIOUS
  <2>4. ASSUME NEW y \in s PROVE x >= y
    <3>1. N - y \in T
      OBVIOUS
    <3>2. N - x <= N - y
      BY <2>2, <2>3, <3>1
    <3>3. x \in 1 .. N /\ y \in 1 .. N
      OBVIOUS
    <3> HIDE DEF N
    <3> QED BY <1>1, <3>2, <3>3
  <2> QED BY <2>4
<1>4. \A s \in D \ {{}} : /\ pred[s] \in D /\ pred[s] = s \ {Max(s)} /\ m[pred[s]] < m[s]
                          /\ digits[Max(s)] \in Nat
  <2> SUFFICES ASSUME NEW s \in D \ {{}}
               PROVE  Cardinality(s \ {Max(s)}) < Cardinality(s)
    BY <1>1, <1>3
  <2>1. Max(s) \in s /\ IsFiniteSet(s) /\ Cardinality(s) \in Nat
    BY <1>2, <1>3
  <2>2. Cardinality(s \ {Max(s)}) = Cardinality(s) - 1
    BY <2>1, FS_RemoveElement
  <2> QED BY <2>1, <2>2
<1>5. \A s \in D : m[s] \in Nat
  BY <1>2
<1>6. \A s \in D \cap {{}} : b[s] = 0 /\ b[s] \in Nat
  OBVIOUS
<1>7. \A s \in D, v \in W : F[<<s, v>>] = 10 * v + digits[Max(s)]
  OBVIOUS
<1>8. Nat \subseteq W /\ \A s \in D : iter[s] \in W
  OBVIOUS
<1> HIDE DEF F, W, pred, m, b
<1>9. ASSUME NEW s \in D \ {{}}, NEW v \in Nat PROVE F[<<s, v>>] \in Nat
  <2>1. digits[Max(s)] \in Nat /\ v \in W
    BY <1>4, <1>8
  <2>2. F[<<s, v>>] = 10 * v + digits[Max(s)]
    BY <1>7, <2>1
  <2> QED BY <2>1, <2>2
<1>10. PICK g \in [D -> Nat] : Solves(g, D, {{}}, b, F, pred)
  <2> HIDE DEF D
  <2> QED BY <1>4, <1>5, <1>6, <1>9, RecursionExists
<1>11. ASSUME NEW s \in D
       PROVE  g[s] = IF s = {} THEN 0 ELSE 10 * g[s \ {Max(s)}] + digits[Max(s)]
  <2>1. CASE s = {}
    BY <1>6, <1>10, <2>1 DEF Solves
  <2>2. CASE s # {}
    <3>1. g[pred[s]] \in W /\ pred[s] = s \ {Max(s)}
      BY <1>4, <1>8, <1>10, <2>2
    <3>2. g[s] = F[<<s, g[pred[s]]>>]
      BY <1>10, <2>2 DEF Solves
    <3> QED BY <1>7, <2>2, <3>1, <3>2
  <2> QED BY <2>1, <2>2
<1>12. Reads(g)
  BY <1>11
<1>13. Reads(iter)
  BY <1>12
<1>14. Value(digits) = iter[1 .. N]
  BY <1>1 DEF Value, FoldLeft, MapThenFoldSet
<1> HIDE DEF iter
<1>15. \A s \in D : iter[s] = IF s = {} THEN 0 ELSE 10 * iter[s \ {Max(s)}] + digits[Max(s)]
  BY <1>13
<1>16. Solves(iter, D, {{}}, b, F, pred)
  <2> SUFFICES ASSUME NEW s \in D
               PROVE  iter[s] = IF s \in {{}} THEN b[s] ELSE F[<<s, iter[pred[s]]>>]
    BY DEF Solves
  <2>1. CASE s = {}
    BY <1>6, <1>15, <2>1
  <2>2. CASE s # {}
    <3>1. iter[pred[s]] \in W /\ pred[s] = s \ {Max(s)}
      BY <1>4, <1>8, <2>2
    <3>2. F[<<s, iter[pred[s]]>>] = 10 * iter[pred[s]] + digits[Max(s)]
      BY <1>7, <3>1
    <3> QED BY <1>15, <2>2, <3>1, <3>2
  <2> QED BY <2>1, <2>2
<1>17. \A s \in D : iter[s] = g[s]
  <2> HIDE DEF D
  <2> QED BY <1>4, <1>5, <1>10, <1>16, RecursionUnique
<1> DEFINE f == [i \in 0 .. N |-> g[1 .. i]]
<1>18. f \in [0 .. N -> Nat] /\ f[0] = 0 /\ Value(digits) = f[N]
  <2>1. \A i \in 0 .. N : 1 .. i \in D
    BY <1>1
  <2>2. 1 .. 0 = {} /\ 1 .. N \in D
    OBVIOUS
  <2>3. g[1 .. 0] = 0
    BY <1>11, <2>2
  <2> QED BY <1>1, <1>10, <1>14, <1>17, <2>1, <2>2, <2>3
<1>19. ASSUME NEW i \in 1 .. N PROVE f[i] = 10 * f[i - 1] + digits[i]
  <2>1. 1 .. i \in D /\ 1 .. i # {} /\ i \in Nat /\ i - 1 \in 0 .. N /\ i \in 0 .. N
    BY <1>1
  <2>2. Max(1 .. i) = i
    BY <2>1 DEF Max
  <2>3. (1 .. i) \ {i} = 1 .. (i - 1)
    BY <2>1
  <2> QED BY <1>11, <2>1, <2>2, <2>3
<1> QED BY <1>18, <1>19

LEMMA ValueAppend ==
  ASSUME NEW s \in Seq(Digit), NEW d \in Digit
  PROVE  Value(s) \in Nat /\ Value(Append(s, d)) = 10 * Value(s) + d
<1> DEFINE n == Len(s)
           more == Append(s, d)
<1>1. /\ n \in Nat /\ more \in Seq(Digit) /\ Len(more) = n + 1
      /\ \A i \in 1 .. n : more[i] = s[i]
      /\ more[n + 1] = d
  OBVIOUS
<1>2. PICK g \in [0 .. n -> Nat] :
        /\ g[0] = 0
        /\ \A i \in 1 .. n : g[i] = 10 * g[i - 1] + s[i]
        /\ Value(s) = g[n]
  BY ValueUnfolds
<1> HIDE DEF more
<1>3. PICK f \in [0 .. n + 1 -> Nat] :
        /\ f[0] = 0
        /\ \A i \in 1 .. n + 1 : f[i] = 10 * f[i - 1] + more[i]
        /\ Value(more) = f[n + 1]
  <2>1. \E f \in [0 .. Len(more) -> Nat] :
          /\ f[0] = 0
          /\ \A i \in 1 .. Len(more) : f[i] = 10 * f[i - 1] + more[i]
          /\ Value(more) = f[Len(more)]
    BY <1>1, ValueUnfolds
  <2>2. Len(more) = n + 1
    BY <1>1
  <2> HIDE DEF n
  <2> QED BY <2>1, <2>2
<1> DEFINE T == {i \in Nat : i \in 0 .. n => f[i] = g[i]}
<1>4. 0 \in T
  BY <1>2, <1>3
<1>5. ASSUME NEW i \in Nat, i \in T PROVE i + 1 \in T
  <2> SUFFICES ASSUME i + 1 \in 0 .. n PROVE f[i + 1] = g[i + 1]
    OBVIOUS
  <2>1. i + 1 \in 1 .. n /\ i + 1 \in 1 .. n + 1 /\ i \in 0 .. n /\ (i + 1) - 1 = i
    BY <1>1
  <2>2. f[i + 1] = 10 * f[i] + more[i + 1] /\ g[i + 1] = 10 * g[i] + s[i + 1]
    BY <1>2, <1>3, <2>1
  <2>3. f[i] = g[i] /\ more[i + 1] = s[i + 1]
    BY <1>1, <1>5, <2>1
  <2> QED BY <2>2, <2>3
<1> HIDE DEF T
<1>6. \A i \in Nat : i \in T
  BY <1>4, <1>5, SetInduction
<1>7. f[n] = g[n] /\ g[n] \in Nat
  BY <1>1, <1>2, <1>6 DEF T
<1>8. f[n + 1] = 10 * f[n] + d
  <2>1. n + 1 \in 1 .. n + 1 /\ (n + 1) - 1 = n
    BY <1>1
  <2> QED BY <1>1, <1>3, <2>1
<1> QED BY <1>2, <1>3, <1>7, <1>8 DEF more

LEMMA ValueOfNothing == Value(<< >>) = 0
<1>1. << >> \in Seq(Digit) /\ Len(<< >>) = 0
  BY EmptySeq
<1> QED BY <1>1, ValueUnfolds

\* Two or three more digits.
LEMMA ValueAppendMore ==
  ASSUME NEW s \in Seq(Digit), NEW x \in Digit, NEW y \in Digit, NEW z \in Digit
  PROVE  /\ Value(Append(Append(s, x), y)) = 100 * Value(s) + 10 * x + y
         /\ Value(Append(Append(Append(s, x), y), z)) = 1000 * Value(s) + 100 * x + 10 * y + z
<1> DEFINE v == Value(s)
           v1 == Value(Append(s, x))
           v2 == Value(Append(Append(s, x), y))
           v3 == Value(Append(Append(Append(s, x), y), z))
<1>1. Append(s, x) \in Seq(Digit) /\ Append(Append(s, x), y) \in Seq(Digit)
  OBVIOUS
<1>2. v \in Int /\ v1 = 10 * v + x
  BY ValueAppend
<1>3. v2 = 10 * v1 + y /\ v3 = 10 * v2 + z
  BY <1>1, ValueAppend
<1>4. x \in Int /\ y \in Int /\ z \in Int
  BY DEF Digit
<1> HIDE DEF v, v1, v2, v3
<1>5. v2 = 100 * v + 10 * x + y /\ v3 = 1000 * v + 100 * x + 10 * y + z
  BY <1>2, <1>3, <1>4
<1> QED BY <1>5 DEF v, v2, v3

\* What one group may hold, and a number taken apart at its last group.
Small == 0 .. 999
Thousands(q, r) == 1000 * q + r

\* One group.
LEMMA GroupValues ==
  ASSUME NEW n \in Small
  PROVE  /\ Unpadded(n) \in Seq(Digit) /\ Value(Unpadded(n)) = n
         /\ ThreeDigits(n) \in Seq(Digit)
         /\ \A s \in Seq(Digit) : Value(s \o ThreeDigits(n)) = Thousands(Value(s), n)
<1> USE DEF Small
<1>1. PICK x \in Digit, y \in Digit, z \in Digit :
        x = n \div 100 /\ y = (n \div 10) % 10 /\ z = n % 10
  BY DEF Digit
<1>2. PICK t \in Nat : t = n \div 10
  OBVIOUS
<1>3. PICK none \in Seq(Digit) : none = << >> /\ Value(none) = 0
  BY EmptySeq, ValueOfNothing
<1>4. Unpadded(n) = IF n < 10 THEN <<n>> ELSE IF n < 100 THEN <<t, z>> ELSE <<x, y, z>>
  BY <1>1, <1>2 DEF Unpadded
<1>5. ThreeDigits(n) = <<x, y, z>>
  BY <1>1 DEF ThreeDigits
<1>6. n = 100 * x + 10 * y + z
  BY <1>1
<1>7. n < 100 => t \in Digit /\ n = 10 * t + z
  BY <1>1, <1>2 DEF Digit
<1>8. Unpadded(n) \in Seq(Digit) /\ ThreeDigits(n) \in Seq(Digit)
  <2>1. n < 10 => n \in Digit
    BY DEF Digit
  <2>2. ThreeDigits(n) \in Seq(Digit)
    BY <1>5
  <2>3. n >= 100 => Unpadded(n) \in Seq(Digit)
    BY <1>4, <1>5, <2>2
  <2>4. n < 10 => Unpadded(n) \in Seq(Digit)
    BY <1>4, <2>1
  <2>5. n >= 10 /\ n < 100 => Unpadded(n) \in Seq(Digit)
    BY <1>7, <1>4
  <2> QED BY <2>2, <2>3, <2>4, <2>5
<1>9. Value(Unpadded(n)) = n
  <2>1. CASE n < 10
    <3>1. n \in Digit /\ Unpadded(n) = Append(none, n)
      BY <1>3, <1>4, <2>1 DEF Digit
    <3>2. Value(Append(none, n)) = 10 * Value(none) + n
      BY <3>1, ValueAppend
    <3> QED BY <3>1, <3>2, <1>3
  <2>2. CASE n >= 10 /\ n < 100
    <3>1. Unpadded(n) = <<t, z>> /\ t \in Digit /\ n = 10 * t + z
      BY <1>4, <1>7, <2>2
    <3>2. <<t, z>> = Append(Append(none, t), z)
      BY <1>3
    <3>3. Value(Append(Append(none, t), z)) = 100 * Value(none) + 10 * t + z
      BY <3>1, ValueAppendMore
    <3>4. t \in Int /\ z \in Int /\ n = 10 * t + z
      BY <1>7, <2>2 DEF Digit
    <3> DEFINE v0 == Value(none)
               v == Value(Append(Append(none, t), z))
    <3>5. v0 = 0 /\ v = 100 * v0 + 10 * t + z
      BY <1>3, <3>3
    <3>6. Value(Unpadded(n)) = v
      BY <3>1, <3>2
    <3> HIDE DEF v0, v
    <3> QED BY <3>4, <3>5, <3>6
  <2>3. CASE n >= 100
    <3>1. Unpadded(n) = <<x, y, z>>
      BY <1>4, <2>3
    <3>2. <<x, y, z>> = Append(Append(Append(none, x), y), z)
      BY <1>3
    <3>3. Value(Append(Append(Append(none, x), y), z))
            = 1000 * Value(none) + 100 * x + 10 * y + z
      BY ValueAppendMore
    <3>4. x \in Int /\ y \in Int /\ z \in Int
      BY DEF Digit
    <3> DEFINE v0 == Value(none)
               v == Value(Append(Append(Append(none, x), y), z))
    <3>5. v0 = 0 /\ v = 1000 * v0 + 100 * x + 10 * y + z
      BY <1>3, <3>3
    <3>6. Value(Unpadded(n)) = v
      BY <3>1, <3>2
    <3> HIDE DEF v0, v
    <3> QED BY <1>6, <3>4, <3>5, <3>6
  <2> QED BY <2>1, <2>2, <2>3
<1>10. ASSUME NEW s \in Seq(Digit)
      PROVE  Value(s \o ThreeDigits(n)) = Thousands(Value(s), n)
  <2>1. s \o ThreeDigits(n) = Append(Append(Append(s, x), y), z)
    BY <1>5
  <2>2. Value(Append(Append(Append(s, x), y), z)) = 1000 * Value(s) + 100 * x + 10 * y + z
    BY ValueAppendMore
  <2>3. x \in Int /\ y \in Int /\ z \in Int /\ Value(s) \in Int
    BY ValueAppend DEF Digit
  <2> DEFINE v == Value(s)
  <2>4. 1000 * v + 100 * x + 10 * y + z = 1000 * v + n
    <3> HIDE DEF v
    <3> QED BY <1>6, <2>3 DEF v
  <2> QED BY <2>1, <2>2, <2>4 DEF Thousands
<1> QED BY <1>8, <1>9, <1>10

-----------------------------------------------------------------------------
(* Invoices: groups of three digits                                        *)

LEMMA GroupsUnfold ==
  /\ \A n \in Nat : groups[n] \in Seq(Seq(Digit))
  /\ \A n \in Small : groups[n] = <<Unpadded(n)>>
  /\ \A n \in Nat \ Small :
       \E q \in Nat, r \in Small :
         /\ n = Thousands(q, r)
         /\ groups[n] = Append(groups[q], ThreeDigits(r))
<1> DEFINE V == Seq(Seq(Digit))
           Low(n) == n < 1000
           First(n) == <<Unpadded(n)>>
           Rest(n) == n \div 1000
           Lowest(n) == n % 1000
           Splits(f) == f = [n \in Nat |-> IF Low(n) THEN First(n)
                                           ELSE Append(f[Rest(n)], ThreeDigits(Lowest(n)))]
           splits == CHOOSE f : Splits(f)
           B == {n \in Nat : Low(n)}
           b == [n \in B |-> First(n)]
           pred == [n \in Nat |-> Rest(n)]
           m == [n \in Nat |-> n]
           W == V \cup {splits[n] : n \in Nat}
           F == [nv \in Nat \X W |-> Append(nv[2], ThreeDigits(Lowest(nv[1])))]
<1>1. groups = splits
  BY DEF groups
<1>2. \A n \in Nat : ~Low(n) => Rest(n) \in Nat /\ Rest(n) < n
  OBVIOUS
<1>3. \A n \in Nat : Lowest(n) \in Small /\ n = Thousands(Rest(n), Lowest(n))
  BY DEF Small, Thousands
<1>4. \A n \in Nat : Low(n) <=> n \in Small
  BY DEF Small
<1>5. ASSUME NEW n \in Nat, Low(n) PROVE First(n) \in V /\ First(n) = <<Unpadded(n)>>
  <2>1. Unpadded(n) \in Seq(Digit)
    BY <1>4, <1>5, GroupValues
  <2> QED BY <2>1
<1> HIDE DEF Low, First, Rest, Lowest
<1>6. \A n \in Nat : ThreeDigits(Lowest(n)) \in Seq(Digit)
  BY <1>3, GroupValues
<1>7. /\ \A n \in Nat : m[n] = n /\ m[n] \in Nat /\ (n \in B <=> Low(n))
      /\ \A n \in Nat \ B : pred[n] = Rest(n) /\ pred[n] \in Nat /\ m[pred[n]] < m[n]
      /\ \A n \in Nat \cap B : b[n] = First(n) /\ b[n] \in V
  <2>1. \A n \in Nat : m[n] = n /\ m[n] \in Nat /\ (n \in B <=> Low(n))
    OBVIOUS
  <2>2. \A n \in Nat \ B : pred[n] = Rest(n) /\ pred[n] \in Nat /\ m[pred[n]] < m[n]
    BY <1>2
  <2>3. \A n \in Nat \cap B : b[n] = First(n) /\ b[n] \in V
    BY <1>5
  <2> QED BY <2>1, <2>2, <2>3
<1>8. \A n \in Nat, v \in W : F[<<n, v>>] = Append(v, ThreeDigits(Lowest(n)))
  OBVIOUS
<1>9. V \subseteq W /\ \A n \in Nat : splits[n] \in W
  OBVIOUS
<1> HIDE DEF F, W, pred, m, b, B
<1>10. \A n \in Nat \ B, v \in V : F[<<n, v>>] \in V
  <2> SUFFICES ASSUME NEW n \in Nat, NEW v \in V
               PROVE  Append(v, ThreeDigits(Lowest(n))) \in V
    BY <1>8, <1>9
  <2> QED BY <1>6
<1>11. PICK g \in [Nat -> V] : Solves(g, Nat, B, b, F, pred)
  <2> HIDE DEF V
  <2> QED BY <1>7, <1>10, RecursionExists
<1> HIDE DEF V
<1>12. ASSUME NEW n \in Nat
       PROVE  g[n] = IF Low(n) THEN First(n) ELSE Append(g[Rest(n)], ThreeDigits(Lowest(n)))
  <2>1. CASE Low(n)
    BY <1>7, <1>11, <2>1 DEF Solves
  <2>2. CASE ~Low(n)
    <3>1. n \in Nat \ B /\ pred[n] = Rest(n) /\ g[pred[n]] \in W
      BY <1>7, <1>9, <1>11, <2>2
    <3>2. g[n] = F[<<n, g[pred[n]]>>]
      BY <1>11, <3>1 DEF Solves
    <3> QED BY <1>8, <2>2, <3>1, <3>2
  <2> QED BY <2>1, <2>2
<1>13. Splits(g)
  BY <1>11, <1>12
<1>14. Splits(splits)
  BY <1>13
<1> HIDE DEF splits
<1>15. \A n \in Nat : splits[n] = IF Low(n) THEN First(n)
                                  ELSE Append(splits[Rest(n)], ThreeDigits(Lowest(n)))
  BY <1>14
<1>16. Solves(splits, Nat, B, b, F, pred)
  <2> SUFFICES ASSUME NEW n \in Nat
               PROVE  splits[n] = IF n \in B THEN b[n] ELSE F[<<n, splits[pred[n]]>>]
    BY DEF Solves
  <2>1. CASE Low(n)
    BY <1>7, <1>15, <2>1
  <2>2. CASE ~Low(n)
    <3>1. n \notin B /\ pred[n] = Rest(n) /\ splits[pred[n]] \in W
      BY <1>7, <1>9, <2>2
    <3> QED BY <1>8, <1>15, <2>2, <3>1
  <2> QED BY <2>1, <2>2
<1>17. \A n \in Nat : splits[n] = g[n]
  BY <1>7, <1>11, <1>16, RecursionUnique
<1>18. \A n \in Nat : splits[n] \in V
  BY <1>11, <1>17
<1>19. ASSUME NEW n \in Small PROVE splits[n] = <<Unpadded(n)>>
  <2>1. n \in Nat /\ Low(n)
    BY <1>4 DEF Small
  <2>2. splits[n] = First(n)
    BY <1>15, <2>1
  <2> QED BY <1>5, <2>1, <2>2
<1>20. ASSUME NEW n \in Nat \ Small
       PROVE  \E q \in Nat, r \in Small :
                n = Thousands(q, r) /\ splits[n] = Append(splits[q], ThreeDigits(r))
  <2>1. ~Low(n) /\ Rest(n) \in Nat /\ Lowest(n) \in Small /\ n = Thousands(Rest(n), Lowest(n))
    BY <1>2, <1>3, <1>4
  <2>2. splits[n] = Append(splits[Rest(n)], ThreeDigits(Lowest(n)))
    BY <1>15, <2>1
  <2> QED BY <2>1, <2>2
<1>21. \A n \in Nat : groups[n] \in Seq(Seq(Digit))
  BY <1>1, <1>18 DEF V
<1> QED BY <1>1, <1>19, <1>20, <1>21

\* The digits of the groups of n, one after the other, are those of n.
LEMMA GroupsValue ==
  ASSUME NEW n \in Nat
  PROVE  /\ FlattenSeq(groups[n]) \in Seq(Digit)
         /\ Value(FlattenSeq(groups[n])) = n
<1> DEFINE Right(k) == Value(FlattenSeq(groups[k])) = k
<1>1. \A k \in Nat : groups[k] \in Seq(Seq(Digit)) /\ FlattenSeq(groups[k]) \in Seq(Digit)
  <2> TAKE k \in Nat
  <2>1. groups[k] \in Seq(Seq(Digit))
    BY GroupsUnfold, Zenon
  <2> QED BY <2>1, FlattenType
<1>2. ASSUME NEW k \in Small PROVE Right(k)
  <2>1. groups[k] = <<Unpadded(k)>>
    BY GroupsUnfold, Zenon
  <2>2. Unpadded(k) \in Seq(Digit) /\ Value(Unpadded(k)) = k
    BY GroupValues
  <2>3. FlattenSeq(<<Unpadded(k)>>) = Unpadded(k)
    <3> DEFINE one == <<Unpadded(k)>>
    <3>1. one \in Seq(Seq(Digit)) /\ Len(one) = 1 /\ one[1] = Unpadded(k)
      BY <2>2
    <3>2. one # << >>
      OBVIOUS
    <3> HIDE DEF one
    <3>3. PICK f \in [1 .. Len(one) -> Seq(Digit)] :
            f[1] = one[1] /\ FlattenSeq(one) = f[Len(one)]
      BY <3>1, <3>2, FlattenUnfolds
    <3>4. FlattenSeq(one) = Unpadded(k)
      BY <3>1, <3>3
    <3> QED BY <3>4 DEF one
  <2> QED BY <2>1, <2>2, <2>3
<1>3. ASSUME NEW k \in Nat \ Small, \A j \in Nat : j < k => Right(j)
      PROVE  Right(k)
  <2>1. PICK q \in Nat, r \in Small :
          k = Thousands(q, r) /\ groups[k] = Append(groups[q], ThreeDigits(r))
    BY GroupsUnfold
  <2>2. ThreeDigits(r) \in Seq(Digit) /\ groups[q] \in Seq(Seq(Digit))
    BY <1>1, GroupValues
  <2>3. FlattenSeq(Append(groups[q], ThreeDigits(r))) = FlattenSeq(groups[q]) \o ThreeDigits(r)
    BY <2>2, FlattenAppend
  <2>4. PICK front \in Seq(Digit) : front = FlattenSeq(groups[q])
    BY <1>1
  <2>5. Value(front \o ThreeDigits(r)) = Thousands(Value(front), r)
    <3>1. \A s \in Seq(Digit) : Value(s \o ThreeDigits(r)) = Thousands(Value(s), r)
      BY GroupValues
    <3> QED BY <3>1
  <2>6. Value(front) = q
    <3>1. q < k
      BY <2>1 DEF Thousands, Small
    <3>2. Right(q)
      BY <1>3, <3>1
    <3> QED BY <2>4, <3>2
  <2>7. Value(FlattenSeq(groups[k])) = Value(front \o ThreeDigits(r))
    BY <2>1, <2>3, <2>4, Zenon
  <2> QED BY <2>1, <2>5, <2>6, <2>7, Zenon
<1> HIDE DEF Right
<1>4. \A k \in Nat : Right(k)
  <2> DEFINE T == {k \in Nat : ~Right(k)}
  <2> SUFFICES ASSUME T # {} PROVE FALSE
    OBVIOUS
  <2>1. PICK k \in T : \A j \in T : k <= j
    <3>1. T \subseteq Nat /\ T # {}
      OBVIOUS
    <3> HIDE DEF T
    <3> QED BY <3>1, LeastNumber
  <2>2. k \in Nat \ Small
    BY <1>2
  <2>3. \A j \in Nat : j < k => Right(j)
    BY <2>1, <2>2
  <2> QED BY <1>3, <2>2, <2>3
<1> QED BY <1>1, <1>4 DEF Right

\* The digits of an amount: those of its whole part and two more.
LEMMA DigitsOfAmount ==
  ASSUME NEW n \in Nat, NEW x \in Digit, NEW y \in Digit
  PROVE  Value(FlattenSeq(groups[n]) \o <<x, y>>) = 100 * n + (10 * x + y)
<1>1. PICK digits \in Seq(Digit) : digits = FlattenSeq(groups[n]) /\ Value(digits) = n
  BY GroupsValue
<1>2. digits \o <<x, y>> = Append(Append(digits, x), y)
  OBVIOUS
<1>3. Value(Append(Append(digits, x), y)) = 100 * Value(digits) + 10 * x + y
  BY ValueAppendMore
<1>4. Value(FlattenSeq(groups[n]) \o <<x, y>>) = Value(Append(Append(digits, x), y))
  BY <1>1, <1>2
<1>5. PICK v, w : v = Value(digits) /\ w = Value(Append(Append(digits, x), y))
  OBVIOUS
<1>6. x \in Int /\ y \in Int /\ v = n /\ w = 100 * v + 10 * x + y
  BY <1>1, <1>3, <1>5 DEF Digit
<1>7. w = 100 * n + (10 * x + y)
  BY <1>6
<1> QED BY <1>4, <1>5, <1>7

\* Lines 260-286: what _format_amount writes of an amount, of however many groups
\* it is, is read back as that amount exactly when the amount is not negative or
\* has no cents: the two digits of the cents of a negative amount count upwards
\* from the next whole below it.
THEOREM FormattedAmountsAreReadBack ==
  ASSUME NEW cents \in Int
  PROVE  ReadBack(FormatAmount(cents)) = cents <=> cents >= 0 \/ cents % 100 = 0
<1>1. PICK whole \in Int, x \in Digit, y \in Digit, fraction \in 0 .. 99 :
        /\ whole = cents \div 100 /\ x = (cents % 100) \div 10 /\ y = cents % 10
        /\ fraction = cents % 100 /\ fraction = 10 * x + y
        /\ cents = 100 * whole + fraction
  BY DEF Digit
<1> DEFINE Form(w, d, u) == [minus |-> w < 0, whole |-> groups[IF w < 0 THEN -w ELSE w],
                             fraction |-> <<d, u>>]
<1>2. FormatAmount(cents) = Form(whole, x, y)
  <2>1. FormatAmount(cents) = Form(cents \div 100, (cents % 100) \div 10, cents % 10)
    BY Zenon DEF FormatAmount
  <2> HIDE DEF Form
  <2> QED BY <1>1, <2>1, Zenon
<1>3. PICK n \in Nat : n = IF whole < 0 THEN -whole ELSE whole
  OBVIOUS
<1>4. PICK v : v = Value(FlattenSeq(groups[n]) \o <<x, y>>)
  OBVIOUS
<1>5. ReadBack([minus |-> whole < 0, whole |-> groups[n], fraction |-> <<x, y>>])
        = IF whole < 0 THEN -v ELSE v
  BY <1>4 DEF ReadBack, Value
<1>6. ReadBack(FormatAmount(cents)) = IF whole < 0 THEN -v ELSE v
  <2>1. Form(whole, x, y) = [minus |-> whole < 0, whole |-> groups[n], fraction |-> <<x, y>>]
    BY <1>3, Zenon
  <2> HIDE DEF Form
  <2> QED BY <1>2, <1>5, <2>1, Zenon
<1>7. v = 100 * n + fraction
  <2>1. v = 100 * n + (10 * x + y)
    BY <1>4, DigitsOfAmount, Zenon
  <2> QED BY <1>1, <2>1
<1>8. (IF whole < 0 THEN -v ELSE v) = cents <=> cents >= 0 \/ fraction = 0
  BY <1>1, <1>3, <1>7
<1> QED BY <1>1, <1>6, <1>8

-----------------------------------------------------------------------------
(* Invoices: the invariant                                                 *)

LEMMA TextsOfPurchases ==
  \A b \in Purchases : EventName[b] \in Text /\ DefaultItem(b) \in Text
<1> SUFFICES ASSUME NEW b \in Purchases PROVE EventName[b] \in Text /\ DefaultItem(b) \in Text
  OBVIOUS
<1>1. EventName[b] \in Text
  BY TextAssumption
<1>2. <<"letter", "dash">> \in Text
  BY DEF Text, Ascii
<1>3. <<"letter", "dash">> \o EventName[b] \in Text
  BY <1>1, <1>2, TextMeans, ConcatProperties
<1> QED BY <1>1, <1>3 DEF DefaultItem

LEMMA StrippedTexts ==
  \A t \in Text : /\ StripToAscii(t) \in Text /\ IsAscii(StripToAscii(t))
                  /\ StripToAscii(StripToAscii(t)) = StripToAscii(t)
BY StrippedIsAscii, AsciiIsKept, TextMeans

\* The parts of InvoiceIInv that speak of one thread, of where it is.
ThreadStates == {Free} \cup Assembling \cup Rendering \cup Storing

Agrees(s) ==
  /\ s.pc \in {"assembling", "rendering"} => s.number[2] = UserSuffix[s.purchase]
  /\ s.pc = "rendering" =>
       /\ s.total = FormatAmount(Amount[s.purchase])
       /\ s.enterprise => IsAscii(s.name) /\ IsAscii(s.item)
       /\ s.enterprise /\ s.own => IsAscii(items[s.purchase])
  /\ s.pc \in {"uploading", "answering"} => BelongsUnder(s.key, s.document)
  /\ s.pc = "answering" => s.key \in DOMAIN storage

LEMMA ShapeOfThreads ==
  ASSUME NEW s \in ThreadStates
  PROVE  /\ s.pc = "assembling" => s \in Assembling
         /\ s.pc = "rendering" => s \in Rendering
         /\ s.pc \in {"uploading", "answering"} => s \in Storing
         /\ s.pc \notin {"assembling", "rendering", "uploading", "answering"} => s = Free
BY DEF ThreadStates, Free, Assembling, Rendering, Storing

\* A step of p, seen from the threads: p is where it agrees with the rest, line
\* items only lose characters outside ASCII, and keys stay in use.
LEMMA MoveKeepsThreads ==
  ASSUME InvoiceIInv, NEW p \in Threads, NEW s \in ThreadStates, MoveOn(p, s),
         Agrees(s)', \A b \in Purchases : items'[b] = items[b] \/ IsAscii(items'[b]),
         DOMAIN storage \subseteq DOMAIN storage'
  PROVE  thread' \in [Threads -> ThreadStates] /\ ThreadsAgree'
<1>1. thread \in [Threads -> ThreadStates] /\ thread' = [thread EXCEPT ![p] = s]
  BY DEF InvoiceIInv, InvoiceTypeOK, ThreadStates, MoveOn
<1>2. thread' \in [Threads -> ThreadStates]
  BY <1>1
<1>3. ASSUME NEW q \in Threads PROVE Agrees(thread[q])'
  <2>1. CASE q = p
    <3>1. thread'[q] = s
      BY <1>1, <2>1
    <3> QED BY <3>1 DEF Agrees
  <2>2. CASE q # p
    <3>1. thread'[q] = thread[q] /\ thread[q] \in ThreadStates
      BY <1>1, <2>2
    <3>2. Agrees(thread[q])
      BY DEF InvoiceIInv, ThreadsAgree, Agrees
    <3>3. thread[q].pc = "rendering" => thread[q].purchase \in Purchases
      BY <3>1, ShapeOfThreads DEF Rendering
    <3> QED BY <3>1, <3>2, <3>3 DEF Agrees, BelongsUnder
  <2> QED BY <2>1, <2>2
<1>4. ThreadsAgree'
  BY <1>3 DEF ThreadsAgree, Agrees
<1> QED BY <1>2, <1>4

LEMMA InvoiceInitIInv == InvoiceInit => InvoiceIInv
<1> SUFFICES ASSUME InvoiceInit PROVE InvoiceIInv
  OBVIOUS
<1>1. DOMAIN storage = {} /\ Documents = {}
  <2>1. DOMAIN storage = {}
    BY EmptySeq DEF InvoiceInit
  <2> QED BY <2>1 DEF Documents
<1>2. InvoiceTypeOK
  <2>1. /\ now \in 0 .. LastSecond /\ calls \in 0 .. MaxCalls
        /\ thread \in [Threads -> {Free} \cup Assembling \cup Rendering \cup Storing]
        /\ answers = {}
    BY InvoiceBoundAssumption DEF InvoiceInit
  <2>2. items \in [Purchases -> Text] /\ \A b \in Purchases : items[b] = DefaultItem(b)
    BY TextsOfPurchases DEF InvoiceInit
  <2> QED BY <1>1, <2>1, <2>2 DEF InvoiceTypeOK
<1>3. StoredAgree /\ AnswersAgree
  BY <1>1 DEF StoredAgree, AnswersAgree, InvoiceInit
<1>4. ThreadsAgree
  BY DEF ThreadsAgree, InvoiceInit, Free
<1> QED BY <1>2, <1>3, <1>4 DEF InvoiceIInv

\* What stays as it is when a step leaves the bucket, the answers, the line items
\* and the clock alone.
LEMMA OnlyThreadsMove ==
  ASSUME InvoiceIInv, UNCHANGED <<now, items, storage, answers>>,
         calls' \in 0 .. MaxCalls, thread' \in [Threads -> ThreadStates], ThreadsAgree'
  PROVE  InvoiceIInv'
<1>1. InvoiceTypeOK'
  BY DEF InvoiceIInv, InvoiceTypeOK, ThreadStates, Documents
<1>2. StoredAgree' /\ AnswersAgree'
  BY DEF InvoiceIInv, StoredAgree, AnswersAgree, BelongsUnder
<1> QED BY <1>1, <1>2 DEF InvoiceIInv

LEMMA GenerateInvoiceIInv ==
  ASSUME InvoiceIInv, NEW p \in Threads, GenerateInvoice(p)
  PROVE  InvoiceIInv'
<1>1. PICK b \in Purchases, enterprise \in BOOLEAN, own \in BOOLEAN :
        MoveOn(p, [pc |-> "assembling", purchase |-> b, enterprise |-> enterprise,
                   own |-> own, number |-> GenerateInvoiceNumber(b)])
  BY DEF GenerateInvoice
<1>2. PICK number \in Numbers :
        number = GenerateInvoiceNumber(b) /\ number[2] = UserSuffix[b]
  <2>1. now \in 0 .. LastSecond
    BY DEF InvoiceIInv, InvoiceTypeOK
  <2>2. PICK number : number = <<now, UserSuffix[b]>>
    OBVIOUS
  <2>3. number \in Numbers /\ number[2] = UserSuffix[b]
    BY <2>1, <2>2 DEF Numbers
  <2> QED BY <2>2, <2>3 DEF GenerateInvoiceNumber
<1>3. PICK s : s = [pc |-> "assembling", purchase |-> b, enterprise |-> enterprise,
                    own |-> own, number |-> number]
  OBVIOUS
<1>4. s \in ThreadStates /\ MoveOn(p, s)
  BY <1>1, <1>2, <1>3 DEF ThreadStates, Assembling
<1>5. Agrees(s)'
  BY <1>2, <1>3 DEF Agrees
<1>6. UNCHANGED <<now, items, storage, answers>> /\ calls' \in 0 .. MaxCalls
  BY InvoiceBoundAssumption DEF GenerateInvoice, InvoiceIInv, InvoiceTypeOK
<1>7. thread' \in [Threads -> ThreadStates] /\ ThreadsAgree'
  BY <1>4, <1>5, <1>6, MoveKeepsThreads
<1> QED BY <1>6, <1>7, OnlyThreadsMove

LEMMA QuotientIsSmaller ==
  ASSUME NEW a \in Nat, NEW d \in Nat \ {0}
  PROVE  a \div d \in 0 .. a
OBVIOUS

\* What the template is given: of an enterprise client, texts in ASCII.
LEMMA AssembledShape ==
  ASSUME InvoiceIInv, NEW s \in Assembling, s.number[2] = UserSuffix[s.purchase]
  PROVE  /\ Assembled(s) \in Rendering
         /\ Assembled(s).purchase = s.purchase /\ Assembled(s).enterprise = s.enterprise
         /\ Assembled(s).own = s.own /\ Assembled(s).number = s.number
         /\ Assembled(s).total = FormatAmount(Amount[s.purchase])
         /\ s.enterprise => IsAscii(Assembled(s).name) /\ IsAscii(Assembled(s).item)
<1> DEFINE b == s.purchase
           name == IF s.enterprise THEN StripToAscii(EventName[b]) ELSE EventName[b]
           item == IF s.enterprise THEN StripToAscii(DefaultItem(b)) ELSE DefaultItem(b)
           month == now \div SecondsPerMonth
           total == FormatAmount(Amount[b])
<1>1. b \in Purchases /\ s.enterprise \in BOOLEAN /\ s.own \in BOOLEAN /\ s.number \in Numbers
  BY DEF Assembling
<1>2. month \in 0 .. LastSecond
  <2>1. now \in Nat /\ now <= LastSecond /\ SecondsPerMonth \in Nat \ {0} /\ LastSecond \in Nat
    BY InvoiceBoundAssumption DEF InvoiceIInv, InvoiceTypeOK
  <2>2. month \in 0 .. now
    BY <2>1, QuotientIsSmaller
  <2> HIDE DEF month
  <2> QED BY <2>1, <2>2
<1>3. name \in Text /\ item \in Text /\ (s.enterprise => IsAscii(name) /\ IsAscii(item))
  BY <1>1, TextsOfPurchases, StrippedTexts
<1>4. total \in Totals
  BY <1>1 DEF Totals
<1>5. Assembled(s) = [pc |-> "rendering", purchase |-> b, enterprise |-> s.enterprise,
                      own |-> s.own, number |-> s.number, month |-> month,
                      name |-> name, item |-> item, total |-> total]
  BY DEF Assembled
<1> HIDE DEF b, name, item, month, total
<1>6. Assembled(s) \in Rendering
  BY <1>1, <1>2, <1>3, <1>4, <1>5 DEF Rendering
<1>7. b = s.purchase /\ total = FormatAmount(Amount[s.purchase])
  BY DEF b, total
<1> QED BY <1>3, <1>5, <1>6, <1>7

LEMMA AssembleIInv ==
  ASSUME InvoiceIInv, NEW p \in Threads, AssembleAndFormat(p)
  PROVE  InvoiceIInv'
<1>1. PICK s : s = thread[p]
  OBVIOUS
<1>2. PICK b, next : b = s.purchase /\ next = Assembled(s)
  OBVIOUS
<1>3. s \in ThreadStates /\ s.pc = "assembling"
  BY <1>1 DEF AssembleAndFormat, InvoiceIInv, InvoiceTypeOK, ThreadStates
<1>4. s \in Assembling /\ b \in Purchases
  BY <1>2, <1>3, ShapeOfThreads DEF Assembling
<1>5. s.number[2] = UserSuffix[s.purchase]
  BY <1>1, <1>3 DEF InvoiceIInv, ThreadsAgree
<1>6. /\ next \in Rendering
      /\ next.purchase = b /\ next.enterprise = s.enterprise
      /\ next.own = s.own /\ next.number = s.number
      /\ next.total = FormatAmount(Amount[b])
      /\ s.enterprise => IsAscii(next.name) /\ IsAscii(next.item)
  BY <1>2, <1>4, <1>5, AssembledShape
<1>7. MoveOn(p, next) /\ UNCHANGED <<now, storage, answers, calls>>
  BY <1>1, <1>2 DEF AssembleAndFormat
<1>8. items' = IF s.enterprise /\ s.own THEN [items EXCEPT ![b] = StripToAscii(@)] ELSE items
  BY <1>1, <1>2 DEF AssembleAndFormat
<1>9. /\ items \in [Purchases -> Text]
      /\ \A c \in Purchases : items[c] \in {DefaultItem(c), StripToAscii(DefaultItem(c))}
  BY DEF InvoiceIInv, InvoiceTypeOK
<1>10. ASSUME NEW c \in Purchases
      PROVE  /\ items'[c] = items[c] \/ IsAscii(items'[c])
             /\ s.enterprise /\ s.own => IsAscii(items'[b])
             /\ items'[c] \in Text
             /\ items'[c] \in {DefaultItem(c), StripToAscii(DefaultItem(c))}
  <2>1. /\ items[c] \in Text /\ StripToAscii(items[c]) \in Text
        /\ StripToAscii(items[c]) = StripToAscii(DefaultItem(c))
    BY <1>9, TextsOfPurchases, StrippedTexts
  <2>2. IsAscii(StripToAscii(items[c])) /\ IsAscii(StripToAscii(items[b]))
    BY <1>4, <1>9, StrippedTexts
  <2>3. CASE s.enterprise /\ s.own
    <3>1. items' = [items EXCEPT ![b] = StripToAscii(items[b])]
      BY <1>8, <2>3
    <3>2. items'[b] = StripToAscii(items[b]) /\ (c # b => items'[c] = items[c])
      BY <1>4, <1>9, <3>1
    <3> QED BY <1>9, <2>1, <2>2, <3>2
  <2>4. CASE ~(s.enterprise /\ s.own)
    <3>1. items' = items
      BY <1>8, <2>4
    <3> QED BY <1>9, <2>1, <2>4, <3>1
  <2> QED BY <2>3, <2>4
<1>11. DOMAIN items' = Purchases /\ items' \in [Purchases -> Text]
  <2>1. \A c \in Purchases : items'[c] \in Text
    BY <1>10
  <2>2. items' = [c \in Purchases |-> items'[c]]
    BY <1>8, <1>9
  <2> QED BY <2>1, <2>2
<1>12. next \in ThreadStates /\ next.pc = "rendering"
  BY <1>6 DEF ThreadStates, Rendering
<1>13. Agrees(next)'
  <2>1. s.enterprise /\ s.own => IsAscii(items'[b])
    BY <1>4, <1>10
  <2>2. next.number[2] = UserSuffix[next.purchase]
    BY <1>2, <1>5, <1>6
  <2>3. /\ next.total = FormatAmount(Amount[next.purchase])
        /\ next.enterprise => IsAscii(next.name) /\ IsAscii(next.item)
        /\ next.enterprise /\ next.own => IsAscii(items'[next.purchase])
    BY <1>6, <2>1
  <2> QED BY <1>12, <2>2, <2>3 DEF Agrees
<1>14. thread' \in [Threads -> ThreadStates] /\ ThreadsAgree'
  <2>1. \A c \in Purchases : items'[c] = items[c] \/ IsAscii(items'[c])
    BY <1>10
  <2>2. DOMAIN storage \subseteq DOMAIN storage'
    BY <1>7
  <2> QED BY <1>7, <1>12, <1>13, <2>1, <2>2, MoveKeepsThreads
<1>15. InvoiceTypeOK'
  <2>1. \A c \in Purchases : items'[c] \in {DefaultItem(c), StripToAscii(DefaultItem(c))}
    BY <1>10
  <2> QED BY <1>7, <1>11, <1>14, <2>1
          DEF InvoiceIInv, InvoiceTypeOK, ThreadStates, Documents
<1>16. StoredAgree' /\ AnswersAgree'
  BY <1>7 DEF InvoiceIInv, StoredAgree, AnswersAgree, BelongsUnder
<1> QED BY <1>14, <1>15, <1>16 DEF InvoiceIInv

LEMMA RenderIInv ==
  ASSUME InvoiceIInv, NEW p \in Threads, RenderPdf(p)
  PROVE  InvoiceIInv'
<1>1. PICK s : s = thread[p]
  OBVIOUS
<1>2. PICK document : document =
        [number |-> s.number, purchase |-> s.purchase, enterprise |-> s.enterprise,
         name |-> s.name, total |-> s.total,
         item |-> IF s.own THEN items[s.purchase] ELSE s.item]
  OBVIOUS
<1>3. PICK next :
        next = [pc |-> "uploading", key |-> <<s.month, s.number>>, document |-> document]
  OBVIOUS
<1>4. s \in ThreadStates /\ s.pc = "rendering"
  BY <1>1 DEF RenderPdf, InvoiceIInv, InvoiceTypeOK, ThreadStates
<1>5. s \in Rendering
  BY <1>4, ShapeOfThreads
<1>6. /\ s.number[2] = UserSuffix[s.purchase]
      /\ s.total = FormatAmount(Amount[s.purchase])
      /\ s.enterprise => IsAscii(s.name) /\ IsAscii(s.item)
      /\ s.enterprise /\ s.own => IsAscii(items[s.purchase])
  BY <1>1, <1>4 DEF InvoiceIInv, ThreadsAgree
<1>7. MoveOn(p, next) /\ UNCHANGED <<now, items, storage, answers, calls>>
  BY <1>1, <1>2, <1>3 DEF RenderPdf
<1>8. items \in [Purchases -> Text] /\ calls \in 0 .. MaxCalls
  BY DEF InvoiceIInv, InvoiceTypeOK
<1>9. document \in Document /\ <<s.month, s.number>> \in Keys
  BY <1>2, <1>5, <1>8 DEF Document, Rendering, Keys
<1>10. next \in ThreadStates
  BY <1>3, <1>9 DEF ThreadStates, Storing
<1>11. BelongsUnder(<<s.month, s.number>>, document)
  BY <1>2, <1>5, <1>6 DEF BelongsUnder, Rendering
<1>12. Agrees(next)'
  BY <1>3, <1>11 DEF Agrees, BelongsUnder
<1>13. thread' \in [Threads -> ThreadStates] /\ ThreadsAgree'
  BY <1>7, <1>10, <1>12, MoveKeepsThreads
<1> QED BY <1>7, <1>8, <1>13, OnlyThreadsMove

LEMMA FailIInv ==
  ASSUME InvoiceIInv, NEW p \in Threads, Fail(p)
  PROVE  InvoiceIInv'
<1>1. MoveOn(p, Free) /\ UNCHANGED <<now, items, storage, answers, calls>>
  BY DEF Fail
<1>2. Free \in ThreadStates /\ Agrees(Free)'
  BY DEF ThreadStates, Agrees, Free
<1>3. thread' \in [Threads -> ThreadStates] /\ ThreadsAgree'
  BY <1>1, <1>2, MoveKeepsThreads
<1>4. calls' \in 0 .. MaxCalls
  BY <1>1 DEF InvoiceIInv, InvoiceTypeOK
<1> QED BY <1>1, <1>3, <1>4, OnlyThreadsMove

LEMMA UploadIInv ==
  ASSUME InvoiceIInv, NEW p \in Threads, UploadToStorage(p)
  PROVE  InvoiceIInv'
<1>1. PICK s, next : s = thread[p] /\ next = [s EXCEPT !.pc = "answering"]
  OBVIOUS
<1>2. s \in ThreadStates /\ s.pc = "uploading"
  BY <1>1 DEF UploadToStorage, InvoiceIInv, InvoiceTypeOK, ThreadStates
<1>3. s \in Storing /\ s.key \in Keys /\ s.document \in Document
  BY <1>2, ShapeOfThreads DEF Storing
<1>4. BelongsUnder(s.key, s.document)
  BY <1>1, <1>2 DEF InvoiceIInv, ThreadsAgree
<1>5. /\ MoveOn(p, next) /\ UNCHANGED <<now, items, answers, calls>>
      /\ storage' = [k \in DOMAIN storage \cup {s.key} |->
                      IF k = s.key THEN s.document ELSE storage[k]]
  BY <1>1 DEF UploadToStorage
<1>6. /\ DOMAIN storage' = DOMAIN storage \cup {s.key}
      /\ \A k \in DOMAIN storage' : \/ k = s.key /\ storage'[k] = s.document
                                    \/ k \in DOMAIN storage /\ storage'[k] = storage[k]
  BY <1>5
<1>7. /\ next \in Storing /\ next \in ThreadStates
      /\ next.pc = "answering" /\ next.key = s.key /\ next.document = s.document
  BY <1>1, <1>3 DEF Storing, ThreadStates
<1>8. Agrees(next)'
  BY <1>4, <1>6, <1>7 DEF Agrees, BelongsUnder
<1>9. thread' \in [Threads -> ThreadStates] /\ ThreadsAgree'
  BY <1>5, <1>6, <1>7, <1>8, MoveKeepsThreads
<1>10. InvoiceTypeOK'
  <2>1. DOMAIN storage' \subseteq Keys
    BY <1>3, <1>6 DEF InvoiceIInv, InvoiceTypeOK
  <2>2. ASSUME NEW k \in DOMAIN storage' PROVE storage'[k] \in Document
    BY <1>3, <1>6 DEF InvoiceIInv, InvoiceTypeOK, Documents
  <2>3. Documents' \subseteq Document
    BY <2>2 DEF Documents
  <2> QED BY <1>5, <1>9, <2>1, <2>3 DEF InvoiceIInv, InvoiceTypeOK, ThreadStates
<1>11. StoredAgree'
  BY <1>4, <1>6 DEF InvoiceIInv, StoredAgree, BelongsUnder
<1>12. AnswersAgree'
  BY <1>5, <1>6 DEF InvoiceIInv, AnswersAgree
<1> QED BY <1>9, <1>10, <1>11, <1>12 DEF InvoiceIInv

LEMMA AnswerIInv ==
  ASSUME InvoiceIInv, NEW p \in Threads, AnswerWithLink(p)
  PROVE  InvoiceIInv'
<1>1. PICK s, a : /\ s = thread[p]
                  /\ a = [key |-> s.key, number |-> s.document.number,
                          purchase |-> s.document.purchase]
  OBVIOUS
<1>2. s \in ThreadStates /\ s.pc = "answering"
  BY <1>1 DEF AnswerWithLink, InvoiceIInv, InvoiceTypeOK, ThreadStates
<1>3. s \in Storing /\ s.key \in Keys /\ s.document \in Document
  BY <1>2, ShapeOfThreads DEF Storing
<1>4. BelongsUnder(s.key, s.document) /\ s.key \in DOMAIN storage
  BY <1>1, <1>2 DEF InvoiceIInv, ThreadsAgree
<1>5. /\ MoveOn(p, Free) /\ UNCHANGED <<now, items, storage, calls>>
      /\ answers' = answers \cup {a}
  BY <1>1 DEF AnswerWithLink
<1>6. /\ a \in [key: Keys, number: Numbers, purchase: Purchases]
      /\ a.key = s.key /\ a.number = s.document.number /\ a.purchase = s.document.purchase
  BY <1>1, <1>3 DEF Document
<1>7. Free \in ThreadStates /\ Agrees(Free)'
  BY DEF ThreadStates, Agrees, Free
<1>8. thread' \in [Threads -> ThreadStates] /\ ThreadsAgree'
  BY <1>5, <1>7, MoveKeepsThreads
<1>9. InvoiceTypeOK'
  BY <1>5, <1>6, <1>8 DEF InvoiceIInv, InvoiceTypeOK, ThreadStates, Documents
<1>10. StoredAgree'
  BY <1>5 DEF InvoiceIInv, StoredAgree, BelongsUnder
<1>11. AnswersAgree'
  BY <1>4, <1>5, <1>6 DEF InvoiceIInv, AnswersAgree, BelongsUnder
<1> QED BY <1>8, <1>9, <1>10, <1>11 DEF InvoiceIInv

LEMMA InvoiceNextIInv == InvoiceIInv /\ [InvoiceNext]_invoiceVars => InvoiceIInv'
<1> SUFFICES ASSUME InvoiceIInv, [InvoiceNext]_invoiceVars PROVE InvoiceIInv'
  OBVIOUS
<1>1. ASSUME NEW p \in Threads,
             \/ GenerateInvoice(p) \/ AssembleAndFormat(p) \/ RenderPdf(p) \/ Fail(p)
             \/ UploadToStorage(p) \/ AnswerWithLink(p)
      PROVE  InvoiceIInv'
  BY <1>1, GenerateInvoiceIInv, AssembleIInv, RenderIInv, FailIInv, UploadIInv, AnswerIInv
<1>2. CASE ClockTicks
  <2>1. now' \in 0 .. LastSecond /\ UNCHANGED <<items, storage, thread, answers, calls>>
    BY <1>2, InvoiceBoundAssumption DEF ClockTicks, InvoiceIInv, InvoiceTypeOK
  <2>2. InvoiceTypeOK'
    BY <2>1 DEF InvoiceIInv, InvoiceTypeOK, Documents
  <2>3. StoredAgree' /\ AnswersAgree' /\ ThreadsAgree'
    BY <2>1 DEF InvoiceIInv, StoredAgree, AnswersAgree, ThreadsAgree, BelongsUnder
  <2> QED BY <2>2, <2>3 DEF InvoiceIInv
<1>3. CASE UNCHANGED invoiceVars
  BY <1>3 DEF invoiceVars, InvoiceIInv, InvoiceTypeOK, StoredAgree, AnswersAgree,
              ThreadsAgree, BelongsUnder, Documents
<1> QED BY <1>1, <1>2, <1>3 DEF InvoiceNext

LEMMA InvoiceInvariance == InvoiceSpec => []InvoiceIInv
BY InvoiceInitIInv, InvoiceNextIInv, PTL DEF InvoiceSpec

-----------------------------------------------------------------------------
(* Invoices: theorems                                                      *)

\* Numbers, keys, documents and threads keep their shape, and a line item of a
\* caller is what it was given or that text in ASCII, whatever the threads, the
\* clock and the failures do.
THEOREM InvoiceTypeCorrect == InvoiceSpec => []InvoiceTypeOK
<1>1. InvoiceIInv => InvoiceTypeOK
  BY DEF InvoiceIInv
<1> QED BY <1>1, InvoiceInvariance, PTL

\* Lines 54-58 and 233-241: no stored document of an enterprise client has a
\* character outside ASCII, of any texts and any number of threads.
THEOREM EnterpriseDocumentsAreAscii == InvoiceSpec => []EnterpriseIsAscii
<1>1. InvoiceIInv => EnterpriseIsAscii
  BY DEF InvoiceIInv, StoredAgree, BelongsUnder, EnterpriseIsAscii, Documents
<1> QED BY <1>1, InvoiceInvariance, PTL

\* Lines 160-161 and 305-312: an answered link leads to a document of its number
\* even after other uploads under that key.
THEOREM LinksLeadToDocuments == InvoiceSpec => []LinksLeadToTheirNumber
<1>1. InvoiceIInv => LinksLeadToTheirNumber
  <2> SUFFICES ASSUME InvoiceIInv, NEW a \in answers
               PROVE  /\ a.key \in DOMAIN storage
                      /\ storage[a.key].number = a.number
                      /\ UserSuffix[storage[a.key].purchase] = UserSuffix[a.purchase]
    BY DEF LinksLeadToTheirNumber
  <2>1. a.key \in DOMAIN storage /\ a.key[2] = a.number /\ a.number[2] = UserSuffix[a.purchase]
    BY DEF InvoiceIInv, AnswersAgree
  <2>2. BelongsUnder(a.key, storage[a.key])
    BY <2>1 DEF InvoiceIInv, StoredAgree
  <2> QED BY <2>1, <2>2 DEF BelongsUnder
<1> QED BY <1>1, InvoiceInvariance, PTL

\* Lines 260-286: with amounts that are not negative or have no cents, the amount
\* on every stored document, read digit by digit, is the amount of the purchase.
THEOREM AmountsAreReadBack ==
  ASSUME \A b \in Purchases : Amount[b] >= 0 \/ Amount[b] % 100 = 0
  PROVE  InvoiceSpec => []AmountsReadBack
<1>1. InvoiceIInv => AmountsReadBack
  <2> SUFFICES ASSUME InvoiceIInv, NEW k \in DOMAIN storage
               PROVE  ReadBack(storage[k].total) = Amount[storage[k].purchase]
    BY DEF AmountsReadBack, Documents
  <2>1. storage[k].total = FormatAmount(Amount[storage[k].purchase])
    BY DEF InvoiceIInv, StoredAgree, BelongsUnder
  <2>2. storage[k].purchase \in Purchases
    BY DEF InvoiceIInv, InvoiceTypeOK, Documents, Document
  <2>3. PICK b \in Purchases, cents \in Int : b = storage[k].purchase /\ cents = Amount[b]
    BY <2>2, InvoiceAmountAssumption
  <2>4. ReadBack(FormatAmount(cents)) = cents
    BY <2>3, FormattedAmountsAreReadBack
  <2> QED BY <2>1, <2>3, <2>4
<1> QED BY <1>1, InvoiceInvariance, PTL

=============================================================================

-------------------------- MODULE ProfilingProofs ---------------------------
(***************************************************************************)
(* Proofs about the profiling probe and its export, for any finite number  *)
(* of calls and of probes, any durations, any word size, any buffer and    *)
(* any bound on the passes: the statistics, the probe, the export.         *)
(***************************************************************************)
EXTENDS ProfileExport, FiniteSetTheorems, TLAPS

(***************************************************************************)
(* SampleStatistics                                                        *)
(***************************************************************************)
(* Modular arithmetic.                                                     *)

(* Division with remainder, as the arithmetic of the code uses it.         *)
LEMMA DivMod ==
  ASSUME NEW a \in Int, NEW m \in Nat \ {0}
  PROVE  /\ a % m \in 0..m - 1
         /\ a \div m \in Int
         /\ a = m * (a \div m) + (a % m)
  OBVIOUS

(* A remainder in range is the remainder.                                  *)
LEMMA ModUnique ==
  ASSUME NEW a \in Int, NEW m \in Nat \ {0}, NEW k \in Int, NEW r \in 0..m - 1,
         a = r + k * m
  PROVE  a % m = r
<1> DEFINE q == a \div m
           p == a % m
<1>1. p \in 0..m - 1 /\ q \in Int /\ a = m * q + p
  BY DivMod
<1> HIDE DEF q, p
<1>2. m * (q - k) = r - p
  BY <1>1
<1>3. CASE q - k >= 1
  <2>1. m * (q - k) >= m
    BY <1>1, <1>3
  <2> QED
    BY <2>1, <1>1, <1>2
<1>4. CASE q - k <= -1
  <2>1. m * (k - q) >= m
    BY <1>1, <1>4
  <2> QED
    BY <2>1, <1>1, <1>2
<1>5. CASE q = k
  BY <1>1, <1>2, <1>5 DEF p
<1> QED
  BY <1>1, <1>3, <1>4, <1>5

(* A number in range is its own remainder.                                 *)
LEMMA ModSmall ==
  ASSUME NEW m \in Nat \ {0}, NEW r \in 0..m - 1
  PROVE  r % m = r
<1>1. r = r + 0 * m
  OBVIOUS
<1> QED
  BY <1>1, ModUnique

(* Adding multiples of the modulus changes no remainder.                   *)
LEMMA ModShift ==
  ASSUME NEW a \in Int, NEW m \in Nat \ {0}, NEW k \in Int
  PROVE  (a + k * m) % m = a % m
<1> DEFINE q == a \div m
           p == a % m
<1>1. p \in 0..m - 1 /\ q \in Int /\ a = m * q + p
  BY DivMod
<1> HIDE DEF q, p
<1>2. a + k * m = p + (q + k) * m
  BY <1>1
<1>3. (a + k * m) % m = p
  BY <1>1, <1>2, ModUnique
<1> QED
  BY <1>3 DEF p

(* A term may be added before or after the reduction.                      *)
LEMMA ModAdd ==
  ASSUME NEW a \in Int, NEW d \in Int, NEW m \in Nat \ {0}
  PROVE  ((a % m) + d) % m = (a + d) % m
<1> DEFINE q == a \div m
           p == a % m
<1>1. p \in 0..m - 1 /\ q \in Int /\ a = m * q + p
  BY DivMod
<1> HIDE DEF q, p
<1>2. a + d = (p + d) + q * m
  BY <1>1
<1>3. p + d \in Int
  BY <1>1
<1>4. ((p + d) + q * m) % m = (p + d) % m
  BY <1>1, <1>3, ModShift
<1> QED
  BY <1>2, <1>4 DEF p

(* Congruent numbers stay congruent when the same term is added.           *)
LEMMA ModCongruence ==
  ASSUME NEW a \in Int, NEW b \in Int, NEW d \in Int, NEW m \in Nat \ {0},
         a % m = b % m
  PROVE  (a + d) % m = (b + d) % m
<1>1. ((a % m) + d) % m = (a + d) % m
  BY ModAdd
<1>2. ((b % m) + d) % m = (b + d) % m
  BY ModAdd
<1> QED
  BY <1>1, <1>2

-----------------------------------------------------------------------------
(* Sums.                                                                   *)

LEMMA WidthIsPositive ==
  /\ W \in Nat \ {0}
  /\ W * W \in Nat \ {0}
  BY WidthAssumption

(* Reduction modulo W gives a word.                                        *)
LEMMA Wraps ==
  ASSUME NEW a \in Int
  PROVE  a % W \in 0..W - 1
  BY WidthIsPositive, DivMod

LEMMA UnitsFinite ==
  ASSUME NEW S, IsFiniteSet(S), NEW f
  PROVE  IsFiniteSet(Units(S, f))
<1>1. IsFiniteSet(1..W * W)
  BY WidthIsPositive, FS_Interval
<1>2. IsFiniteSet(S \X (1..W * W))
  BY <1>1, FS_Product
<1>3. Units(S, f) \in SUBSET (S \X (1..W * W))
  BY DEF Units
<1> QED
  BY <1>2, <1>3, FS_Subset

LEMMA SumType ==
  ASSUME NEW S, IsFiniteSet(S), NEW f
  PROVE  SumOver(S, f) \in Nat
  BY UnitsFinite, FS_CardinalityType DEF SumOver

(* The empty sum.                                                          *)
LEMMA SumEmpty ==
  ASSUME NEW f
  PROVE  SumOver({}, f) = 0
<1>1. Units({}, f) = {}
  BY DEF Units
<1> QED
  BY <1>1, FS_EmptySet DEF SumOver

(* A sum depends on the summed values only.                                *)
LEMMA SumSame ==
  ASSUME NEW S, NEW f, NEW g, \A c \in S : f[c] = g[c]
  PROVE  SumOver(S, f) = SumOver(S, g)
<1>1. Units(S, f) = Units(S, g)
  BY DEF Units
<1> QED
  BY <1>1 DEF SumOver

(* One more summand.                                                       *)
LEMMA SumAdd ==
  ASSUME NEW S, IsFiniteSet(S), NEW c, c \notin S, NEW f, f[c] \in 0..W * W
  PROVE  SumOver(S \union {c}, f) = SumOver(S, f) + f[c]
<1> DEFINE new == {c} \X (1..f[c])
<1>1. IsFiniteSet({c}) /\ Cardinality({c}) = 1
  BY FS_Singleton
<1>2. IsFiniteSet(1..f[c]) /\ Cardinality(1..f[c]) = f[c]
  <2>1. f[c] \in Int /\ 1 \in Int
    BY WidthIsPositive
  <2>2. /\ IsFiniteSet(1..f[c])
        /\ Cardinality(1..f[c]) = IF 1 > f[c] THEN 0 ELSE f[c] - 1 + 1
    BY <2>1, FS_Interval
  <2> QED
    BY <2>1, <2>2, WidthIsPositive
<1>3. IsFiniteSet(new) /\ Cardinality(new) = f[c]
  <2>1. IsFiniteSet(new) /\ Cardinality(new) = Cardinality({c}) * Cardinality(1..f[c])
    BY <1>1, <1>2, FS_Product
  <2> QED
    BY <2>1, <1>1, <1>2, WidthIsPositive
<1>4. Units(S \union {c}, f) = Units(S, f) \union new
  BY WidthIsPositive DEF Units
<1>5. Units(S, f) \intersect new = {}
  BY DEF Units
<1>6. IsFiniteSet(Units(S, f))
  BY UnitsFinite
<1> HIDE DEF new
<1>7. Cardinality(Units(S, f) \union new)
        = Cardinality(Units(S, f)) + Cardinality(new) - Cardinality({})
  BY <1>3, <1>5, <1>6, FS_Union
<1>8. Cardinality(Units(S, f)) \in Nat /\ Cardinality({}) = 0
  BY <1>6, FS_CardinalityType, FS_EmptySet
<1>9. f[c] \in Nat
  BY WidthIsPositive
<1>10. Cardinality(Units(S \union {c}, f)) = Cardinality(Units(S, f)) + f[c]
  <2>1. Cardinality(Units(S, f) \union new) = Cardinality(Units(S, f)) + f[c]
    <3> DEFINE n == Cardinality(Units(S, f))
               k == Cardinality(Units(S, f) \union new)
    <3>1. n \in Nat /\ k = n + f[c] - 0
      BY <1>3, <1>7, <1>8
    <3> HIDE DEF n, k
    <3>2. k = n + f[c]
      BY <3>1, <1>9
    <3> QED
      BY <3>2 DEF n, k
  <2> QED
    BY <2>1, <1>4
<1> QED
  BY <1>10 DEF SumOver

(* One summand less.                                                       *)
LEMMA SumRemove ==
  ASSUME NEW S, IsFiniteSet(S), NEW c \in S, NEW f, f[c] \in 0..W * W
  PROVE  SumOver(S \ {c}, f) + f[c] = SumOver(S, f)
<1>1. IsFiniteSet(S \ {c}) /\ c \notin S \ {c}
  BY FS_RemoveElement
<1>2. SumOver((S \ {c}) \union {c}, f) = SumOver(S \ {c}, f) + f[c]
  BY <1>1, SumAdd
<1>3. (S \ {c}) \union {c} = S
  OBVIOUS
<1> QED
  BY <1>2, <1>3

-----------------------------------------------------------------------------
(* The two halves of an addition to the 128-bit sum of squares.            *)
LEMMA SplitSquare ==
  ASSUME NEW d \in 0..W - 1, NEW lo \in 0..W - 1
  PROVE  LET sq   == d * d
             lo2  == (lo + (sq % W)) % W
             owed == ((sq \div W) + (lo + (sq % W)) \div W) % W
         IN  /\ lo2 \in 0..W - 1
             /\ owed \in 0..W - 1
             /\ lo2 + W * owed = lo + sq
<1> DEFINE sq == d * d
           l == sq % W
           h == sq \div W
           lo2 == (lo + l) % W
           carry == (lo + l) \div W
<1>1. W \in Nat /\ W >= 2 /\ d \in Int /\ lo \in Int
  BY WidthAssumption
<1>2. sq \in Nat /\ sq <= (W - 1) * (W - 1)
  <2>1. d * d <= d * (W - 1) /\ d * d >= 0
    BY <1>1
  <2>2. d * (W - 1) <= (W - 1) * (W - 1)
    BY <1>1
  <2> QED
    BY <2>1, <2>2, <1>1
<1>3. l \in 0..W - 1 /\ h \in Int /\ sq = W * h + l
  BY <1>1, <1>2, DivMod
<1> HIDE DEF l, h
<1>4. lo2 \in 0..W - 1 /\ carry \in Int /\ lo + l = W * carry + lo2
  BY <1>1, <1>3, DivMod
<1> HIDE DEF lo2, carry
<1>5. h >= 0 /\ h <= W - 2
  <2>1. W * h <= (W - 1) * (W - 1)
    BY <1>1, <1>2, <1>3
  <2>2. CASE h >= W - 1
    <3>1. W * h >= W * (W - 1)
      BY <1>1, <1>3, <2>2
    <3>2. W * (W - 1) > (W - 1) * (W - 1)
      BY <1>1
    <3> QED
      BY <2>1, <3>1, <3>2, <1>1, <1>3
  <2>3. CASE h <= -1
    <3>1. W * h <= -W
      BY <1>1, <1>3, <2>3
    <3> QED
      BY <3>1, <1>1, <1>2, <1>3
  <2> QED
    BY <2>2, <2>3, <1>1, <1>3
<1>6. carry \in 0..1
  <2>1. CASE carry >= 2
    <3>1. W * carry >= W * 2
      BY <1>1, <1>4, <2>1
    <3> QED
      BY <3>1, <1>1, <1>3, <1>4
  <2>2. CASE carry <= -1
    <3>1. W * carry <= -W
      BY <1>1, <1>4, <2>2
    <3> QED
      BY <3>1, <1>1, <1>3, <1>4
  <2> QED
    BY <2>1, <2>2, <1>4
<1>7. h + carry \in 0..W - 1
  BY <1>1, <1>3, <1>5, <1>6
<1>8. (h + carry) % W = h + carry
  BY <1>7, WidthIsPositive, ModSmall
<1>9. lo2 + W * (h + carry) = lo + sq
  BY <1>1, <1>2, <1>3, <1>4, <1>6
<1> QED
  BY <1>4, <1>7, <1>8, <1>9 DEF l, h, lo2, carry

(***************************************************************************)
(* ProfileProbe                                                            *)
(***************************************************************************)
(* The sets of calls.                                                      *)

LEMMA CallSetsFinite ==
  /\ IsFiniteSet(Started)
  /\ IsFiniteSet(Done)
  /\ IsFiniteSet(SumAdded)
  /\ IsFiniteSet(SqLoAdded)
  /\ IsFiniteSet(SqHiOwed)
<1>1. /\ Started \in SUBSET Calls
      /\ Done \in SUBSET Calls
      /\ SumAdded \in SUBSET Calls
      /\ SqLoAdded \in SUBSET Calls
      /\ SqHiOwed \in SUBSET Calls
  BY DEF Started, Done, SumAdded, SqLoAdded, SqHiOwed, MaxSeen, MinSeen
<1> QED
  BY <1>1, CallsAssumption, FS_Subset

-----------------------------------------------------------------------------
(* The initial states.                                                     *)

LEMMA InitInv == Init => IInv
<1> SUFFICES ASSUME Init PROVE IInv
  OBVIOUS
<1> USE DEF Init
<1>1. TypeOK
  BY WidthAssumption DEF TypeOK, PCs, UINT64_MAX
<1>2. /\ Started = {} /\ Done = {} /\ SumAdded = {} /\ SqLoAdded = {} /\ SqHiOwed = {}
      /\ MinSeen = {} /\ MaxSeen = {}
  BY DEF Started, Done, SumAdded, SqLoAdded, SqHiOwed, MaxSeen, MinSeen
<1>3. CountersCountCalls
  BY <1>2, FS_EmptySet DEF CountersCountCalls
<1>4. SumConserved
  BY <1>2, SumEmpty, WidthIsPositive, ModSmall DEF SumConserved
<1>5. SumOfSquaresConserved
  <2>1. sum_sq_ns + W * 0 = 0
    BY WidthIsPositive DEF sum_sq_ns
  <2> QED
    BY <1>2, <2>1, SumEmpty DEF SumOfSquaresConserved
<1>6. ExtremesOfPassedCalls
  BY <1>2 DEF ExtremesOfPassedCalls, IsLeast, IsGreatest
<1>7. SwapsWouldImprove
  BY DEF SwapsWouldImprove
<1> QED
  BY <1>1, <1>3, <1>4, <1>5, <1>6, <1>7 DEF IInv

-----------------------------------------------------------------------------
(* Every step preserves each part of the invariant.                        *)

LEMMA TypeStep == TypeOK /\ [Next]_vars => TypeOK'
<1> SUFFICES ASSUME TypeOK, [Next]_vars PROVE TypeOK'
  OBVIOUS
<1> USE WidthAssumption DEF TypeOK, Goto, probeVars, PCs
<1>1. ASSUME NEW c \in Calls, Enter(c) PROVE TypeOK'
  <2>1. PICK start_ns, end_ns \in Times :
               delta' = [delta EXCEPT ![c] = (end_ns - start_ns) % W]
    BY <1>1 DEF Enter, Elapsed
  <2>2. (end_ns - start_ns) % W \in 0..W - 1
    <3>1. start_ns \in 0..W - 1 /\ end_ns \in 0..W - 1
      BY TimesAssumption
    <3>2. end_ns - start_ns \in Int
      BY <3>1
    <3> QED
      BY <3>2, Wraps
  <2> QED
    BY <1>1, <2>1, <2>2 DEF Enter
<1>2. ASSUME NEW c \in Calls, AddSum(c) PROVE TypeOK'
  <2>1. (sum_ns + delta[c]) % W \in 0..W - 1
    <3>1. sum_ns + delta[c] \in Int
      OBVIOUS
    <3> QED
      BY <3>1, Wraps
  <2> QED
    BY <1>2, <2>1 DEF AddSum
<1>3. ASSUME NEW c \in Calls, LowerMin(c) PROVE TypeOK'
  BY <1>3 DEF LowerMin, MinIsLow, MinIsHigh, SwapMin, RetryMin
<1>4. ASSUME NEW c \in Calls, RaiseMax(c) PROVE TypeOK'
  BY <1>4 DEF RaiseMax, MaxIsHigh, MaxIsLow, SwapMax, RetryMax
<1>5. ASSUME NEW c \in Calls, AddSqLo(c) PROVE TypeOK'
  <2> DEFINE sq == delta[c] * delta[c]
             owed == ((sq \div W) + Carry(sum_sq_ns_lo, sq % W)) % W
  <2>1. /\ (sum_sq_ns_lo + (sq % W)) % W \in 0..W - 1
        /\ owed \in 0..W - 1
    BY SplitSquare DEF Carry
  <2>2. delta_sq_hi' = [delta_sq_hi EXCEPT ![c] = owed]
    BY <1>5 DEF AddSqLo
  <2> QED
    BY <1>5, <2>1, <2>2 DEF AddSqLo
<1>6. ASSUME NEW c \in Calls, AddSqHi(c) PROVE TypeOK'
  <2>1. (sum_sq_ns_hi + delta_sq_hi[c]) % W \in 0..W - 1
    <3>1. sum_sq_ns_hi + delta_sq_hi[c] \in Int
      OBVIOUS
    <3> QED
      BY <3>1, Wraps
  <2> QED
    BY <1>6, <2>1 DEF AddSqHi
<1>7. ASSUME NEW c \in Calls, Finish(c) PROVE TypeOK'
  BY <1>7 DEF Finish
<1>8. CASE UNCHANGED vars
  BY <1>8 DEF vars, callVars
<1> QED
  BY <1>1, <1>2, <1>3, <1>4, <1>5, <1>6, <1>7, <1>8 DEF Next, Proceed

(* The counters are moved with the set of calls each of them counts.       *)
LEMMA CountersStep ==
  TypeOK /\ CountersCountCalls /\ [Next]_vars => CountersCountCalls'
<1> SUFFICES ASSUME TypeOK, CountersCountCalls, [Next]_vars
             PROVE  CountersCountCalls'
  OBVIOUS
<1> USE DEF TypeOK, CountersCountCalls, Goto, probeVars
<1>1. ASSUME NEW c \in Calls, Enter(c) PROVE CountersCountCalls'
  <2>1. c \notin Started /\ Started' = Started \union {c} /\ Done' = Done
    BY <1>1 DEF Enter, Started, Done
  <2>2. Cardinality(Started') = Cardinality(Started) + 1
    BY <2>1, CallSetsFinite, FS_AddElement
  <2> QED
    BY <1>1, <2>1, <2>2 DEF Enter
<1>2. ASSUME NEW c \in Calls, Finish(c) PROVE CountersCountCalls'
  <2>1. c \notin Done /\ Done' = Done \union {c} /\ Started' = Started
    BY <1>2 DEF Finish, Started, Done
  <2>2. Cardinality(Done') = Cardinality(Done) + 1
    BY <2>1, CallSetsFinite, FS_AddElement
  <2> QED
    BY <1>2, <2>1, <2>2 DEF Finish
<1>3. ASSUME NEW c \in Calls,
             AddSum(c) \/ LowerMin(c) \/ RaiseMax(c) \/ AddSqLo(c) \/ AddSqHi(c)
      PROVE  CountersCountCalls'
  <2>1. Started' = Started /\ Done' = Done
    BY <1>3 DEF Started, Done, AddSum, LowerMin, MinIsLow, MinIsHigh, SwapMin, RetryMin,
         RaiseMax, MaxIsHigh, MaxIsLow, SwapMax, RetryMax, AddSqLo, AddSqHi
  <2>2. UNCHANGED <<num_samples_1, num_samples_2>>
    BY <1>3 DEF AddSum, LowerMin, MinIsLow, MinIsHigh, SwapMin, RetryMin,
         RaiseMax, MaxIsHigh, MaxIsLow, SwapMax, RetryMax, AddSqLo, AddSqHi
  <2> QED
    BY <2>1, <2>2
<1>4. CASE UNCHANGED vars
  BY <1>4 DEF vars, callVars, Started, Done
<1> QED
  BY <1>1, <1>2, <1>3, <1>4 DEF Next, Proceed

(* Only AddSum changes the sum, and it adds what its call contributes.     *)
LEMMA SumStep ==
  TypeOK /\ SumConserved /\ [Next]_vars => SumConserved'
<1> SUFFICES ASSUME TypeOK, SumConserved, [Next]_vars PROVE SumConserved'
  OBVIOUS
<1> USE DEF TypeOK, SumConserved, Goto, probeVars
<1>1. ASSUME NEW c \in Calls, Enter(c) PROVE SumConserved'
  <2>1. SumAdded' = SumAdded /\ c \notin SumAdded
    BY <1>1 DEF Enter, SumAdded
  <2>2. \A x \in SumAdded : delta'[x] = delta[x]
    BY <1>1, <2>1 DEF Enter, SumAdded
  <2>3. SumOver(SumAdded, delta') = SumOver(SumAdded, delta)
    BY <2>2, SumSame
  <2> QED
    BY <1>1, <2>1, <2>3 DEF Enter
<1>2. ASSUME NEW c \in Calls, AddSum(c) PROVE SumConserved'
  <2>1. SumAdded' = SumAdded \union {c} /\ c \notin SumAdded
    BY <1>2 DEF AddSum, SumAdded
  <2>2. delta[c] \in 0..W * W
    BY WidthAssumption, WidthIsPositive
  <2>3. SumOver(SumAdded', delta) = SumOver(SumAdded, delta) + delta[c]
    BY <2>1, <2>2, CallSetsFinite, SumAdd
  <2>4. SumOver(SumAdded, delta) \in Int /\ delta[c] \in Int
    BY CallSetsFinite, SumType, WidthIsPositive
  <2>5. sum_ns' = (SumOver(SumAdded, delta) + delta[c]) % W
    BY <1>2, <2>4, WidthIsPositive, ModAdd DEF AddSum
  <2> QED
    BY <1>2, <2>3, <2>5 DEF AddSum
<1>3. ASSUME NEW c \in Calls,
             LowerMin(c) \/ RaiseMax(c) \/ AddSqLo(c) \/ AddSqHi(c) \/ Finish(c)
      PROVE  SumConserved'
  <2>1. SumAdded' = SumAdded
    BY <1>3 DEF SumAdded, LowerMin, MinIsLow, MinIsHigh, SwapMin, RetryMin,
         RaiseMax, MaxIsHigh, MaxIsLow, SwapMax, RetryMax, AddSqLo, AddSqHi, Finish
  <2>2. UNCHANGED <<sum_ns, delta>>
    BY <1>3 DEF LowerMin, MinIsLow, MinIsHigh, SwapMin, RetryMin,
         RaiseMax, MaxIsHigh, MaxIsLow, SwapMax, RetryMax, AddSqLo, AddSqHi, Finish
  <2> QED
    BY <2>1, <2>2
<1>4. CASE UNCHANGED vars
  BY <1>4 DEF vars, callVars, SumAdded
<1> QED
  BY <1>1, <1>2, <1>3, <1>4 DEF Next, Proceed

(* The two halves of an update of the sum of squares add up: the first     *)
(* leaves to the second exactly what it did not add itself.                *)
LEMMA SumOfSquaresStep ==
  TypeOK /\ SumOfSquaresConserved /\ [Next]_vars => SumOfSquaresConserved'
<1> SUFFICES ASSUME TypeOK, SumOfSquaresConserved, [Next]_vars
             PROVE  SumOfSquaresConserved'
  OBVIOUS
<1> DEFINE owing == SumOver(SqHiOwed, delta_sq_hi)
           added == SumOver(SqLoAdded, Squares(delta))
<1>0. /\ sum_sq_ns_lo \in 0..W - 1 /\ sum_sq_ns_hi \in 0..W - 1
      /\ owing \in Nat /\ added \in Nat
      /\ W \in Nat \ {0} /\ W * W \in Nat \ {0}
  BY CallSetsFinite, SumType, WidthIsPositive DEF TypeOK
<1>1. ASSUME NEW c \in Calls, Enter(c) PROVE SumOfSquaresConserved'
  <2>1. SqLoAdded' = SqLoAdded /\ c \notin SqLoAdded /\ SqHiOwed' = SqHiOwed
    BY <1>1 DEF TypeOK, Enter, Goto, SqLoAdded, MaxSeen, MinSeen, SumAdded, SqHiOwed
  <2>2. \A x \in SqLoAdded : Squares(delta')[x] = Squares(delta)[x]
    BY <1>1, <2>1 DEF TypeOK, Enter, Squares, SqLoAdded, MaxSeen, MinSeen, SumAdded
  <2>3. SumOver(SqLoAdded, Squares(delta')) = added
    BY <2>2, SumSame
  <2> QED
    BY <1>1, <2>1, <2>3 DEF Enter, SumOfSquaresConserved, sum_sq_ns
<1>2. ASSUME NEW c \in Calls, AddSqLo(c) PROVE SumOfSquaresConserved'
  <2> DEFINE sq == delta[c] * delta[c]
             lo2 == (sum_sq_ns_lo + (sq % W)) % W
             owed == ((sq \div W) + (sum_sq_ns_lo + (sq % W)) \div W) % W
  <2>1. /\ SqLoAdded' = SqLoAdded \union {c} /\ c \notin SqLoAdded
        /\ SqHiOwed' = SqHiOwed \union {c} /\ c \notin SqHiOwed
    BY <1>2 DEF TypeOK, AddSqLo, Goto, SqLoAdded, MaxSeen, MinSeen, SumAdded, SqHiOwed
  <2>2. /\ lo2 \in 0..W - 1 /\ owed \in 0..W - 1
        /\ lo2 + W * owed = sum_sq_ns_lo + sq
    <3>1. delta[c] \in 0..W - 1
      BY DEF TypeOK
    <3> QED
      BY <1>0, <3>1, SplitSquare
  <2>3. /\ sum_sq_ns_lo' = lo2 /\ sum_sq_ns_hi' = sum_sq_ns_hi /\ delta' = delta
        /\ delta_sq_hi' = [delta_sq_hi EXCEPT ![c] = owed]
    BY <1>2 DEF AddSqLo, Carry
  <2>4. sq \in 0..W * W /\ Squares(delta)[c] = sq
    <3>1. delta[c] \in 0..W - 1 /\ DOMAIN delta = Calls
      BY DEF TypeOK
    <3>2. sq >= 0 /\ sq <= W * W
      <4>1. delta[c] * delta[c] <= delta[c] * W
        BY <1>0, <3>1
      <4>2. delta[c] * W <= W * W
        BY <1>0, <3>1
      <4> QED
        BY <1>0, <3>1, <4>1, <4>2
    <3> QED
      BY <1>0, <3>1, <3>2 DEF Squares
  <2>5. delta_sq_hi'[c] = owed /\ \A x \in SqHiOwed : delta_sq_hi'[x] = delta_sq_hi[x]
    BY <2>1, <2>3 DEF TypeOK, SqHiOwed
  <2>6. owed \in 0..W * W
    BY <1>0, <2>2
  <2> HIDE DEF sq, lo2, owed
  <2>7. SumOver(SqHiOwed', delta_sq_hi') = owing + owed
    <3>1. SumOver(SqHiOwed \union {c}, delta_sq_hi')
            = SumOver(SqHiOwed, delta_sq_hi') + delta_sq_hi'[c]
      BY <2>1, <2>5, <2>6, CallSetsFinite, SumAdd
    <3>2. SumOver(SqHiOwed, delta_sq_hi') = owing
      BY <2>5, SumSame
    <3> QED
      BY <2>1, <2>5, <3>1, <3>2
  <2>8. SumOver(SqLoAdded', Squares(delta')) = added + sq
    <3>1. SumOver(SqLoAdded \union {c}, Squares(delta)) = added + Squares(delta)[c]
      BY <2>1, <2>4, CallSetsFinite, SumAdd
    <3> QED
      BY <2>1, <2>3, <2>4, <3>1
  <2> DEFINE here == sum_sq_ns + W * owing
  <2>9. (sum_sq_ns_hi * W + lo2) + W * (owing + owed) = here + sq
    BY <1>0, <2>2, <2>4 DEF sum_sq_ns
  <2>10. here \in Int /\ sq \in Int /\ here % (W * W) = added % (W * W)
    BY <1>0, <2>4 DEF sum_sq_ns, SumOfSquaresConserved
  <2> HIDE DEF here, owing, added
  <2>11. (here + sq) % (W * W) = (added + sq) % (W * W)
    <3> DEFINE m == W * W
    <3>1. m \in Nat \ {0} /\ added \in Int /\ here % m = added % m
      BY <1>0, <2>10
    <3> HIDE DEF m
    <3>2. (here + sq) % m = (added + sq) % m
      BY <2>10, <3>1, ModCongruence
    <3> QED
      BY <3>2 DEF m
  <2> QED
    BY <2>3, <2>7, <2>8, <2>9, <2>11 DEF SumOfSquaresConserved, sum_sq_ns
<1>3. ASSUME NEW c \in Calls, AddSqHi(c) PROVE SumOfSquaresConserved'
  <2> DEFINE owed == delta_sq_hi[c]
             full == sum_sq_ns_hi + owed
             k == full \div W
             hi2 == full % W
             rest == SumOver(SqHiOwed \ {c}, delta_sq_hi)
  <2>1. /\ SqLoAdded' = SqLoAdded /\ c \in SqHiOwed /\ SqHiOwed' = SqHiOwed \ {c}
    BY <1>3 DEF TypeOK, AddSqHi, Goto, SqLoAdded, MaxSeen, MinSeen, SumAdded, SqHiOwed
  <2>2. /\ sum_sq_ns_hi' = hi2
        /\ UNCHANGED <<sum_sq_ns_lo, delta, delta_sq_hi>>
    BY <1>3 DEF AddSqHi
  <2>3. owed \in 0..W - 1
    BY DEF TypeOK
  <2>4. owed \in 0..W * W
    BY <1>0, <2>3
  <2>5. rest + owed = owing
    BY <2>1, <2>4, CallSetsFinite, SumRemove
  <2>6. rest \in Nat
    <3>1. IsFiniteSet(SqHiOwed \ {c})
      BY CallSetsFinite, FS_RemoveElement
    <3> QED
      BY <3>1, SumType
  <2>7. full \in Int
    BY <1>0, <2>3
  <2>8. hi2 \in 0..W - 1 /\ k \in Int /\ full = W * k + hi2
    BY <1>0, <2>7, DivMod
  <2> HIDE DEF k, hi2, rest, owed, owing
  <2> DEFINE here == sum_sq_ns + W * owing
  <2>9. (hi2 * W + sum_sq_ns_lo) + W * rest = here + (0 - k) * (W * W)
    <3>1. hi2 = sum_sq_ns_hi + owed - W * k
      BY <1>0, <2>3, <2>8
    <3>2. hi2 * W = sum_sq_ns_hi * W + owed * W - k * (W * W)
      BY <1>0, <2>3, <2>8, <3>1
    <3>3. W * owing = W * rest + owed * W
      BY <1>0, <2>3, <2>5, <2>6
    <3> QED
      BY <1>0, <2>3, <2>6, <2>8, <3>2, <3>3 DEF sum_sq_ns
  <2>10. here \in Int /\ 0 - k \in Int
    BY <1>0, <2>8 DEF sum_sq_ns
  <2>11. here % (W * W) = added % (W * W)
    BY DEF SumOfSquaresConserved, owing
  <2> HIDE DEF here, added
  <2>12. (here + (0 - k) * (W * W)) % (W * W) = here % (W * W)
    BY <1>0, <2>10, ModShift
  <2> QED
    BY <2>1, <2>2, <2>9, <2>11, <2>12 DEF SumOfSquaresConserved, sum_sq_ns, rest, added
<1>4. ASSUME NEW c \in Calls,
             AddSum(c) \/ LowerMin(c) \/ RaiseMax(c) \/ Finish(c)
      PROVE  SumOfSquaresConserved'
  <2>1. SqLoAdded' = SqLoAdded /\ SqHiOwed' = SqHiOwed
    BY <1>4 DEF TypeOK, Goto, SqLoAdded, MaxSeen, MinSeen, SumAdded, SqHiOwed, AddSum,
         LowerMin, MinIsLow, MinIsHigh, SwapMin, RetryMin,
         RaiseMax, MaxIsHigh, MaxIsLow, SwapMax, RetryMax, Finish
  <2>2. UNCHANGED <<sum_sq_ns_lo, sum_sq_ns_hi, delta, delta_sq_hi>>
    BY <1>4 DEF probeVars, AddSum, LowerMin, MinIsLow, MinIsHigh, SwapMin, RetryMin,
         RaiseMax, MaxIsHigh, MaxIsLow, SwapMax, RetryMax, Finish
  <2> QED
    BY <2>1, <2>2 DEF SumOfSquaresConserved, sum_sq_ns
<1>5. CASE UNCHANGED vars
  BY <1>5 DEF vars, probeVars, callVars, SumOfSquaresConserved, sum_sq_ns,
       SqLoAdded, MaxSeen, MinSeen, SumAdded, SqHiOwed
<1> QED
  BY <1>1, <1>2, <1>3, <1>4, <1>5 DEF Next, Proceed

(* A swap succeeds only from the value its call improves on, so it widens  *)
(* the extreme; a call that leaves the loop is within it.                  *)
LEMMA ExtremesStep ==
  TypeOK /\ SwapsWouldImprove /\ ExtremesOfPassedCalls /\ [Next]_vars
    => ExtremesOfPassedCalls'
<1> SUFFICES ASSUME TypeOK, SwapsWouldImprove, ExtremesOfPassedCalls, [Next]_vars
             PROVE  ExtremesOfPassedCalls'
  OBVIOUS
<1> USE DEF ExtremesOfPassedCalls, IsLeast, IsGreatest
<1>0. /\ min_ns \in Int /\ max_ns \in Int
      /\ \A x \in Calls : delta[x] \in Int
      /\ MinSeen \subseteq Calls /\ MaxSeen \subseteq Calls
  BY WidthIsPositive DEF TypeOK, MinSeen, MaxSeen, SumAdded
<1>1. ASSUME NEW c \in Calls, Enter(c) PROVE ExtremesOfPassedCalls'
  <2>1. /\ MinSeen' = MinSeen /\ MaxSeen' = MaxSeen /\ UNCHANGED <<min_ns, max_ns>>
        /\ c \notin MinSeen /\ c \notin MaxSeen
    BY <1>1 DEF TypeOK, Enter, Goto, MinSeen, MaxSeen, SumAdded
  <2>2. \A x \in MinSeen \union MaxSeen : delta'[x] = delta[x]
    BY <1>0, <1>1, <2>1 DEF TypeOK, Enter
  <2> QED
    BY <2>1, <2>2
<1>2. ASSUME NEW c \in Calls, MinIsLow(c) PROVE ExtremesOfPassedCalls'
  <2>1. MinSeen' = MinSeen \union {c} /\ MaxSeen' = MaxSeen
    BY <1>2 DEF TypeOK, MinIsLow, Goto, MinSeen, MaxSeen, SumAdded
  <2>2. min_ns <= delta[c] /\ UNCHANGED <<min_ns, max_ns, delta>>
    BY <1>2 DEF MinIsLow, probeVars
  <2> QED
    BY <1>0, <2>1, <2>2
<1>3. ASSUME NEW c \in Calls, SwapMin(c) PROVE ExtremesOfPassedCalls'
  <2>1. MinSeen' = MinSeen \union {c} /\ MaxSeen' = MaxSeen
    BY <1>3 DEF TypeOK, SwapMin, Goto, MinSeen, MaxSeen, SumAdded
  <2>2. min_ns' = delta[c] /\ delta[c] < min_ns /\ UNCHANGED <<max_ns, delta>>
    BY <1>3 DEF SwapMin, Goto, SwapsWouldImprove
  <2> QED
    BY <1>0, <2>1, <2>2
<1>4. ASSUME NEW c \in Calls, MaxIsHigh(c) PROVE ExtremesOfPassedCalls'
  <2>1. MaxSeen' = MaxSeen \union {c} /\ MinSeen' = MinSeen
    BY <1>4 DEF TypeOK, MaxIsHigh, Goto, MinSeen, MaxSeen, SumAdded
  <2>2. max_ns >= delta[c] /\ UNCHANGED <<min_ns, max_ns, delta>>
    BY <1>4 DEF MaxIsHigh, probeVars
  <2> QED
    BY <1>0, <2>1, <2>2
<1>5. ASSUME NEW c \in Calls, SwapMax(c) PROVE ExtremesOfPassedCalls'
  <2>1. MaxSeen' = MaxSeen \union {c} /\ MinSeen' = MinSeen
    BY <1>5 DEF TypeOK, SwapMax, Goto, MinSeen, MaxSeen, SumAdded
  <2>2. max_ns' = delta[c] /\ delta[c] > max_ns /\ UNCHANGED <<min_ns, delta>>
    BY <1>5 DEF SwapMax, Goto, SwapsWouldImprove
  <2> QED
    BY <1>0, <2>1, <2>2
<1>6. ASSUME NEW c \in Calls,
             \/ AddSum(c) \/ MinIsHigh(c) \/ RetryMin(c) \/ MaxIsLow(c) \/ RetryMax(c)
             \/ AddSqLo(c) \/ AddSqHi(c) \/ Finish(c)
      PROVE  ExtremesOfPassedCalls'
  <2>1. MinSeen' = MinSeen /\ MaxSeen' = MaxSeen
    BY <1>6 DEF TypeOK, Goto, MinSeen, MaxSeen, SumAdded, AddSum, MinIsHigh, RetryMin,
         MaxIsLow, RetryMax, AddSqLo, AddSqHi, Finish
  <2>2. UNCHANGED <<min_ns, max_ns, delta>>
    BY <1>6 DEF probeVars, AddSum, MinIsHigh, RetryMin, MaxIsLow, RetryMax, AddSqLo,
         AddSqHi, Finish
  <2> QED
    BY <2>1, <2>2
<1>7. CASE UNCHANGED vars
  BY <1>7 DEF vars, probeVars, callVars, MinSeen, MaxSeen, SumAdded
<1> QED
  BY <1>1, <1>2, <1>3, <1>4, <1>5, <1>6, <1>7 DEF Next, Proceed, LowerMin, RaiseMax

(* What a call loaded is never better than what the probe holds later.     *)
LEMMA SwapsStep ==
  TypeOK /\ SwapsWouldImprove /\ [Next]_vars => SwapsWouldImprove'
<1> SUFFICES ASSUME TypeOK, SwapsWouldImprove, [Next]_vars PROVE SwapsWouldImprove'
  OBVIOUS
<1> USE DEF SwapsWouldImprove, Goto
<1>0. /\ min_ns \in Int /\ max_ns \in Int
      /\ \A x \in Calls : delta[x] \in Int /\ seen[x] \in Int
      /\ pc \in [Calls -> PCs] /\ delta \in [Calls -> 0..W - 1]
      /\ seen \in [Calls -> 0..W - 1]
  BY WidthIsPositive DEF TypeOK
<1>1. ASSUME NEW c \in Calls, MinIsHigh(c) PROVE SwapsWouldImprove'
  BY <1>0, <1>1 DEF MinIsHigh, probeVars
<1>2. ASSUME NEW c \in Calls, SwapMin(c) PROVE SwapsWouldImprove'
  BY <1>0, <1>2 DEF SwapMin
<1>3. ASSUME NEW c \in Calls, MaxIsLow(c) PROVE SwapsWouldImprove'
  BY <1>0, <1>3 DEF MaxIsLow, probeVars
<1>4. ASSUME NEW c \in Calls, SwapMax(c) PROVE SwapsWouldImprove'
  BY <1>0, <1>4 DEF SwapMax
<1>5. ASSUME NEW c \in Calls,
             \/ Enter(c) \/ AddSum(c) \/ MinIsLow(c) \/ RetryMin(c) \/ MaxIsHigh(c)
             \/ RetryMax(c) \/ AddSqLo(c) \/ AddSqHi(c) \/ Finish(c)
      PROVE  SwapsWouldImprove'
  <2>1. UNCHANGED <<min_ns, max_ns, seen>>
    BY <1>5 DEF probeVars, Enter, AddSum, MinIsLow, RetryMin, MaxIsHigh, RetryMax, AddSqLo,
         AddSqHi, Finish
  <2>2. \A x \in Calls : pc'[x] \in {"cas_min", "cas_max"} => pc'[x] = pc[x]
    BY <1>0, <1>5 DEF Enter, AddSum, MinIsLow, RetryMin, MaxIsHigh, RetryMax, AddSqLo,
         AddSqHi, Finish
  <2>3. \A x \in Calls : delta'[x] = delta[x] \/ pc'[x] = "add_sum"
    BY <1>0, <1>5 DEF Enter, AddSum, MinIsLow, RetryMin, MaxIsHigh, RetryMax, AddSqLo,
         AddSqHi, Finish
  <2> QED
    BY <2>1, <2>2, <2>3
<1>6. CASE UNCHANGED vars
  BY <1>6 DEF vars, probeVars, callVars
<1> QED
  BY <1>1, <1>2, <1>3, <1>4, <1>5, <1>6 DEF Next, Proceed, LowerMin, RaiseMax

-----------------------------------------------------------------------------
(* The theorems.                                                           *)

(* The invariant holds in every state the probe can reach.                 *)
THEOREM ProbeInvariant == Spec => []IInv
<1>1. IInv /\ [Next]_vars => IInv'
  BY TypeStep, CountersStep, SumStep, SumOfSquaresStep, ExtremesStep, SwapsStep DEF IInv
<1> QED
  BY <1>1, InitInv, PTL DEF Spec

(* Every field of the probe stays a word, every local of a call too.       *)
THEOREM ProbeTypeCorrect == Spec => []TypeOK
<1>1. IInv => TypeOK
  BY DEF IInv
<1> QED
  BY <1>1, ProbeInvariant, PTL

(* No carry between the halves of the sum of squares is lost or doubled.   *)
THEOREM CarriesAreConserved == Spec => []SumOfSquaresConserved
<1>1. IInv => SumOfSquaresConserved
  BY DEF IInv
<1> QED
  BY <1>1, ProbeInvariant, PTL

(* The extremes are those of the calls that have passed the swap loops.    *)
THEOREM ExtremesAreReal == Spec => []ExtremesOfPassedCalls
<1>1. IInv => ExtremesOfPassedCalls
  BY DEF IInv
<1> QED
  BY <1>1, ProbeInvariant, PTL

(* Once everything that started is done, nothing is owed.                  *)
LEMMA ExactWhenAllDone == IInv /\ Started = Done => ExactFor(stats, Done, delta)
<1> SUFFICES ASSUME IInv, Started = Done PROVE ExactFor(stats, Done, delta)
  OBVIOUS
<1>1. /\ SumAdded = Done /\ MinSeen = Done /\ MaxSeen = Done /\ SqLoAdded = Done
      /\ SqHiOwed = {}
  BY DEF Started, Done, SumAdded, MinSeen, MaxSeen, SqLoAdded, SqHiOwed
<1>2. sum_ns = SumOver(Done, delta) % W
  BY <1>1 DEF IInv, SumConserved
<1>3. sum_sq_ns = SumOver(Done, Squares(delta)) % (W * W)
  <2>1. (sum_sq_ns + W * 0) % (W * W) = SumOver(Done, Squares(delta)) % (W * W)
    BY <1>1, SumEmpty DEF IInv, SumOfSquaresConserved
  <2>2. sum_sq_ns \in 0..W * W - 1 /\ sum_sq_ns + W * 0 = sum_sq_ns
    <3>1. /\ W \in Nat \ {0} /\ sum_sq_ns_lo \in 0..W - 1 /\ sum_sq_ns_hi \in 0..W - 1
      BY WidthIsPositive DEF IInv, TypeOK
    <3>2. sum_sq_ns_hi * W <= (W - 1) * W /\ sum_sq_ns_hi * W >= 0
      BY <3>1
    <3> QED
      BY <3>1, <3>2 DEF sum_sq_ns
  <2>3. sum_sq_ns % (W * W) = sum_sq_ns
    BY <2>2, WidthIsPositive, ModSmall
  <2> QED
    BY <2>1, <2>2, <2>3
<1>4. IsLeast(min_ns, Done, delta) /\ IsGreatest(max_ns, Done, delta)
  BY <1>1 DEF IInv, ExtremesOfPassedCalls
<1> QED
  BY <1>2, <1>3, <1>4 DEF ExactFor, stats

(* Equal counters mean a probe at rest with exact statistics.              *)
THEOREM ProbeExactAtRest == Spec => []ExactAtRest
<1>1. IInv => ExactAtRest
  <2> SUFFICES ASSUME IInv, num_samples_1 = num_samples_2
               PROVE  Started = Done /\ ExactFor(stats, Done, delta)
    BY DEF ExactAtRest
  <2>1. Cardinality(Started) = Cardinality(Done)
    BY DEF IInv, CountersCountCalls
  <2>2. Done \in SUBSET Started
    BY DEF Started, Done
  <2>3. Started = Done
    BY <2>1, <2>2, CallSetsFinite, FS_Subset
  <2> QED
    BY <2>3, ExactWhenAllDone
<1> QED
  BY <1>1, ProbeInvariant, PTL

(* No step narrows the range between the extremes.                         *)
LEMMA StepWidens == IInv /\ [Next]_vars => min_ns' <= min_ns /\ max_ns' >= max_ns
<1> SUFFICES ASSUME IInv, [Next]_vars PROVE min_ns' <= min_ns /\ max_ns' >= max_ns
  OBVIOUS
<1>0. min_ns \in Int /\ max_ns \in Int
  BY WidthIsPositive DEF IInv, TypeOK
<1>1. ASSUME NEW c \in Calls, SwapMin(c) PROVE min_ns' <= min_ns /\ max_ns' >= max_ns
  BY <1>0, <1>1, WidthIsPositive DEF SwapMin, Goto, IInv, SwapsWouldImprove, TypeOK
<1>2. ASSUME NEW c \in Calls, SwapMax(c) PROVE min_ns' <= min_ns /\ max_ns' >= max_ns
  BY <1>0, <1>2, WidthIsPositive DEF SwapMax, Goto, IInv, SwapsWouldImprove, TypeOK
<1>3. ASSUME NEW c \in Calls,
             \/ Enter(c) \/ AddSum(c) \/ MinIsLow(c) \/ MinIsHigh(c) \/ RetryMin(c)
             \/ MaxIsHigh(c) \/ MaxIsLow(c) \/ RetryMax(c) \/ AddSqLo(c) \/ AddSqHi(c)
             \/ Finish(c)
      PROVE min_ns' <= min_ns /\ max_ns' >= max_ns
  BY <1>0, <1>3 DEF Enter, AddSum, MinIsLow, MinIsHigh, RetryMin, MaxIsHigh, MaxIsLow,
       RetryMax, AddSqLo, AddSqHi, Finish, probeVars
<1>4. CASE UNCHANGED vars
  BY <1>0, <1>4 DEF vars, probeVars
<1> QED
  BY <1>1, <1>2, <1>3, <1>4 DEF Next, Proceed, LowerMin, RaiseMax

(* The minimum never rises and the maximum never falls.                    *)
THEOREM ProbeExtremesOnlyWiden == Spec => ExtremesOnlyWiden
<1>1. IInv /\ [Next]_vars => [min_ns' <= min_ns /\ max_ns' >= max_ns]_vars
  BY StepWidens
<1> QED
  BY <1>1, ProbeInvariant, PTL DEF Spec, ExtremesOnlyWiden

-----------------------------------------------------------------------------
(* The refinement.                                                         *)

(* The values the four statistics take are those of the promise.           *)
LEMMA StatsType == TypeOK => stats \in Promise!Statistics
<1> SUFFICES ASSUME TypeOK PROVE stats \in Promise!Statistics
  OBVIOUS
<1>1. /\ W \in Nat \ {0} /\ sum_sq_ns_lo \in 0..W - 1 /\ sum_sq_ns_hi \in 0..W - 1
      /\ sum_ns \in 0..W - 1 /\ min_ns \in 0..W - 1 /\ max_ns \in 0..W - 1
  BY WidthIsPositive DEF TypeOK
<1>2. sum_sq_ns_hi * W <= (W - 1) * W /\ sum_sq_ns_hi * W >= 0
  BY <1>1
<1>3. sum_sq_ns \in 0..W * W - 1
  BY <1>1, <1>2 DEF sum_sq_ns
<1> QED
  BY <1>1, <1>3 DEF stats, Promise!Statistics

LEMMA ExactIsExact ==
  ASSUME NEW s, NEW S, NEW f
  PROVE  Promise!ExactFor(s, S, f) <=> ExactFor(s, S, f)
  BY DEF Promise!ExactFor, ExactFor, Promise!Cardinality, Cardinality, Promise!SumOver, SumOver, Promise!Units, Units,
     Promise!Squares, Squares, Promise!IsLeast, IsLeast, Promise!IsGreatest, IsGreatest,
     Promise!UINT64_MAX, UINT64_MAX

LEMMA InitKeepsPromise == Init => Promise!PromiseInit
<1> SUFFICES ASSUME Init PROVE Promise!PromiseInit
  OBVIOUS
<1>1. Started = {} /\ Done = {}
  BY DEF Init, Started, Done
<1>2. sum_sq_ns = 0
  BY WidthIsPositive DEF Init, sum_sq_ns
<1> QED
  BY <1>1, <1>2 DEF Init, stats, Promise!PromiseInit, Promise!UINT64_MAX, UINT64_MAX

LEMMA StepKeepsPromise ==
  IInv /\ IInv' /\ [Next]_vars => [Promise!PromiseNext]_(Promise!promiseVars)
<1> SUFFICES ASSUME IInv, IInv', [Next]_vars
             PROVE  [Promise!PromiseNext]_(Promise!promiseVars)
  OBVIOUS
<1>0. pc \in [Calls -> PCs] /\ delta \in [Calls -> 0..W - 1]
  BY DEF IInv, TypeOK
<1>1. ASSUME NEW c \in Calls, Enter(c) PROVE Promise!Begin(c)
  <2>1. /\ c \notin (Started \ Done) \union Done
        /\ Started' \ Done' = (Started \ Done) \union {c}
        /\ Done' = Done
    BY <1>0, <1>1 DEF Enter, Goto, Started, Done
  <2>2. PICK start_ns, end_ns \in Times :
               delta' = [delta EXCEPT ![c] = (end_ns - start_ns) % W]
    BY <1>1 DEF Enter, Elapsed
  <2>3. (end_ns - start_ns) % W \in 0..W - 1
    <3>1. start_ns \in 0..W - 1 /\ end_ns \in 0..W - 1
      BY TimesAssumption
    <3>2. end_ns - start_ns \in Int
      BY <3>1
    <3> QED
      BY <3>2, Wraps
  <2>4. stats' = stats
    BY <1>1 DEF Enter, stats, sum_sq_ns
  <2> QED
    BY <2>1, <2>2, <2>3, <2>4 DEF Promise!Begin
<1>2. ASSUME NEW c \in Calls, Finish(c) PROVE Promise!End(c)
  <2>1. /\ c \in Started \ Done
        /\ Done' = Done \union {c}
        /\ Started' = Started
    BY <1>0, <1>2 DEF Finish, Goto, Started, Done
  <2>2. stats' = stats /\ delta' = delta
    BY <1>2 DEF Finish, stats, sum_sq_ns
  <2>3. ASSUME Started \ Done = {c} PROVE ExactFor(stats, Done \union {c}, delta)
    <3>1. Started' = Done'
      BY <2>1, <2>3 DEF Started, Done
    <3>2. (IInv /\ Started = Done => ExactFor(stats, Done, delta))'
      BY ExactWhenAllDone, PTL
    <3>3. ExactFor(stats, Done, delta)'
      BY <3>1, <3>2
    <3>4. ExactFor(stats, Done, delta)' <=> ExactFor(stats', Done', delta')
      BY DEF ExactFor, IsLeast, IsGreatest
    <3> QED
      BY <2>1, <2>2, <3>3, <3>4
  <2> QED
    BY <2>1, <2>2, <2>3, ExactIsExact DEF Promise!End
<1>3. ASSUME NEW c \in Calls,
             AddSum(c) \/ LowerMin(c) \/ RaiseMax(c) \/ AddSqLo(c) \/ AddSqHi(c)
      PROVE  Promise!Update
  <2>1. Started' = Started /\ Done' = Done /\ c \in Started \ Done
    BY <1>0, <1>3 DEF Goto, Started, Done, AddSum, LowerMin, MinIsLow, MinIsHigh, SwapMin,
         RetryMin, RaiseMax, MaxIsHigh, MaxIsLow, SwapMax, RetryMax, AddSqLo, AddSqHi
  <2>2. delta' = delta
    BY <1>3 DEF AddSum, LowerMin, MinIsLow, MinIsHigh, SwapMin,
         RetryMin, RaiseMax, MaxIsHigh, MaxIsLow, SwapMax, RetryMax, AddSqLo, AddSqHi
  <2>3. stats' \in Promise!Statistics
    <3>1. (TypeOK => stats \in Promise!Statistics)'
      BY StatsType, PTL
    <3>2. Promise!Statistics' = Promise!Statistics
      BY DEF Promise!Statistics
    <3> QED
      BY <3>1, <3>2 DEF IInv
  <2>4. stats'.min <= stats.min /\ stats'.max >= stats.max
    BY StepWidens DEF stats
  <2> QED
    BY <2>1, <2>2, <2>3, <2>4 DEF Promise!Update
<1>4. CASE UNCHANGED vars
  BY <1>4 DEF vars, probeVars, callVars, Promise!promiseVars, stats, sum_sq_ns, Started, Done
<1> QED
  BY <1>1, <1>2, <1>3, <1>4 DEF Next, Proceed, Promise!PromiseNext

(* The lock-free updates implement the probe's promise.                    *)
THEOREM ProbeKeepsPromise == Spec => KeepsPromise
  BY InitKeepsPromise, StepKeepsPromise, ProbeInvariant, PTL
     DEF Spec, KeepsPromise, Promise!PromiseSpec

(***************************************************************************)
(* ProfileExport                                                           *)
(***************************************************************************)
(* Sums over a part.                                                       *)

LEMMA SumOfPart ==
  ASSUME NEW S, IsFiniteSet(S), NEW T \in SUBSET S, NEW f
  PROVE  SumOver(T, f) <= SumOver(S, f)
<1>1. Units(T, f) \in SUBSET Units(S, f)
  BY DEF Units
<1> QED
  BY <1>1, UnitsFinite, FS_Subset DEF SumOver

(* Exactness depends on the durations of the calls it is about only.       *)
LEMMA ExactSame ==
  ASSUME NEW S \in SUBSET Calls, NEW f, NEW g, DOMAIN f = Calls, DOMAIN g = Calls,
         \A c \in S : f[c] = g[c], NEW s, ExactFor(s, S, f)
  PROVE  ExactFor(s, S, g)
<1>1. SumOver(S, f) = SumOver(S, g)
  BY SumSame
<1>2. \A c \in S : Squares(f)[c] = Squares(g)[c]
  BY DEF Squares
<1>3. SumOver(S, Squares(f)) = SumOver(S, Squares(g))
  BY <1>2, SumSame
<1> QED
  BY <1>1, <1>3 DEF ExactFor, IsLeast, IsGreatest

-----------------------------------------------------------------------------
(* What a step of a call may change under a pass.                          *)

LEMMA InvStep == IInv /\ [Next]_vars => IInv'
  BY TypeStep, CountersStep, SumStep, SumOfSquaresStep, ExtremesStep, SwapsStep DEF IInv

LEMMA CallsOnlyProgress ==
  ASSUME IInv, [Next]_vars
  PROVE  /\ Started \subseteq Started' /\ Done \subseteq Done'
         /\ \A c \in Started : delta'[c] = delta[c]
         /\ Started = Done /\ Started' = Started =>
              UNCHANGED <<num_samples_1, sum_ns, sum_sq_ns_lo, sum_sq_ns_hi, min_ns, max_ns>>
<1> USE DEF Goto
<1>0. pc \in [Calls -> PCs] /\ delta \in [Calls -> 0..W - 1]
  BY DEF IInv, TypeOK
<1>1. ASSUME NEW c \in Calls, Enter(c)
      PROVE  /\ c \notin Started /\ Started' = Started \union {c} /\ Done' = Done
             /\ \A x \in Started : delta'[x] = delta[x]
  BY <1>0, <1>1 DEF Enter, Started, Done
<1>2. ASSUME NEW c \in Calls, Proceed(c)
      PROVE  /\ c \in Started \ Done /\ Started' = Started /\ Done \subseteq Done'
             /\ delta' = delta
  BY <1>0, <1>2 DEF Proceed, Started, Done, AddSum, LowerMin, MinIsLow, MinIsHigh, SwapMin,
     RetryMin, RaiseMax, MaxIsHigh, MaxIsLow, SwapMax, RetryMax, AddSqLo, AddSqHi, Finish
<1>3. CASE UNCHANGED vars
  BY <1>3 DEF vars, probeVars, callVars, Started, Done
<1> QED
  BY <1>1, <1>2, <1>3 DEF Next

(* The calls that are done are past every field, and all have started.     *)
LEMMA DoneIsPast ==
  /\ Done \subseteq SumAdded /\ Done \subseteq MinSeen /\ Done \subseteq MaxSeen
  /\ Done \subseteq Started
  /\ SumAdded \subseteq Started /\ MinSeen \subseteq Started /\ MaxSeen \subseteq Started
  /\ Started \subseteq Calls
  BY DEF Done, Started, SumAdded, MinSeen, MaxSeen

(* The current values are themselves bracketed.                            *)
LEMMA CurrentValues ==
  ASSUME IInv, NEW S \in SUBSET Done
  PROVE  /\ num_samples_1 \in Cardinality(S)..Cardinality(Started)
         /\ num_samples_2 \in Cardinality(S)..Cardinality(Started)
         /\ \A c \in S : min_ns <= delta[c] /\ max_ns >= delta[c]
         /\ min_ns = UINT64_MAX \/ \E c \in Started : min_ns = delta[c]
         /\ max_ns = 0 \/ \E c \in Started : max_ns = delta[c]
         /\ SumOver(Started, delta) < W =>
              sum_ns \in SumOver(S, delta)..SumOver(Started, delta)
<1>1. /\ num_samples_1 = Cardinality(Started) /\ num_samples_2 = Cardinality(Done)
      /\ sum_ns = SumOver(SumAdded, delta) % W
      /\ IsLeast(min_ns, MinSeen, delta) /\ IsGreatest(max_ns, MaxSeen, delta)
  BY DEF IInv, CountersCountCalls, SumConserved, ExtremesOfPassedCalls
<1>2. /\ IsFiniteSet(S) /\ Cardinality(S) <= Cardinality(Done)
      /\ Cardinality(S) \in Nat
  BY CallSetsFinite, FS_Subset, FS_CardinalityType
<1>3. /\ Cardinality(Done) <= Cardinality(Started)
      /\ Cardinality(Done) \in Nat /\ Cardinality(Started) \in Nat
  <2>1. Done \in SUBSET Started
    BY DoneIsPast
  <2> QED
    BY <2>1, CallSetsFinite, FS_Subset, FS_CardinalityType
<1>4. /\ \A c \in S : min_ns <= delta[c] /\ max_ns >= delta[c]
      /\ min_ns = UINT64_MAX \/ \E c \in Started : min_ns = delta[c]
      /\ max_ns = 0 \/ \E c \in Started : max_ns = delta[c]
  BY <1>1, DoneIsPast DEF IsLeast, IsGreatest
<1>5. ASSUME SumOver(Started, delta) < W
      PROVE  sum_ns \in SumOver(S, delta)..SumOver(Started, delta)
  <2>1. S \in SUBSET SumAdded /\ SumAdded \in SUBSET Started
    BY DoneIsPast
  <2>2. /\ SumOver(S, delta) <= SumOver(SumAdded, delta)
        /\ SumOver(SumAdded, delta) <= SumOver(Started, delta)
    BY <2>1, CallSetsFinite, SumOfPart
  <2>3. /\ SumOver(S, delta) \in Nat /\ SumOver(SumAdded, delta) \in Nat
        /\ SumOver(Started, delta) \in Nat
    BY <1>2, CallSetsFinite, SumType
  <2>4. SumOver(SumAdded, delta) \in 0..W - 1
    BY <1>5, <2>2, <2>3, WidthIsPositive
  <2>5. sum_ns = SumOver(SumAdded, delta)
    BY <1>1, <2>4, WidthIsPositive, ModSmall
  <2> QED
    BY <2>2, <2>3, <2>5
<1> QED
  BY <1>1, <1>2, <1>3, <1>4, <1>5

-----------------------------------------------------------------------------
(* The initial states.                                                     *)

LEMMA FitType ==
  ASSUME NEW size \in Nat
  PROVE  /\ Fit(size) \in 0..NumProbes
         /\ Fit(size) * ProbeSize <= size
         /\ Fit(size) = NumProbes \/ (Fit(size) + 1) * ProbeSize > size
<1> DEFINE q == size \div ProbeSize
           r == size % ProbeSize
<1>1. r \in 0..ProbeSize - 1 /\ q \in Int /\ size = ProbeSize * q + r
  BY ExportAssumption, DivMod
<1>2. Fit(size) = IF q < NumProbes THEN q ELSE NumProbes
  BY DEF Fit
<1> HIDE DEF q, r
<1>3. q >= 0
  <2>1. CASE q <= -1
    <3>1. ProbeSize * q <= 0 - ProbeSize
      BY <1>1, <2>1, ExportAssumption
    <3> QED
      BY <1>1, <3>1, ExportAssumption
  <2> QED
    BY <1>1, <2>1
<1>4. CASE q < NumProbes
  <2>1. q * ProbeSize <= size /\ (q + 1) * ProbeSize > size
    BY <1>1, ExportAssumption
  <2> QED
    BY <1>1, <1>2, <1>3, <1>4, <2>1, ExportAssumption
<1>5. CASE q >= NumProbes
  <2>1. NumProbes * ProbeSize <= q * ProbeSize
    BY <1>1, <1>5, ExportAssumption
  <2>2. q * ProbeSize <= size
    BY <1>1, ExportAssumption
  <2> QED
    BY <1>1, <1>2, <1>5, <2>1, <2>2, ExportAssumption
<1> QED
  BY <1>1, <1>4, <1>5, ExportAssumption

LEMMA ExportInitInv == ExportInit => ExportInv
<1> SUFFICES ASSUME ExportInit PROVE ExportInv
  OBVIOUS
<1> USE DEF ExportInit
<1>1. IInv
  BY InitInv
<1>2. ExportTypeOK
  BY <1>1, WidthIsPositive, ExportAssumption DEF IInv, ExportTypeOK, Copies, EmptyCopy
<1>3. DOMAIN export_probes = 0..i - 1 /\ ~Exported
  BY DEF Exported
<1>4. SlotsInOrder
  BY <1>3, ExportAssumption DEF SlotsInOrder, PassPoints
<1>5. ~HasSamples1 /\ ~HasSum /\ ~HasMin /\ ~HasMax /\ ~HasSamples2 /\ at \notin PassPoints
  BY <1>3 DEF HasSamples1, HasSum, HasSquares, HasMin, HasMax, HasSamples2, PassPoints
<1> QED
  BY <1>1, <1>2, <1>4, <1>5 DEF ExportInv, CallsOfPass, CountsBracketed, ExtremesBracketed,
     SumBracketed, QuietSoFar, QuietCopy

-----------------------------------------------------------------------------
(* Every step preserves each part of the invariant.                        *)

LEMMA ExportTypeStep ==
  ExportInv /\ IInv' /\ [ExportNext]_<<vars, exportVars>> => ExportTypeOK'
<1> SUFFICES ASSUME ExportInv, IInv', [ExportNext]_<<vars, exportVars>> PROVE ExportTypeOK'
  OBVIOUS
<1> USE DEF ExportTypeOK, outputVars, copyVars
<1>0. ExportTypeOK /\ SlotsInOrder /\ TypeOK' /\ IInv
  BY DEF ExportInv, IInv
<1>1. CASE UNCHANGED exportVars
  BY <1>0, <1>1 DEF exportVars
<1>2. ASSUME Refuse \/ Accept \/ Return \/ NextPass PROVE ExportTypeOK'
  <2>1. structureOutputSize' \in Nat /\ limit' \in 0..NumProbes
    BY <1>0, <1>2, ExportAssumption, FitType DEF Refuse, Accept, Return, NextPass
  <2> QED
    BY <1>0, <1>2, <2>1 DEF Refuse, Accept, Return, NextPass
<1>3. CASE FirstPass
  BY <1>0, <1>3, ExportAssumption, WidthIsPositive DEF FirstPass, EmptyCopy, Copies
<1>4. CASE ExportOtherProbe \/ StoreCopy
  <2>1. i < limit
    BY <1>0, <1>4 DEF ExportOtherProbe, StoreCopy, SlotsInOrder
  <2>2. i' = i + 1
    BY <1>4 DEF ExportOtherProbe, StoreCopy, StoreAt
  <2>3. i' \in 0..NumProbes
    BY <1>0, <2>1, <2>2, ExportAssumption
  <2> QED
    BY <1>0, <1>4, <2>3 DEF ExportOtherProbe, StoreCopy
<1>5. CASE LoadSamples1 \/ LoadSum \/ LoadSquares \/ LoadMin \/ LoadMax \/ LoadSamples2
  <2>1. probe_copy' \in Copies
    BY <1>0, <1>5 DEF LoadSamples1, LoadSum, LoadSquares, LoadMin, LoadMax, LoadSamples2, Load,
       Copies, TypeOK
  <2>2. tries' \in 0..MaxTries
    BY <1>0, <1>5, ExportAssumption DEF LoadSamples1, LoadSum, LoadSquares, LoadMin, LoadMax,
       LoadSamples2, Load, SlotsInOrder, PassPoints
  <2>3. before' \subseteq Calls /\ after' \subseteq Calls /\ sq_read' \subseteq {"lo", "hi"}
    BY <1>0, <1>5 DEF LoadSamples1, LoadSum, LoadSquares, LoadMin, LoadMax,
       LoadSamples2, Done, Started
  <2>4. UNCHANGED <<structureOutputSize, scalarOutput, limit, i>>
    BY <1>5 DEF LoadSamples1, LoadSum, LoadSquares, LoadMin, LoadMax, LoadSamples2, Load
  <2>5. at' \in {"load_sum", "load_squares", "load_min", "load_max", "load_n2", "compare"}
    BY <1>5 DEF LoadSamples1, LoadSum, LoadSquares, LoadMin, LoadMax, LoadSamples2, Load
  <2> QED
    BY <1>0, <2>1, <2>2, <2>3, <2>4, <2>5
<1> QED
  BY <1>1, <1>2, <1>3, <1>4, <1>5 DEF ExportNext, Export, exportVars

LEMMA SlotsStep ==
  ExportInv /\ [ExportNext]_<<vars, exportVars>> => SlotsInOrder'
<1> SUFFICES ASSUME ExportInv, [ExportNext]_<<vars, exportVars>> PROVE SlotsInOrder'
  OBVIOUS
<1> USE DEF SlotsInOrder, outputVars, copyVars, PassPoints, Exported
<1>0. ExportTypeOK /\ SlotsInOrder
  BY DEF ExportInv
<1>1. CASE UNCHANGED exportVars
  BY <1>0, <1>1 DEF exportVars
<1>2. CASE Refuse \/ NextPass
  BY <1>0, <1>2 DEF Refuse, NextPass, Again, ExportTypeOK
<1>3. CASE Accept
  <2>1. limit' \in 0..NumProbes
    BY <1>3, ExportAssumption, FitType DEF Accept
  <2> QED
    BY <1>0, <1>3, <2>1 DEF Accept
<1>4. CASE Return
  BY <1>0, <1>4 DEF Return, ExportTypeOK
<1>5. CASE FirstPass
  BY <1>0, <1>5, ExportAssumption DEF FirstPass, ExportTypeOK
<1>6. ASSUME NEW copy, StoreAt(copy), i < limit, i = Tracked => copy = probe_copy,
             at' = "next_probe", at \in {"next_probe", "compare"},
             UNCHANGED <<structureOutputSize, scalarOutput, limit, probe_copy>>
      PROVE  SlotsInOrder'
  <2>1. i \in Nat /\ limit \in Nat /\ DOMAIN export_probes = 0..i - 1
    BY <1>0 DEF ExportTypeOK
  <2>2. /\ i' = i + 1
        /\ export_probes' = [n \in DOMAIN export_probes \union {i} |->
                               IF n = i THEN copy ELSE export_probes[n]]
    BY <1>6 DEF StoreAt
  <2>3. DOMAIN export_probes' = 0..i' - 1 /\ i' <= limit
    BY <1>6, <2>1, <2>2
  <2>4. Tracked \in DOMAIN export_probes' => export_probes'[Tracked] = probe_copy
    BY <1>0, <1>6, <2>2
  <2> QED
    BY <1>0, <1>6, <2>3, <2>4
<1>7. CASE ExportOtherProbe \/ StoreCopy
  BY <1>0, <1>6, <1>7 DEF ExportOtherProbe, StoreCopy
<1>8. CASE LoadSamples1 \/ LoadSum \/ LoadSquares \/ LoadMin \/ LoadMax \/ LoadSamples2
  <2>1. UNCHANGED <<structureOutputSize, scalarOutput, export_probes, limit, i>>
    BY <1>8 DEF LoadSamples1, LoadSum, LoadSquares, LoadMin, LoadMax, LoadSamples2, Load
  <2>2. /\ at' \in PassPoints \/ at' = "compare"
        /\ at \in PassPoints \union {"load_n1"}
    BY <1>8 DEF LoadSamples1, LoadSum, LoadSquares, LoadMin, LoadMax, LoadSamples2, Load
  <2>3. at' \in PassPoints => tries' = tries
    BY <1>8 DEF LoadSamples1, LoadSum, LoadSquares, LoadMin, LoadMax, LoadSamples2, Load
  <2>4. /\ at' = "load_sum" => sq_read' = {}
        /\ at' = "load_squares" => sq_read' # {"lo", "hi"}
    <3>1. CASE LoadSquares
      <4>1. sq_read \subseteq {"lo", "hi"}
        BY <1>0 DEF ExportTypeOK
      <4>2. CASE "lo" \notin sq_read /\ sq_read' = sq_read \union {"lo"}
        BY <3>1, <4>1, <4>2 DEF LoadSquares, Load
      <4>3. CASE "hi" \notin sq_read /\ sq_read' = sq_read \union {"hi"}
        BY <3>1, <4>1, <4>3 DEF LoadSquares, Load
      <4> QED
        BY <3>1, <4>2, <4>3 DEF LoadSquares
    <3>2. CASE LoadSamples1 \/ LoadSum \/ LoadMin \/ LoadMax \/ LoadSamples2
      BY <1>0, <3>2 DEF LoadSamples1, LoadSum, LoadMin, LoadMax, LoadSamples2, Load
    <3> QED
      BY <1>8, <3>1, <3>2
  <2>5. Tracked \notin DOMAIN export_probes
    BY <1>0, <2>2 DEF ExportTypeOK
  <2> QED
    BY <1>0, <2>1, <2>2, <2>3, <2>4, <2>5
<1> QED
  BY <1>1, <1>2, <1>3, <1>4, <1>5, <1>7, <1>8 DEF ExportNext, Export, exportVars

-----------------------------------------------------------------------------
(* The three kinds of steps, as the brackets see them.                     *)

(* A call's step leaves the export where it is.                            *)
LEMMA CallsStep ==
  ASSUME ExportInv, [Next]_vars, UNCHANGED exportVars
  PROVE  /\ UNCHANGED <<at, probe_copy, sq_read, before, after>> /\ (Exported' <=> Exported)
         /\ StartedInPass \subseteq StartedInPass'
         /\ at \in PassPoints => StartedInPass = Started /\ StartedInPass' = Started'
         /\ at \notin PassPoints => StartedInPass = after /\ StartedInPass' = after
         /\ \A c \in StartedInPass \union before : delta'[c] = delta[c]
<1>1. UNCHANGED <<at, probe_copy, sq_read, before, after, export_probes>>
  BY DEF exportVars, outputVars, copyVars
<1>2. IInv /\ before \subseteq Started /\ after \subseteq Started
  BY DoneIsPast DEF ExportInv, CallsOfPass
<1>3. Started \subseteq Started' /\ \A c \in Started : delta'[c] = delta[c]
  BY <1>2, CallsOnlyProgress
<1> QED
  BY <1>1, <1>2, <1>3 DEF Exported, StartedInPass

(* The steps of the export that load nothing.                              *)
Between == Refuse \/ Accept \/ FirstPass \/ ExportOtherProbe \/ Return \/ NextPass \/ StoreCopy

LEMMA BetweenPasses ==
  ASSUME ExportInv, Between
  PROVE  /\ UNCHANGED <<before, after>>
         /\ at \notin PassPoints /\ at' \notin PassPoints \union {"compare"}
         /\ Exported' => HasSamples2 /\ UNCHANGED probe_copy
<1> USE DEF Between
<1>0. SlotsInOrder /\ i \in Nat
  BY DEF ExportInv, ExportTypeOK
<1>1. UNCHANGED <<before, after>>
  BY DEF Refuse, Accept, FirstPass, ExportOtherProbe, Return, NextPass, StoreCopy, copyVars
<1>2. at \notin PassPoints /\ at' \notin PassPoints \union {"compare"}
  BY DEF Refuse, Accept, FirstPass, ExportOtherProbe, Return, NextPass, StoreCopy, PassPoints
<1>3. ASSUME Exported' PROVE HasSamples2 /\ UNCHANGED probe_copy
  <2>1. CASE FirstPass
    <3>1. Tracked \notin DOMAIN export_probes /\ UNCHANGED export_probes
      BY <1>0, <2>1 DEF FirstPass, SlotsInOrder, outputVars
    <3> QED
      BY <1>3, <3>1 DEF Exported
  <2>2. CASE ExportOtherProbe
    <3>1. UNCHANGED probe_copy /\ DOMAIN export_probes' = DOMAIN export_probes \union {i} /\ i # Tracked
      BY <2>2 DEF ExportOtherProbe, StoreAt, copyVars
    <3> QED
      BY <1>3, <3>1 DEF Exported, HasSamples2
  <2>3. CASE StoreCopy
    BY <2>3 DEF StoreCopy, HasSamples2, copyVars
  <2>4. CASE Refuse \/ Accept \/ Return \/ NextPass
    BY <1>3, <2>4 DEF Refuse, Accept, Return, NextPass, Exported, HasSamples2, outputVars, copyVars
  <2> QED
    BY <2>1, <2>2, <2>3, <2>4
<1> QED
  BY <1>1, <1>2, <1>3

(* The steps that load a field.                                            *)
LoadLater == LoadSum \/ LoadSquares \/ LoadMin \/ LoadMax \/ LoadSamples2

LEMMA LoadSteps ==
  ASSUME ExportInv, LoadSamples1 \/ LoadLater, UNCHANGED vars
  PROVE  /\ ~Exported /\ ~Exported' /\ Started' = Started /\ Done' = Done /\ delta' = delta
         /\ StartedInPass' = Started
         /\ before \subseteq Done /\ before' \subseteq Done
         /\ LoadSamples1 => at = "load_n1" /\ at' = "load_sum" /\ before' = Done /\ sq_read' = {}
         /\ LoadLater => at \in PassPoints /\ StartedInPass = Started /\ before' = before
         /\ LoadSamples2 => after' = Started
         /\ ~LoadSamples2 => UNCHANGED after
<1> USE DEF LoadLater
<1>0. SlotsInOrder /\ i \in Nat /\ before \subseteq Done
  BY DEF ExportInv, ExportTypeOK, CallsOfPass
<1>1. /\ at \in PassPoints \union {"load_n1"} /\ UNCHANGED export_probes
      /\ LoadSamples1 => at = "load_n1" /\ at' = "load_sum" /\ before' = Done /\ sq_read' = {}
      /\ LoadLater => at \in PassPoints /\ before' = before
      /\ LoadSamples2 => at' = "compare" /\ after' = Started
      /\ ~LoadSamples2 => UNCHANGED after /\ at' \in PassPoints
  BY DEF LoadSamples1, LoadSum, LoadSquares, LoadMin, LoadMax, LoadSamples2, Load, PassPoints,
     outputVars
<1>2. ~Exported
  BY <1>0, <1>1 DEF SlotsInOrder, Exported
<1>3. Started' = Started /\ Done' = Done /\ delta' = delta
  BY DEF vars, callVars, Started, Done
<1> QED
  BY <1>0, <1>1, <1>2, <1>3 DEF Exported, StartedInPass, PassPoints

LEMMA ExportCases ==
  ASSUME [ExportNext]_<<vars, exportVars>>
  PROVE  \/ [Next]_vars /\ UNCHANGED exportVars
         \/ Between /\ UNCHANGED vars
         \/ (LoadSamples1 \/ LoadLater) /\ UNCHANGED vars
  BY DEF ExportNext, Export, Between, LoadLater

-----------------------------------------------------------------------------
LEMMA CallsOfPassStep ==
  ExportInv /\ [ExportNext]_<<vars, exportVars>> => CallsOfPass'
<1> SUFFICES ASSUME ExportInv, [ExportNext]_<<vars, exportVars>> PROVE CallsOfPass'
  OBVIOUS
<1>0. CallsOfPass /\ IInv
  BY DEF ExportInv
<1>1. CASE [Next]_vars /\ UNCHANGED exportVars
  <2>1. Started \subseteq Started' /\ Done \subseteq Done'
    BY <1>0, <1>1, CallsOnlyProgress
  <2>2. UNCHANGED <<before, after>> /\ (HasSamples2' => HasSamples2)
    BY <1>1, CallsStep DEF HasSamples2
  <2> QED
    BY <1>0, <2>1, <2>2 DEF CallsOfPass
<1>2. CASE Between /\ UNCHANGED vars
  <2>1. UNCHANGED <<before, after>> /\ (HasSamples2' => HasSamples2)
    BY <1>2, BetweenPasses DEF HasSamples2
  <2>2. Started' = Started /\ Done' = Done
    BY <1>2 DEF vars, callVars, Started, Done
  <2> QED
    BY <1>0, <2>1, <2>2 DEF CallsOfPass
<1>3. CASE (LoadSamples1 \/ LoadLater) /\ UNCHANGED vars
  <2>1. /\ ~Exported' /\ Started' = Started /\ Done' = Done /\ before' \subseteq Done
        /\ after' \in {after, Started}
    BY <1>3, LoadSteps
  <2>2. HasSamples2' => LoadSamples2
    BY <1>3, <2>1 DEF HasSamples2, LoadSamples1, LoadLater, LoadSum, LoadSquares, LoadMin, LoadMax,
       Load
  <2>3. HasSamples2' => before' \subseteq after'
    BY <1>3, <2>1, <2>2, LoadSteps, DoneIsPast
  <2> QED
    BY <1>0, <2>1, <2>3 DEF CallsOfPass
<1> QED
  BY <1>1, <1>2, <1>3, ExportCases

LEMMA CountsBracketedStep ==
  ExportInv /\ IInv' /\ [ExportNext]_<<vars, exportVars>> => CountsBracketed'
<1> SUFFICES ASSUME ExportInv, IInv', [ExportNext]_<<vars, exportVars>> PROVE CountsBracketed'
  OBVIOUS
<1>0. CountsBracketed /\ CallsOfPass /\ IInv /\ probe_copy \in Copies
  BY DEF ExportInv, ExportTypeOK
<1>1. CASE [Next]_vars /\ UNCHANGED exportVars
  <2>1. /\ UNCHANGED <<before, probe_copy>>
        /\ (HasSamples1' => HasSamples1) /\ (HasSamples2' => HasSamples2)
        /\ StartedInPass \in SUBSET StartedInPass'
    BY <1>1, CallsStep DEF HasSamples1, HasSum, HasSquares, HasMin, HasMax, HasSamples2
  <2>2. IsFiniteSet(StartedInPass') /\ IsFiniteSet(before)
    <3>1. StartedInPass' \in SUBSET Calls /\ before \in SUBSET Calls
      BY <1>0, <1>1, CallsStep DEF ExportInv, ExportTypeOK, Started
    <3> QED
      BY <3>1, CallsAssumption, FS_Subset
  <2>3. /\ Cardinality(StartedInPass) <= Cardinality(StartedInPass')
        /\ Cardinality(StartedInPass) \in Nat /\ Cardinality(StartedInPass') \in Nat
        /\ Cardinality(before) \in Nat
    BY <2>1, <2>2, FS_Subset, FS_CardinalityType
  <2> QED
    BY <1>0, <2>1, <2>3 DEF CountsBracketed
<1>2. CASE Between /\ UNCHANGED vars
  <2>1. /\ UNCHANGED before /\ StartedInPass' = StartedInPass
        /\ (HasSamples1' => HasSamples2 /\ UNCHANGED probe_copy)
        /\ (HasSamples2' => HasSamples2 /\ UNCHANGED probe_copy)
    BY <1>2, BetweenPasses
       DEF PassPoints, HasSamples1, HasSum, HasSquares, HasMin, HasMax, HasSamples2, StartedInPass
  <2>2. HasSamples2 => HasSamples1
    BY DEF HasSamples1, HasSum, HasSquares, HasMin, HasMax
  <2> QED
    BY <1>0, <2>1, <2>2 DEF CountsBracketed
<1>3. CASE LoadSamples1 /\ UNCHANGED vars
  <2>1. /\ ~Exported' /\ StartedInPass' = Started /\ before' = Done /\ at' = "load_sum"
    BY <1>3, LoadSteps
  <2>2. probe_copy'.n1 = num_samples_1 /\ ~HasSamples2'
    BY <1>0, <1>3, <2>1 DEF LoadSamples1, Load, Copies, HasSamples2
  <2> QED
    BY <1>0, <2>1, <2>2, CurrentValues DEF CountsBracketed
<1>4. CASE LoadLater /\ ~LoadSamples2 /\ UNCHANGED vars
  <2>1. /\ ~Exported' /\ StartedInPass' = StartedInPass /\ before' = before /\ at \in PassPoints
    BY <1>4, LoadSteps
  <2>2. probe_copy'.n1 = probe_copy.n1 /\ at' # "compare"
    BY <1>0, <1>4 DEF LoadLater, LoadSum, LoadSquares, LoadMin, LoadMax, Load, Copies
  <2>3. HasSamples1 /\ ~HasSamples2'
    BY <2>1, <2>2
       DEF PassPoints, HasSamples1, HasSum, HasSquares, HasMin, HasMax, HasSamples2
  <2> QED
    BY <1>0, <2>1, <2>2, <2>3 DEF CountsBracketed
<1>5. CASE LoadSamples2 /\ UNCHANGED vars
  <2>1. /\ StartedInPass' = Started /\ StartedInPass = Started /\ before' = before
        /\ at \in PassPoints
    BY <1>5, LoadSteps DEF LoadLater
  <2>2. probe_copy'.n1 = probe_copy.n1 /\ probe_copy'.n2 = num_samples_2
    BY <1>0, <1>5 DEF LoadSamples2, Load, Copies
  <2>3. HasSamples1
    BY <2>1 DEF PassPoints, HasSamples1, HasSum, HasSquares, HasMin, HasMax
  <2>4. num_samples_2 \in Cardinality(before)..Cardinality(Started)
    BY <1>0, CurrentValues DEF CallsOfPass
  <2> QED
    BY <1>0, <2>1, <2>2, <2>3, <2>4 DEF CountsBracketed
<1> QED
  BY <1>1, <1>2, <1>3, <1>4, <1>5, ExportCases DEF LoadLater

LEMMA ExtremesBracketedStep ==
  ExportInv /\ [ExportNext]_<<vars, exportVars>> => ExtremesBracketed'
<1> SUFFICES ASSUME ExportInv, [ExportNext]_<<vars, exportVars>> PROVE ExtremesBracketed'
  OBVIOUS
<1>0. ExtremesBracketed /\ CallsOfPass /\ IInv /\ probe_copy \in Copies
  BY DEF ExportInv, ExportTypeOK
<1>a. HasMax => HasMin
  BY DEF HasMin
<1>1. CASE [Next]_vars /\ UNCHANGED exportVars
  <2>1. /\ UNCHANGED <<before, probe_copy>>
        /\ (HasMin' => HasMin) /\ (HasMax' => HasMax)
        /\ StartedInPass \subseteq StartedInPass'
        /\ \A c \in StartedInPass \union before : delta'[c] = delta[c]
    BY <1>1, CallsStep DEF HasMin, HasMax, HasSamples2
  <2> QED
    BY <1>0, <2>1 DEF ExtremesBracketed
<1>2. CASE Between /\ UNCHANGED vars
  <2>1. /\ UNCHANGED before /\ StartedInPass' = StartedInPass /\ UNCHANGED delta
        /\ (HasMin' => HasSamples2 /\ UNCHANGED probe_copy)
        /\ (HasMax' => HasSamples2 /\ UNCHANGED probe_copy)
    BY <1>2, BetweenPasses
       DEF PassPoints, HasMin, HasMax, HasSamples2, StartedInPass, vars, callVars
  <2>2. HasSamples2 => HasMax
    BY DEF HasMax
  <2> QED
    BY <1>0, <1>a, <2>1, <2>2 DEF ExtremesBracketed
<1>3. CASE (LoadSamples1 \/ LoadSum \/ LoadSquares) /\ UNCHANGED vars
  <2>1. ~Exported' /\ at' \in {"load_sum", "load_squares", "load_min"}
    BY <1>3, LoadSteps DEF LoadLater, LoadSamples1, LoadSum, LoadSquares, Load
  <2>2. ~HasMin' /\ ~HasMax'
    BY <2>1 DEF HasMin, HasMax, HasSamples2
  <2> QED
    BY <2>2 DEF ExtremesBracketed
<1>4. CASE (LoadMin \/ LoadMax \/ LoadSamples2) /\ UNCHANGED vars
  <2>1. /\ ~Exported' /\ StartedInPass' = Started /\ StartedInPass = Started
        /\ before' = before /\ delta' = delta
    BY <1>4, LoadSteps DEF LoadLater
  <2>2. /\ \A c \in before : min_ns <= delta[c] /\ max_ns >= delta[c]
        /\ min_ns = UINT64_MAX \/ \E c \in Started : min_ns = delta[c]
        /\ max_ns = 0 \/ \E c \in Started : max_ns = delta[c]
    BY <1>0, CurrentValues DEF CallsOfPass
  <2>3. CASE LoadMin
    <3>1. probe_copy'.min = min_ns /\ at' = "load_max"
      BY <1>0, <2>3 DEF LoadMin, Load, Copies
    <3>2. ~HasMax'
      BY <2>1, <3>1 DEF HasMax, HasSamples2
    <3> QED
      BY <2>1, <2>2, <3>1, <3>2 DEF ExtremesBracketed
  <2>4. CASE LoadMax
    <3>1. probe_copy'.min = probe_copy.min /\ probe_copy'.max = max_ns /\ at = "load_max"
      BY <1>0, <2>4 DEF LoadMax, Load, Copies
    <3>2. HasMin
      BY <3>1 DEF HasMin
    <3> QED
      BY <1>0, <2>1, <2>2, <3>1, <3>2 DEF ExtremesBracketed
  <2>5. CASE LoadSamples2
    <3>1. probe_copy'.min = probe_copy.min /\ probe_copy'.max = probe_copy.max /\ at = "load_n2"
      BY <1>0, <2>5 DEF LoadSamples2, Load, Copies
    <3>2. HasMin /\ HasMax
      BY <3>1 DEF HasMin, HasMax
    <3> QED
      BY <1>0, <2>1, <3>1, <3>2 DEF ExtremesBracketed
  <2> QED
    BY <1>4, <2>3, <2>4, <2>5
<1> QED
  BY <1>1, <1>2, <1>3, <1>4, ExportCases DEF LoadLater

LEMMA SumBracketedStep ==
  ExportInv /\ [ExportNext]_<<vars, exportVars>> => SumBracketed'
<1> SUFFICES ASSUME ExportInv, [ExportNext]_<<vars, exportVars>> PROVE SumBracketed'
  OBVIOUS
<1>0. SumBracketed /\ CallsOfPass /\ IInv /\ probe_copy \in Copies
  BY DEF ExportInv, ExportTypeOK
<1>1. CASE [Next]_vars /\ UNCHANGED exportVars
  <2>1. /\ UNCHANGED <<before, probe_copy>> /\ (HasSum' => HasSum)
        /\ StartedInPass \in SUBSET StartedInPass'
        /\ \A c \in StartedInPass \union before : delta'[c] = delta[c]
    BY <1>1, CallsStep DEF HasSum, HasSquares, HasMin, HasMax, HasSamples2
  <2>2. IsFiniteSet(StartedInPass') /\ IsFiniteSet(StartedInPass) /\ IsFiniteSet(before)
    <3>1. StartedInPass' \in SUBSET Calls /\ before \in SUBSET Calls
      BY <1>0, <1>1, CallsStep DEF ExportInv, ExportTypeOK, Started
    <3> QED
      BY <2>1, <3>1, CallsAssumption, FS_Subset
  <2>3. /\ SumOver(StartedInPass, delta') = SumOver(StartedInPass, delta)
        /\ SumOver(before, delta') = SumOver(before, delta)
    BY <2>1, SumSame
  <2>4. SumOver(StartedInPass, delta') <= SumOver(StartedInPass', delta')
    BY <2>1, <2>2, SumOfPart
  <2>5. /\ SumOver(StartedInPass, delta') \in Nat /\ SumOver(StartedInPass', delta') \in Nat
        /\ SumOver(before, delta') \in Nat
    BY <2>2, SumType
  <2>6. SumBracketed' =
          (HasSum' /\ SumOver(StartedInPass', delta') < W =>
             probe_copy'.sum \in SumOver(before', delta')..SumOver(StartedInPass', delta'))
    BY DEF SumBracketed, SumOver, Units
  <2>7. SumBracketed =
          (HasSum /\ SumOver(StartedInPass, delta) < W =>
             probe_copy.sum \in SumOver(before, delta)..SumOver(StartedInPass, delta))
    BY DEF SumBracketed
  <2>8. SumOver(before', delta') = SumOver(before, delta)
    BY <2>1, <2>3
  <2> SUFFICES ASSUME HasSum', SumOver(StartedInPass', delta') < W
               PROVE  probe_copy'.sum \in SumOver(before', delta')..SumOver(StartedInPass', delta')
    BY <2>6
  <2> DEFINE was == SumOver(StartedInPass, delta)
             is == SumOver(StartedInPass', delta')
  <2>9. was \in Nat /\ is \in Nat /\ was <= is /\ is < W
    BY <2>3, <2>4, <2>5
  <2> HIDE DEF was, is
  <2>10. was < W
    BY <2>9, WidthIsPositive
  <2>11. probe_copy.sum \in SumOver(before, delta)..was
    BY <1>0, <2>1, <2>7, <2>10 DEF was
  <2> QED
    BY <2>1, <2>5, <2>8, <2>9, <2>11 DEF is
<1>2. CASE Between /\ UNCHANGED vars
  <2>1. /\ UNCHANGED before /\ StartedInPass' = StartedInPass /\ UNCHANGED delta
        /\ (HasSum' => HasSum /\ UNCHANGED probe_copy)
    BY <1>2, BetweenPasses
       DEF PassPoints, HasSum, HasSquares, HasMin, HasMax, HasSamples2, StartedInPass, vars, callVars
  <2> QED
    BY <1>0, <2>1 DEF SumBracketed, SumOver, Units
<1>3. CASE LoadSamples1 /\ UNCHANGED vars
  <2>1. ~Exported' /\ at' = "load_sum"
    BY <1>3, LoadSteps
  <2>2. ~HasSum'
    BY <2>1 DEF HasSum, HasSquares, HasMin, HasMax, HasSamples2
  <2> QED
    BY <2>2 DEF SumBracketed
<1>4. CASE LoadSum /\ UNCHANGED vars
  <2>1. /\ StartedInPass' = Started /\ before' = before /\ delta' = delta
    BY <1>4, LoadSteps DEF LoadLater
  <2>2. probe_copy'.sum = sum_ns
    BY <1>0, <1>4 DEF LoadSum, Load, Copies
  <2>3. SumOver(Started, delta) < W => sum_ns \in SumOver(before, delta)..SumOver(Started, delta)
    BY <1>0, CurrentValues DEF CallsOfPass
  <2>4. SumBracketed' =
          (HasSum' /\ SumOver(StartedInPass', delta') < W =>
             probe_copy'.sum \in SumOver(before', delta')..SumOver(StartedInPass', delta'))
    BY DEF SumBracketed, SumOver, Units
  <2> QED
    BY <2>1, <2>2, <2>3, <2>4
<1>5. CASE (LoadSquares \/ LoadMin \/ LoadMax \/ LoadSamples2) /\ UNCHANGED vars
  <2>1. StartedInPass' = StartedInPass /\ before' = before /\ delta' = delta
    BY <1>5, LoadSteps DEF LoadLater
  <2>2. probe_copy'.sum = probe_copy.sum /\ at \in {"load_squares", "load_min", "load_max", "load_n2"}
    BY <1>0, <1>5 DEF LoadSquares, LoadMin, LoadMax, LoadSamples2, Load, Copies
  <2>3. HasSum
    BY <2>2 DEF HasSum, HasSquares, HasMin, HasMax
  <2> QED
    BY <1>0, <2>1, <2>2, <2>3 DEF SumBracketed, SumOver, Units
<1> QED
  BY <1>1, <1>2, <1>3, <1>4, <1>5, ExportCases DEF LoadLater

LEMMA QuietSoFarStep ==
  ExportInv /\ [ExportNext]_<<vars, exportVars>> => QuietSoFar'
<1> SUFFICES ASSUME ExportInv, [ExportNext]_<<vars, exportVars>>,
                    at' \in PassPoints, Started' = before'
             PROVE  QuietSoFar'
  BY DEF QuietSoFar
<1>0. QuietSoFar /\ CallsOfPass /\ SlotsInOrder /\ IInv /\ probe_copy \in Copies
  BY DEF ExportInv, ExportTypeOK
<1>1. CASE [Next]_vars /\ UNCHANGED exportVars
  <2>1. /\ UNCHANGED <<at, probe_copy, sq_read, before>> /\ (Exported' <=> Exported)
    BY <1>1, CallsStep
  <2>2. Started = before /\ Started = Done /\ Started' = Started
    BY <1>0, <1>1, <2>1, CallsOnlyProgress, DoneIsPast DEF CallsOfPass
  <2>3. UNCHANGED <<num_samples_1, sum_ns, sum_sq_ns_lo, sum_sq_ns_hi, min_ns, max_ns>>
    BY <1>0, <1>1, <2>2, CallsOnlyProgress
  <2> QED
    BY <1>0, <2>1, <2>2, <2>3
       DEF QuietSoFar, HasSamples1, HasSum, HasHalf, HasSquares, HasMin, HasMax, HasSamples2
<1>2. CASE Between /\ UNCHANGED vars
  BY <1>2, BetweenPasses
<1>3. CASE (LoadSamples1 \/ LoadLater) /\ UNCHANGED vars
  <2> USE DEF QuietSoFar, HasSamples1, HasSum, HasHalf, HasSquares, HasMin, HasMax, HasSamples2
  <2>1. ~Exported' /\ Started' = Started
    BY <1>3, LoadSteps
  <2>2. UNCHANGED <<num_samples_1, sum_ns, sum_sq_ns_lo, sum_sq_ns_hi, min_ns, max_ns>>
    BY <1>3 DEF vars, probeVars
  <2>3. LoadLater => Started = before /\ at \in PassPoints
    BY <1>3, <2>1, LoadSteps
  <2>4. CASE LoadSamples1
    <3>1. at' = "load_sum" /\ probe_copy'.n1 = num_samples_1
      BY <1>0, <2>4 DEF LoadSamples1, Load, Copies
    <3> QED
      BY <2>1, <2>2, <3>1
  <2>5. CASE LoadSum
    <3>1. /\ at = "load_sum" /\ at' = "load_squares" /\ sq_read' = {}
          /\ probe_copy'.n1 = probe_copy.n1 /\ probe_copy'.sum = sum_ns
      BY <1>0, <2>5 DEF LoadSum, Load, Copies, SlotsInOrder
    <3> QED
      BY <1>0, <2>1, <2>2, <2>3, <2>5, <3>1 DEF LoadLater
  <2>6. CASE LoadSquares
    <3>1. /\ at = "load_squares" /\ at' \in {"load_squares", "load_min"}
          /\ probe_copy'.n1 = probe_copy.n1 /\ probe_copy'.sum = probe_copy.sum
      BY <1>0, <2>6 DEF LoadSquares, Load, Copies
    <3>2. \/ /\ probe_copy'.sq_lo = sum_sq_ns_lo /\ probe_copy'.sq_hi = probe_copy.sq_hi
             /\ sq_read' = sq_read \union {"lo"} /\ (at' = "load_min" => "hi" \in sq_read)
          \/ /\ probe_copy'.sq_hi = sum_sq_ns_hi /\ probe_copy'.sq_lo = probe_copy.sq_lo
             /\ sq_read' = sq_read \union {"hi"} /\ (at' = "load_min" => "lo" \in sq_read)
      BY <1>0, <2>6 DEF LoadSquares, Load, Copies
    <3>3. /\ probe_copy.n1 = num_samples_1 /\ probe_copy.sum = sum_ns
          /\ "lo" \in sq_read => probe_copy.sq_lo = sum_sq_ns_lo
          /\ "hi" \in sq_read => probe_copy.sq_hi = sum_sq_ns_hi
      BY <1>0, <2>3, <2>6, <3>1 DEF LoadLater
    <3> QED
      BY <2>1, <2>2, <3>1, <3>2, <3>3
  <2>7. CASE LoadMin
    <3>1. /\ at = "load_min" /\ at' = "load_max" /\ probe_copy'.min = min_ns
          /\ probe_copy'.n1 = probe_copy.n1 /\ probe_copy'.sum = probe_copy.sum
          /\ probe_copy'.sq_lo = probe_copy.sq_lo /\ probe_copy'.sq_hi = probe_copy.sq_hi
      BY <1>0, <2>7 DEF LoadMin, Load, Copies
    <3> QED
      BY <1>0, <2>1, <2>2, <2>3, <2>7, <3>1 DEF LoadLater
  <2>8. CASE LoadMax
    <3>1. /\ at = "load_max" /\ at' = "load_n2" /\ probe_copy'.max = max_ns
          /\ probe_copy'.n1 = probe_copy.n1 /\ probe_copy'.sum = probe_copy.sum
          /\ probe_copy'.sq_lo = probe_copy.sq_lo /\ probe_copy'.sq_hi = probe_copy.sq_hi
          /\ probe_copy'.min = probe_copy.min
      BY <1>0, <2>8 DEF LoadMax, Load, Copies
    <3> QED
      BY <1>0, <2>1, <2>2, <2>3, <2>8, <3>1 DEF LoadLater
  <2>9. CASE LoadSamples2
    <3>1. at' = "compare"
      BY <2>9 DEF LoadSamples2, Load
    <3> QED
      BY <3>1 DEF PassPoints
  <2> QED
    BY <1>3, <2>4, <2>5, <2>6, <2>7, <2>8, <2>9 DEF LoadLater
<1> QED
  BY <1>1, <1>2, <1>3, ExportCases

LEMMA QuietCopyStep ==
  ExportInv /\ IInv' /\ [ExportNext]_<<vars, exportVars>> => QuietCopy'
<1> SUFFICES ASSUME ExportInv, IInv', [ExportNext]_<<vars, exportVars>>, HasSamples2', before' = after'
             PROVE  /\ probe_copy'.n1 = Cardinality(before') /\ probe_copy'.n2 = probe_copy'.n1
                    /\ ExactFor(CopiedStats(probe_copy'), before', delta')
  <2>1. QuietCopy' =
          (HasSamples2' /\ before' = after' =>
            /\ probe_copy'.n1 = Cardinality(before') /\ probe_copy'.n2 = probe_copy'.n1
            /\ ExactFor(CopiedStats(probe_copy'), before', delta'))
    BY DEF QuietCopy, ExactFor, IsLeast, IsGreatest, CopiedStats, SumOver, Units, Squares
  <2> QED
    BY <2>1
<1>0. QuietSoFar /\ QuietCopy /\ CallsOfPass /\ IInv /\ probe_copy \in Copies
  BY DEF ExportInv, ExportTypeOK
<1>a. before \in SUBSET Calls /\ DOMAIN delta = Calls /\ DOMAIN delta' = Calls
  BY DEF ExportInv, ExportTypeOK, IInv, TypeOK
<1>1. CASE [Next]_vars /\ UNCHANGED exportVars
  <2>1. /\ UNCHANGED <<before, after, probe_copy>> /\ HasSamples2
        /\ \A c \in before : delta'[c] = delta[c]
    BY <1>1, CallsStep DEF HasSamples2
  <2>2. /\ probe_copy.n1 = Cardinality(before) /\ probe_copy.n2 = probe_copy.n1
        /\ ExactFor(CopiedStats(probe_copy), before, delta)
    BY <1>0, <2>1 DEF QuietCopy
  <2>3. ExactFor(CopiedStats(probe_copy), before, delta')
    BY <1>a, <2>1, <2>2, ExactSame
  <2> QED
    BY <2>1, <2>2, <2>3
<1>2. CASE Between /\ UNCHANGED vars
  <2>1. UNCHANGED <<before, after, probe_copy>> /\ HasSamples2
    BY <1>2, BetweenPasses DEF HasSamples2
  <2>2. UNCHANGED delta
    BY <1>2 DEF vars, callVars
  <2> QED
    BY <1>0, <2>1, <2>2 DEF QuietCopy
<1>3. CASE (LoadSamples1 \/ LoadLater) /\ ~LoadSamples2 /\ UNCHANGED vars
  <2>1. ~Exported' /\ at' # "compare"
    BY <1>3, LoadSteps DEF LoadLater, LoadSamples1, LoadSum, LoadSquares, LoadMin, LoadMax, Load
  <2> QED
    BY <2>1 DEF HasSamples2
<1>4. CASE LoadSamples2 /\ UNCHANGED vars
  <2>1. /\ before' = before /\ after' = Started /\ delta' = delta /\ at \in PassPoints
    BY <1>4, LoadSteps DEF LoadLater
  <2>2. Started = before /\ Started = Done
    BY <1>0, <2>1, DoneIsPast DEF CallsOfPass
  <2>3. at = "load_n2" /\ probe_copy' = [probe_copy EXCEPT !.n2 = num_samples_2]
    BY <1>4 DEF LoadSamples2, Load
  <2>4. /\ probe_copy.n1 = num_samples_1 /\ probe_copy.sum = sum_ns
        /\ probe_copy.sq_lo = sum_sq_ns_lo /\ probe_copy.sq_hi = sum_sq_ns_hi
        /\ probe_copy.min = min_ns /\ probe_copy.max = max_ns
    BY <1>0, <2>1, <2>2, <2>3
       DEF QuietSoFar, HasSamples1, HasSum, HasHalf, HasSquares, HasMin, HasMax
  <2>5. /\ probe_copy'.n1 = num_samples_1 /\ probe_copy'.n2 = num_samples_2
        /\ probe_copy'.sum = sum_ns
        /\ probe_copy'.sq_lo = sum_sq_ns_lo /\ probe_copy'.sq_hi = sum_sq_ns_hi
        /\ probe_copy'.min = min_ns /\ probe_copy'.max = max_ns
    BY <1>0, <2>3, <2>4 DEF Copies
  <2>6. CopiedStats(probe_copy') = stats
    BY <2>5 DEF CopiedStats, stats, sum_sq_ns
  <2>7. ExactFor(stats, Done, delta)
    BY <1>0, <2>2, ExactWhenAllDone
  <2>8. num_samples_1 = Cardinality(Started) /\ num_samples_2 = Cardinality(Done)
    BY <1>0 DEF IInv, CountersCountCalls
  <2>9. ExactFor(CopiedStats(probe_copy'), before', delta')
    BY <2>1, <2>2, <2>6, <2>7
  <2> QED
    BY <2>1, <2>2, <2>5, <2>8, <2>9
<1> QED
  BY <1>1, <1>2, <1>3, <1>4, ExportCases DEF LoadLater

-----------------------------------------------------------------------------
(* The theorems.                                                           *)

(* ExportInv is an inductive invariant of the export and the calls it      *)
(* races with.                                                             *)
THEOREM ExportInvariant == ExportSpec => []ExportInv
<1>1. ExportInv /\ [ExportNext]_<<vars, exportVars>> => ExportInv'
  <2> SUFFICES ASSUME ExportInv, [ExportNext]_<<vars, exportVars>> PROVE ExportInv'
    OBVIOUS
  <2>1. [Next]_vars
    BY DEF ExportNext
  <2>2. IInv'
    BY <2>1, InvStep DEF ExportInv
  <2> QED
    BY <2>2, ExportTypeStep, SlotsStep, CallsOfPassStep, CountsBracketedStep, ExtremesBracketedStep,
       SumBracketedStep, QuietSoFarStep, QuietCopyStep DEF ExportInv
<1> QED
  BY <1>1, ExportInitInv, PTL DEF ExportSpec

(* The export's variables and the copy it makes keep their types.          *)
THEOREM ExportTypeCorrect == ExportSpec => []ExportTypeOK
<1>1. ExportInv => ExportTypeOK
  BY DEF ExportInv
<1> QED
  BY <1>1, ExportInvariant, PTL

(* Never past the buffer, and a caller that got less can tell.             *)
THEOREM ExportWritesWhatFits == ExportSpec => []WritesWhatFits
<1>1. ExportInv => WritesWhatFits
  <2> SUFFICES ASSUME ExportInv PROVE WritesWhatFits
    OBVIOUS
  <2>0. SlotsInOrder /\ ExportTypeOK
    BY DEF ExportInv
  <2>1. i \in 0..NumProbes /\ limit \in 0..NumProbes /\ structureOutputSize \in Nat /\ i <= limit
    BY <2>0 DEF SlotsInOrder, ExportTypeOK
  <2>2. DOMAIN export_probes = 0..i - 1
    BY <2>0 DEF SlotsInOrder
  <2>3. /\ limit * ProbeSize <= structureOutputSize
        /\ at = "success" => limit = NumProbes \/ (limit + 1) * ProbeSize > structureOutputSize
    <3>1. CASE at \in {"call", "bad_argument"}
      <4>1. limit = 0
        BY <2>0, <3>1 DEF SlotsInOrder
      <4>2. limit * ProbeSize = 0
        BY <4>1, ExportAssumption
      <4> QED
        BY <2>1, <3>1, <4>2
    <3>2. CASE at \notin {"call", "bad_argument"}
      BY <2>0, <2>1, <3>2, FitType DEF SlotsInOrder
    <3> QED
      BY <3>1, <3>2
  <2>4. i * ProbeSize <= structureOutputSize
    <3>1. i * ProbeSize <= limit * ProbeSize
      BY <2>1, ExportAssumption
    <3> QED
      BY <2>1, <2>3, <3>1, ExportAssumption
  <2>5. ASSUME at = "success"
        PROVE  /\ scalarOutput = <<NumProbes>>
               /\ \/ DOMAIN export_probes = 0..NumProbes - 1
                  \/ (Cardinality(DOMAIN export_probes) + 1) * ProbeSize > structureOutputSize
    <3>1. i = limit /\ scalarOutput = <<NumProbes>>
      BY <2>0, <2>5 DEF SlotsInOrder
    <3>2. Cardinality(0..i - 1) = i
      <4>1. 0 \in Int /\ i - 1 \in Int
        BY <2>1
      <4>2. Cardinality(0..i - 1) = IF 0 > i - 1 THEN 0 ELSE (i - 1) - 0 + 1
        BY <4>1, FS_Interval
      <4> QED
        BY <2>1, <4>2
    <3> QED
      BY <2>2, <2>3, <2>5, <3>1, <3>2
  <2>6. at = "bad_argument" => scalarOutput = <<>> /\ export_probes = <<>>
    BY <2>0 DEF SlotsInOrder
  <2> QED
    BY <2>1, <2>2, <2>4, <2>5, <2>6 DEF WritesWhatFits
<1> QED
  BY <1>1, ExportInvariant, PTL

(* A pass no call raced with copies the exact statistics.                  *)
THEOREM QuietPassesAreExact == ExportSpec => []QuietPassIsExact
<1>1. ExportInv => QuietPassIsExact
  BY DEF ExportInv, SlotsInOrder, QuietCopy, QuietPassIsExact, HasSamples2
<1> QED
  BY <1>1, ExportInvariant, PTL

(* Whatever races with a pass, what it copies is bracketed.                *)
THEOREM CopiesAreBracketed == ExportSpec => []CopyIsBracketed
<1>1. ExportInv => CopyIsBracketed
  <2> SUFFICES ASSUME ExportInv, Exported PROVE CopyIsBracketed
    BY DEF CopyIsBracketed
  <2>1. export_probes[Tracked] = probe_copy /\ at \notin PassPoints
    <3>1. DOMAIN export_probes = 0..i - 1 /\ (at \in PassPoints => i = Tracked) /\ i \in Nat
      BY DEF ExportInv, SlotsInOrder, ExportTypeOK
    <3> QED
      BY <3>1 DEF ExportInv, SlotsInOrder, Exported
  <2>2. StartedInPass = after
    BY <2>1 DEF StartedInPass
  <2>3. HasSamples1 /\ HasSamples2 /\ HasMin /\ HasMax /\ HasSum
    BY DEF HasSamples1, HasSamples2, HasMin, HasMax, HasSum, HasSquares
  <2>4. CountsBracketed /\ ExtremesBracketed /\ SumBracketed
    BY DEF ExportInv
  <2> QED
    BY <2>1, <2>2, <2>3, <2>4
       DEF CountsBracketed, ExtremesBracketed, SumBracketed, CopyIsBracketed
<1> QED
  BY <1>1, ExportInvariant, PTL
=============================================================================

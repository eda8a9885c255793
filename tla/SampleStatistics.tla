-------------------------- MODULE SampleStatistics --------------------------
(***************************************************************************)
(* The statistics a dj_profile_probe (profiling.h) is meant to hold about  *)
(* a set S of recorded calls, where f[c] is the duration of call c:        *)
(* the sum, the sum of squares, the least and the greatest duration.       *)
(* These are the reference definitions the lock-free code is compared to.  *)
(***************************************************************************)
EXTENDS Integers, FiniteSets

CONSTANT
  W   (* The number of values of a uint64_t: 2^64 in the code.             *)

ASSUME WidthAssumption == W \in Nat /\ W >= 2

UINT64_MAX == W - 1

(***************************************************************************)
(* Counting formulation of a sum: f[c] units for every c in S.  The sum is *)
(* the number of units, so facts about finite sums are facts about         *)
(* cardinalities, without induction.  It is the sum for f[c] \in 0..W*W.   *)
(***************************************************************************)
Units(S, f) == {u \in S \X (1..W * W) : u[2] <= f[u[1]]}

SumOver(S, f) == Cardinality(Units(S, f))

Squares(f) == [c \in DOMAIN f |-> f[c] * f[c]]

IsLeast(m, S, f) ==
  /\ \A c \in S : m <= f[c]
  /\ m = UINT64_MAX \/ \E c \in S : m = f[c]

IsGreatest(m, S, f) ==
  /\ \A c \in S : m >= f[c]
  /\ m = 0 \/ \E c \in S : m = f[c]

(* The values of the fields sum_ns, sum_sq_ns, min_ns and max_ns.          *)
Statistics == [sum: 0..W - 1, sum_sq: 0..W * W - 1, min: 0..W - 1, max: 0..W - 1]

(* s holds the statistics of exactly the calls in S.                       *)
ExactFor(s, S, f) ==
  /\ s.sum = SumOver(S, f) % W
  /\ s.sum_sq = SumOver(S, Squares(f)) % (W * W)
  /\ IsLeast(s.min, S, f)
  /\ IsGreatest(s.max, S, f)
=============================================================================

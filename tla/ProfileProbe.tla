---------------------------- MODULE ProfileProbe ----------------------------
(***************************************************************************)
(* One profiling probe and the calls of dj_profile_sample that update it   *)
(* concurrently without a lock (profiling.h, profiling.cpp).               *)
(*                                                                         *)
(* Each call runs the body of dj_profile_sample; every load, atomic add    *)
(* and compare-and-swap of a field of the probe is a step of its own, and  *)
(* the steps of different calls interleave freely.  Memory is sequentially *)
(* consistent: every update in the code is an atomic read-modify-write.    *)
(***************************************************************************)
EXTENDS SampleStatistics

CONSTANTS
  Calls,  (* The calls of dj_profile_sample ever made on the probe.        *)
  Times   (* The clock values, in nanoseconds, a call can be passed.       *)

ASSUME CallsAssumption == IsFiniteSet(Calls)
ASSUME TimesAssumption == Times \subseteq 0..W - 1 /\ Times # {}

VARIABLES
  (* The fields of the probe.                                              *)
  num_samples_1, num_samples_2, sum_ns, sum_sq_ns_lo, sum_sq_ns_hi,
  min_ns, max_ns,
  (* The calls: where each is, and its locals.                             *)
  pc,
  delta,       (* end_ns - start_ns                                        *)
  seen,        (* the local min, then max: the value the next CAS expects  *)
  delta_sq_hi  (* what the call still owes to sum_sq_ns_hi                 *)

probeVars ==
  <<num_samples_1, num_samples_2, sum_ns, sum_sq_ns_lo, sum_sq_ns_hi, min_ns, max_ns>>
callVars == <<pc, delta, seen, delta_sq_hi>>
vars == <<probeVars, callVars>>

(***************************************************************************)
(* The statements of dj_profile_sample that touch the probe, in order.     *)
(***************************************************************************)
PCs == {"idle", "add_sum", "load_min", "cas_min", "load_max", "cas_max",
        "add_sq_lo", "add_sq_hi", "finish", "done"}

(* The field sum_sq_ns, the union of the two halves.                       *)
sum_sq_ns == sum_sq_ns_hi * W + sum_sq_ns_lo

(* DJ_PROFILE_PROBE_INIT, with no call made.                               *)
Init ==
  /\ num_samples_1 = 0
  /\ num_samples_2 = 0
  /\ sum_ns = 0
  /\ sum_sq_ns_lo = 0
  /\ sum_sq_ns_hi = 0
  /\ min_ns = UINT64_MAX
  /\ max_ns = 0
  /\ pc = [c \in Calls |-> "idle"]
  /\ delta = [c \in Calls |-> 0]
  /\ seen = [c \in Calls |-> 0]
  /\ delta_sq_hi = [c \in Calls |-> 0]

Goto(c, from, to) ==
  /\ pc[c] = from
  /\ pc' = [pc EXCEPT ![c] = to]

-----------------------------------------------------------------------------
(* The duration of a call, an unsigned difference.                         *)
SignedElapsed(start_ns, end_ns) == end_ns - start_ns  \* mutated form of Elapsed
Elapsed(start_ns, end_ns) == (end_ns - start_ns) % W

(* A call enters: it counts itself as started and computes its duration.   *)
Enter(c) ==
  /\ Goto(c, "idle", "add_sum")
  /\ num_samples_1' = num_samples_1 + 1
  /\ \E start_ns, end_ns \in Times :
       delta' = [delta EXCEPT ![c] = Elapsed(start_ns, end_ns)]
  /\ UNCHANGED <<num_samples_2, sum_ns, sum_sq_ns_lo, sum_sq_ns_hi, min_ns, max_ns,
                 seen, delta_sq_hi>>

AddSum(c) ==
  /\ Goto(c, "add_sum", "load_min")
  /\ sum_ns' = (sum_ns + delta[c]) % W
  /\ UNCHANGED <<num_samples_1, num_samples_2, sum_sq_ns_lo, sum_sq_ns_hi, min_ns, max_ns,
                 delta, seen, delta_sq_hi>>

(* The load of min_ns and the test of the loop: nothing to lower ...       *)
MinIsLow(c) ==
  /\ min_ns <= delta[c]
  /\ Goto(c, "load_min", "load_max")
  /\ UNCHANGED <<probeVars, delta, seen, delta_sq_hi>>

(* ... or a compare-and-swap to attempt.                                   *)
MinIsHigh(c) ==
  /\ min_ns > delta[c]
  /\ Goto(c, "load_min", "cas_min")
  /\ seen' = [seen EXCEPT ![c] = min_ns]
  /\ UNCHANGED <<probeVars, delta, delta_sq_hi>>

(* Mutated forms of SwapMin and RetryMin, for the mutants of PROJECT.json. *)
StoreMin(c) ==
  /\ Goto(c, "cas_min", "load_max")
  /\ min_ns' = delta[c]
  /\ UNCHANGED <<num_samples_1, num_samples_2, sum_ns, sum_sq_ns_lo, sum_sq_ns_hi, max_ns,
                 delta, seen, delta_sq_hi>>
RetryMinWithoutLoad(c) ==
  /\ min_ns # seen[c]
  /\ Goto(c, "cas_min", "cas_min")
  /\ UNCHANGED <<probeVars, delta, seen, delta_sq_hi>>

SwapMin(c) ==
  /\ min_ns = seen[c]
  /\ Goto(c, "cas_min", "load_max")
  /\ min_ns' = delta[c]
  /\ UNCHANGED <<num_samples_1, num_samples_2, sum_ns, sum_sq_ns_lo, sum_sq_ns_hi, max_ns,
                 delta, seen, delta_sq_hi>>

(* Another call changed min_ns: go back to the load.                       *)
RetryMin(c) ==
  /\ min_ns # seen[c]
  /\ Goto(c, "cas_min", "load_min")
  /\ UNCHANGED <<probeVars, delta, seen, delta_sq_hi>>

MaxIsHigh(c) ==
  /\ max_ns >= delta[c]
  /\ Goto(c, "load_max", "add_sq_lo")
  /\ UNCHANGED <<probeVars, delta, seen, delta_sq_hi>>

MaxIsLow(c) ==
  /\ max_ns < delta[c]
  /\ Goto(c, "load_max", "cas_max")
  /\ seen' = [seen EXCEPT ![c] = max_ns]
  /\ UNCHANGED <<probeVars, delta, delta_sq_hi>>

(* Mutated form of SwapMax. *)
StoreMax(c) ==
  /\ Goto(c, "cas_max", "add_sq_lo")
  /\ max_ns' = delta[c]
  /\ UNCHANGED <<num_samples_1, num_samples_2, sum_ns, sum_sq_ns_lo, sum_sq_ns_hi, min_ns,
                 delta, seen, delta_sq_hi>>

SwapMax(c) ==
  /\ max_ns = seen[c]
  /\ Goto(c, "cas_max", "add_sq_lo")
  /\ max_ns' = delta[c]
  /\ UNCHANGED <<num_samples_1, num_samples_2, sum_ns, sum_sq_ns_lo, sum_sq_ns_hi, min_ns,
                 delta, seen, delta_sq_hi>>

RetryMax(c) ==
  /\ max_ns # seen[c]
  /\ Goto(c, "cas_max", "load_max")
  /\ UNCHANGED <<probeVars, delta, seen, delta_sq_hi>>

(* The carry out of the low half, from the value the atomic add returned.  *)
NoCarry(prev_lo, delta_sq_lo) == 0  \* mutated form of Carry
Carry(prev_lo, delta_sq_lo) == (prev_lo + delta_sq_lo) \div W

(* The low half of the square is added; the carry goes to the high half    *)
(* the call adds in a later step of its own.                               *)
AddSqLo(c) ==
  LET delta_sq == delta[c] * delta[c] IN
    /\ Goto(c, "add_sq_lo", "add_sq_hi")
    /\ sum_sq_ns_lo' = (sum_sq_ns_lo + (delta_sq % W)) % W
    /\ delta_sq_hi' = [delta_sq_hi EXCEPT ![c] =
                         ((delta_sq \div W) + Carry(sum_sq_ns_lo, delta_sq % W)) % W]
    /\ UNCHANGED <<num_samples_1, num_samples_2, sum_ns, sum_sq_ns_hi, min_ns, max_ns,
                   delta, seen>>

AddSqHi(c) ==
  /\ Goto(c, "add_sq_hi", "finish")
  /\ sum_sq_ns_hi' = (sum_sq_ns_hi + delta_sq_hi[c]) % W
  /\ UNCHANGED <<num_samples_1, num_samples_2, sum_ns, sum_sq_ns_lo, min_ns, max_ns,
                 delta, seen, delta_sq_hi>>

Finish(c) ==
  /\ Goto(c, "finish", "done")
  /\ num_samples_2' = num_samples_2 + 1
  /\ UNCHANGED <<num_samples_1, sum_ns, sum_sq_ns_lo, sum_sq_ns_hi, min_ns, max_ns,
                 delta, seen, delta_sq_hi>>

LowerMin(c) == MinIsLow(c) \/ MinIsHigh(c) \/ SwapMin(c) \/ RetryMin(c)
RaiseMax(c) == MaxIsHigh(c) \/ MaxIsLow(c) \/ SwapMax(c) \/ RetryMax(c)

(* The steps of a call that has entered.                                   *)
Proceed(c) ==
  AddSum(c) \/ LowerMin(c) \/ RaiseMax(c) \/ AddSqLo(c) \/ AddSqHi(c) \/ Finish(c)

Next == \E c \in Calls : Enter(c) \/ Proceed(c)

Spec == Init /\ [][Next]_vars

(* A thread inside dj_profile_sample keeps being scheduled; nothing makes  *)
(* a call start.                                                           *)
FairSpec == Spec /\ \A c \in Calls : WF_vars(Proceed(c))

-----------------------------------------------------------------------------
(* How far the calls have got.                                             *)
Started   == {c \in Calls : pc[c] # "idle"}
Done      == {c \in Calls : pc[c] = "done"}
SumAdded  == {c \in Calls : pc[c] \notin {"idle", "add_sum"}}
MinSeen   == {c \in SumAdded : pc[c] \notin {"load_min", "cas_min"}}
MaxSeen   == {c \in MinSeen : pc[c] \notin {"load_max", "cas_max"}}
SqLoAdded == {c \in MaxSeen : pc[c] # "add_sq_lo"}
SqHiOwed  == {c \in Calls : pc[c] = "add_sq_hi"}

stats == [sum |-> sum_ns, sum_sq |-> sum_sq_ns, min |-> min_ns, max |-> max_ns]

TypeOK ==
  /\ num_samples_1 \in Nat
  /\ num_samples_2 \in Nat
  /\ {sum_ns, sum_sq_ns_lo, sum_sq_ns_hi, min_ns, max_ns} \subseteq 0..W - 1
  /\ pc \in [Calls -> PCs]
  /\ delta \in [Calls -> 0..W - 1]
  /\ seen \in [Calls -> 0..W - 1]
  /\ delta_sq_hi \in [Calls -> 0..W - 1]

(***************************************************************************)
(* When the two sample counters agree the probe is at rest and its         *)
(* statistics are exactly those of the calls that returned: no addition,   *)
(* no carry, no minimum and no maximum was lost to an interleaving.  This  *)
(* is what makes the pair of counters around the update in                 *)
(* dj_profile_sample a usable consistency check.                           *)
(***************************************************************************)
ExactAtRest ==
  num_samples_1 = num_samples_2 => Started = Done /\ ExactFor(stats, Done, delta)

(***************************************************************************)
(* Between the two halves of an update the 128-bit sum of squares is off   *)
(* by exactly what calls still owe to the high half: the carry of an       *)
(* atomic add of the low half is owed by the one call whose add wrapped.   *)
(***************************************************************************)
SumOfSquaresConserved ==
  (sum_sq_ns + W * SumOver(SqHiOwed, delta_sq_hi)) % (W * W)
    = SumOver(SqLoAdded, Squares(delta)) % (W * W)

(***************************************************************************)
(* While calls race, the minimum is the duration of a call that has passed *)
(* the minimum loop and bounds all of them, and so for the maximum: a      *)
(* failed or a late compare-and-swap never replaces a better value.        *)
(***************************************************************************)
ExtremesOfPassedCalls ==
  /\ IsLeast(min_ns, MinSeen, delta)
  /\ IsGreatest(max_ns, MaxSeen, delta)

(***************************************************************************)
(* A step never raises the minimum or lowers the maximum, whatever stale   *)
(* value a call loaded before it.                                          *)
(***************************************************************************)
ExtremesOnlyWiden == [][min_ns' <= min_ns /\ max_ns' >= max_ns]_vars

(***************************************************************************)
(* Every call that enters dj_profile_sample returns: its two               *)
(* compare-and-swap loops end, because a failed swap means that another    *)
(* call moved the extreme closer to its bound.                             *)
(***************************************************************************)
EveryCallReturns == \A c \in Calls : pc[c] = "add_sum" ~> pc[c] = "done"

(***************************************************************************)
(* The inductive invariant behind the safety properties.  The counters     *)
(* count the calls that started and that are done; the sum is complete up  *)
(* to the calls that have not added to it; and a compare-and-swap that is  *)
(* about to be tried expects a value that was no better than the current   *)
(* extreme and that the duration of its call improves on.                  *)
(***************************************************************************)
CountersCountCalls ==
  /\ num_samples_1 = Cardinality(Started)
  /\ num_samples_2 = Cardinality(Done)

SumConserved == sum_ns = SumOver(SumAdded, delta) % W

SwapsWouldImprove ==
  /\ \A c \in Calls : pc[c] = "cas_min" => min_ns <= seen[c] /\ delta[c] < seen[c]
  /\ \A c \in Calls : pc[c] = "cas_max" => max_ns >= seen[c] /\ delta[c] > seen[c]

IInv ==
  /\ TypeOK
  /\ CountersCountCalls
  /\ SumConserved
  /\ SumOfSquaresConserved
  /\ ExtremesOfPassedCalls
  /\ SwapsWouldImprove

(***************************************************************************)
(* The lock-free code keeps the promise of a probe.                        *)
(***************************************************************************)
Promise == INSTANCE ProbePromise WITH
  recording <- Started \ Done, recorded <- Done, duration <- delta, stats <- stats

KeepsPromise == Promise!PromiseSpec
=============================================================================

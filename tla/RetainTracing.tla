---------------------------- MODULE RetainTracing ----------------------------
(***************************************************************************)
(* The macro of osobject_retaincount.h: taggedRetain and taggedRelease log *)
(* the retain count before they call the superclass, while other threads   *)
(* do the same.                                                            *)
(***************************************************************************)
EXTENDS Integers, FiniteSets

CONSTANTS
  Threads,
  MaxOwned   (* References one thread may have.                            *)

ASSUME TraceAssumption == IsFiniteSet(Threads) /\ MaxOwned \in Nat \ {0}

VARIABLES
  retainCount,   (* The object's: it is gone when there is none.           *)
  owned,         (* The references each thread has.                        *)
  tracePC,       (* Whether a thread is in taggedRetain or taggedRelease.  *)
  logged         (* The count it has logged there.                         *)

traceVars == <<retainCount, owned, tracePC, logged>>

TraceInit ==
  /\ retainCount = Cardinality(Threads)
  /\ owned = [t \in Threads |-> 1]
  /\ tracePC = [t \in Threads |-> "outside"]
  /\ logged = [t \in Threads |-> 0]

TraceTrans(t, from, to) == tracePC[t] = from /\ tracePC' = [tracePC EXCEPT ![t] = to]

(* Only a thread with a reference may use the object.                      *)
EnterTraced(t, function) ==
  /\ TraceTrans(t, "outside", function)
  /\ owned[t] > 0
  /\ logged' = [logged EXCEPT ![t] = retainCount]
  /\ UNCHANGED <<retainCount, owned>>

Count(t, function, n) ==
  /\ TraceTrans(t, function, "outside")
  /\ retainCount' = retainCount + n
  /\ owned' = [owned EXCEPT ![t] = @ + n]
  /\ UNCHANGED logged

taggedRelease(t) == EnterTraced(t, "taggedRelease") \/ Count(t, "taggedRelease", -1)

(* Mutated form of taggedRetain: the superclass does not come to know.     *)
taggedRetainUncounted(t) ==
  /\ owned[t] < MaxOwned
  /\ \/ EnterTraced(t, "taggedRetain")
     \/ /\ TraceTrans(t, "taggedRetain", "outside")
        /\ owned' = [owned EXCEPT ![t] = @ + 1]
        /\ UNCHANGED <<retainCount, logged>>

taggedRetain(t) ==
  /\ owned[t] < MaxOwned
  /\ EnterTraced(t, "taggedRetain") \/ Count(t, "taggedRetain", 1)

TraceNext == \E t \in Threads : taggedRetain(t) \/ taggedRelease(t)

TraceSpec == TraceInit /\ [][TraceNext]_traceVars

-----------------------------------------------------------------------------
(* What the log is worth, although the count is read before the operation: *)
(* the count in a line may be stale, and the release that frees the object *)
(* may have been logged as one from a higher count; but a count of one in  *)
(* the log is always true, as nobody else can change that of an object     *)
(* with one reference: after "release: 1 -> 0" the object is gone.         *)
LastReleaseIsLogged ==
  \A t \in Threads :
    tracePC[t] # "outside" =>
      /\ retainCount >= 1
      /\ logged[t] = 1 => retainCount = 1

-----------------------------------------------------------------------------
(* The inductive invariant: the count is the number of references that     *)
(* threads have, one for each number up to owned[t], and a thread in the   *)
(* middle of a call still has the one it called with.                      *)
Held == {r \in Threads \X (1..MaxOwned) : r[2] <= owned[r[1]]}

TraceInv ==
  /\ owned \in [Threads -> 0..MaxOwned]
  /\ tracePC \in [Threads -> {"outside", "taggedRetain", "taggedRelease"}]
  /\ logged \in [Threads -> Nat]
  /\ retainCount = Cardinality(Held)
  /\ \A t \in Threads : tracePC[t] # "outside" => owned[t] >= 1
  /\ \A t \in Threads : tracePC[t] # "outside" /\ logged[t] = 1 => retainCount = 1
=============================================================================

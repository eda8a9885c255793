------------------------------ MODULE DJTLock ------------------------------
(***************************************************************************)
(* DJTLock, a reference-counted OSObject around an IOLock, and             *)
(* DJTLockGuard, the scope guard through which threads use it              *)
(* (DJTLock.hpp, DJTLock.cpp).                                             *)
(*                                                                         *)
(* An owner creates the lock and drops its reference at any time later.    *)
(* A thread may construct a guard while the owner's reference exists (a    *)
(* pointer to a live object is what the guard is given) and may then hold  *)
(* the guard for as long as it likes, sleeping on events meanwhile.        *)
(*                                                                         *)
(* OSObject's retain, release and IOLock's operations are libkern's and    *)
(* IOKit's; each is one atomic step here.                                  *)
(***************************************************************************)
EXTENDS Integers, FiniteSets

CONSTANTS
  Threads,  (* The threads that use guards.                                *)
  Owner,    (* The creator of the lock, not one of Threads.                *)
  Nobody,   (* The holder of a lock that is not held.                      *)
  Events    (* The events a thread can sleep on.                           *)

ASSUME ThreadsAssumption == IsFiniteSet(Threads) /\ Owner \notin Threads /\ Nobody \notin Threads
ASSUME EventsAssumption == Events # {}

Processes == Threads \union {Owner}

VARIABLES
  object,       (* The memory of the OSObject: "absent", "live" or "gone". *)
  retainCount,
  lock_obj,     (* Whether lock_obj points to an allocated IOLock.         *)
  holder,       (* Of the IOLock.                                          *)
  event,        (* What a sleeping thread sleeps on.                       *)
  pc

vars == <<object, retainCount, lock_obj, holder, event, pc>>

Init ==
  /\ object = "absent"
  /\ retainCount = 0
  /\ lock_obj = FALSE
  /\ holder = Nobody
  /\ event \in [Threads -> Events]
  /\ pc = [p \in Processes |-> IF p = Owner THEN "new" ELSE "idle"]

Goto(p, from, to) ==
  /\ pc[p] = from
  /\ pc' = [pc EXCEPT ![p] = to]

-----------------------------------------------------------------------------
(* The life of the object.                                                 *)

(* The allocation gives the owner the first reference.                     *)
New ==
  /\ Goto(Owner, "new", "init")
  /\ object' = "live"
  /\ retainCount' = 1
  /\ UNCHANGED <<lock_obj, holder, event>>

init ==
  /\ Goto(Owner, "init", "owning")
  /\ lock_obj' = TRUE
  /\ UNCHANGED <<object, retainCount, holder, event>>

(* IOLockAlloc or the base class failed: the creator drops the object.     *)
InitFails ==
  /\ Goto(Owner, "init", "release")
  /\ UNCHANGED <<object, retainCount, lock_obj, holder, event>>

OwnerDrops ==
  /\ Goto(Owner, "owning", "release")
  /\ UNCHANGED <<object, retainCount, lock_obj, holder, event>>

(* release(): the one that drops the last reference goes on to free().     *)
Release(p) ==
  /\ Goto(p, "release", IF retainCount = 1 THEN "free" ELSE "idle")
  /\ retainCount' = retainCount - 1
  /\ UNCHANGED <<object, lock_obj, holder, event>>

(* free(): the IOLock, when init got that far, then the object itself.     *)
free(p) ==
  /\ Goto(p, "free", "idle")
  /\ lock_obj' = FALSE
  /\ object' = "gone"
  /\ UNCHANGED <<retainCount, holder, event>>

-----------------------------------------------------------------------------
(* A guard: the constructor's two steps, what its scope may do, and the    *)
(* destructor's two steps, unlock and Release.                             *)

(* Mutated form of GuardRetain: the guard borrows the owner's reference    *)
(* while its destructor still releases one.                                *)
GuardBorrow(t) ==
  /\ pc[Owner] = "owning"
  /\ Goto(t, "idle", "lock")
  /\ UNCHANGED <<object, retainCount, lock_obj, holder, event>>
GuardRetain(t) ==
  /\ pc[Owner] = "owning"
  /\ Goto(t, "idle", "lock")
  /\ retainCount' = retainCount + 1
  /\ UNCHANGED <<object, lock_obj, holder, event>>

(* IOLockLock, by the constructor or on the way out of a sleep.            *)
lock(t) ==
  /\ holder = Nobody
  /\ Goto(t, "lock", "inside")
  /\ holder' = t
  /\ UNCHANGED <<object, retainCount, lock_obj, event>>

unlock(t) ==
  /\ Goto(t, "inside", "release")
  /\ holder' = Nobody
  /\ UNCHANGED <<object, retainCount, lock_obj, event>>

(* Mutated form of sleepWithDeadline: asleep with the lock held.           *)
SleepHoldingLock(t) ==
  /\ Goto(t, "inside", "asleep")
  /\ \E e \in Events : event' = [event EXCEPT ![t] = e]
  /\ UNCHANGED <<object, retainCount, lock_obj, holder>>

(* IOLockSleepDeadline gives up the lock and falls asleep in one step.     *)
sleepWithDeadline(t) ==
  /\ Goto(t, "inside", "asleep")
  /\ \E e \in Events : event' = [event EXCEPT ![t] = e]
  /\ holder' = Nobody
  /\ UNCHANGED <<object, retainCount, lock_obj>>

(* Mutated form of SleepEnds: the sleeper goes on without the lock.        *)
SleepEndsUnlocked(t) ==
  /\ Goto(t, "asleep", "inside")
  /\ UNCHANGED <<object, retainCount, lock_obj, holder, event>>

(* The deadline passes, or the thread is interrupted: which of them, or of *)
(* these and a wakeup, is lost, for sleepWithDeadline returns nothing.     *)
SleepEnds(t) ==
  /\ Goto(t, "asleep", "lock")
  /\ UNCHANGED <<object, retainCount, lock_obj, holder, event>>

Sleepers(e) == {t \in Threads : pc[t] = "asleep" /\ event[t] = e}

(* IOLockWakeup of one thread, by anyone with a reference, the lock held   *)
(* or not; no sleeper means no effect.                                     *)
wakeupSleepingThread(p) ==
  /\ pc[p] \in {"inside", "owning"}
  /\ \E e \in Events : \E t \in Sleepers(e) : Goto(t, "asleep", "lock")
  /\ UNCHANGED <<object, retainCount, lock_obj, holder, event>>

GuardStep(t) ==
  \/ GuardRetain(t) \/ lock(t) \/ unlock(t)
  \/ sleepWithDeadline(t) \/ SleepEnds(t)

Next ==
  \/ New \/ init \/ InitFails \/ OwnerDrops
  \/ \E p \in Processes : Release(p) \/ free(p) \/ wakeupSleepingThread(p)
  \/ \E t \in Threads : GuardStep(t)

Spec == Init /\ [][Next]_vars

(***************************************************************************)
(* Threads keep being scheduled and deadlines pass; the scope of a guard   *)
(* ends, however often the thread sleeps in it.  Nothing makes a thread    *)
(* construct a guard, sleep, or wake another.  IOLock promises no order    *)
(* among the threads that wait for it: only that a lock that stays free is *)
(* taken.                                                                  *)
(***************************************************************************)
FairSpec ==
  /\ Spec
  /\ \A p \in Processes : WF_vars(Release(p)) /\ WF_vars(free(p))
  /\ \A t \in Threads : WF_vars(lock(t)) /\ SF_vars(unlock(t)) /\ WF_vars(SleepEnds(t))

-----------------------------------------------------------------------------
PCs == {"idle", "new", "init", "owning", "lock", "inside", "asleep", "release", "free"}

TypeOK ==
  /\ object \in {"absent", "live", "gone"}
  /\ retainCount \in Nat
  /\ lock_obj \in BOOLEAN
  /\ holder \in Threads \union {Nobody}
  /\ event \in [Threads -> Events]
  /\ pc \in [Processes -> PCs]

(* The threads that have a guard, from its retain to its release.          *)
Guards == {t \in Threads : pc[t] \in {"lock", "inside", "asleep", "release"}}

(***************************************************************************)
(* A guard's lock outlives it, whenever the owner drops its reference: no  *)
(* thread waits for, holds, sleeps on or is about to release a lock that   *)
(* was freed.                                                              *)
(***************************************************************************)
LockOutlivesGuards == Guards # {} => lock_obj /\ object = "live"

(***************************************************************************)
(* The thread inside a guard's scope holds the lock, before a sleep and    *)
(* after it, and nobody holds it otherwise; so what the destructor unlocks *)
(* is its own thread's lock.                                               *)
(***************************************************************************)
InsideHolds == \A t \in Threads : pc[t] = "inside" <=> holder = t

(***************************************************************************)
(* The inductive invariant: the retain count is the number of processes    *)
(* that have a reference to drop; one that frees the object is alone.      *)
(***************************************************************************)
Referencing == {p \in Processes : pc[p] \in {"init", "owning", "lock", "inside", "asleep", "release"}}

RetainsAccounted ==
  /\ retainCount = Cardinality(Referencing)
  /\ object = "live" <=> Referencing # {} \/ \E p \in Processes : pc[p] = "free"
  /\ \A p \in Processes : pc[p] = "free" =>
       Referencing = {} /\ \A q \in Processes : pc[q] = "free" => q = p

OwnerCreatedIt ==
  /\ pc[Owner] \in {"new", "init", "owning", "release", "free", "idle"}
  /\ \A t \in Threads : pc[t] \notin {"new", "init", "owning"}
  /\ pc[Owner] = "new" <=> object = "absent"
  /\ pc[Owner] \in {"new", "init"} => Guards = {} /\ ~lock_obj
  /\ pc[Owner] = "owning" \/ Guards # {} => lock_obj
  /\ object = "gone" => ~lock_obj

IInv ==
  /\ TypeOK
  /\ InsideHolds
  /\ RetainsAccounted
  /\ OwnerCreatedIt

(***************************************************************************)
(* Once the owner has dropped its reference the lock is freed: no guard    *)
(* loses the reference it took, no sleeper outlasts its deadline.          *)
(***************************************************************************)
FreedInTheEnd == pc[Owner] = "release" ~> object = "gone"

(***************************************************************************)
(* The lock with its guards keeps the promise of a reference-counted lock. *)
(***************************************************************************)
Promise == INSTANCE LockPromise WITH
  exists <- IF lock_obj THEN "yes" ELSE IF object = "gone" THEN "no more" ELSE "not yet",
  users <- Guards,
  inside <- holder

KeepsPromise == Promise!PromiseSpec
=============================================================================

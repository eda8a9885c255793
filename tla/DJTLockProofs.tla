---------------------------- MODULE DJTLockProofs ----------------------------
(***************************************************************************)
(* Proofs about DJTLock for any finite number of threads.                  *)
(***************************************************************************)
EXTENDS DJTLock, FiniteSetTheorems, TLAPS

LEMMA ReferencingFinite == IsFiniteSet(Referencing)
<1>1. IsFiniteSet(Processes)
  BY ThreadsAssumption, FS_AddElement DEF Processes
<1>2. Referencing \in SUBSET Processes
  BY DEF Referencing
<1> QED
  BY <1>1, <1>2, FS_Subset

LEMMA InitInv == Init => IInv
<1> SUFFICES ASSUME Init PROVE IInv
  OBVIOUS
<1> USE ThreadsAssumption DEF Init, Processes
<1>1. TypeOK
  BY DEF TypeOK, PCs
<1>2. InsideHolds
  BY DEF InsideHolds
<1>3. Referencing = {} /\ Guards = {}
  BY DEF Referencing, Guards
<1>4. RetainsAccounted
  BY <1>3, FS_EmptySet DEF RetainsAccounted
<1>5. OwnerCreatedIt
  BY <1>3 DEF OwnerCreatedIt
<1> QED
  BY <1>1, <1>2, <1>4, <1>5 DEF IInv

-----------------------------------------------------------------------------
(* Every step preserves each part of the invariant.                        *)

LEMMA TypeStep == IInv /\ [Next]_vars => TypeOK'
<1> SUFFICES ASSUME IInv, [Next]_vars PROVE TypeOK'
  OBVIOUS
<1>0. TypeOK
  BY DEF IInv
<1> USE <1>0 DEF TypeOK, Goto, PCs, Processes
<1>1. ASSUME New \/ init \/ InitFails \/ OwnerDrops PROVE TypeOK'
  <2>1. UNCHANGED <<holder, event>> /\ pc' \in [Processes -> PCs]
    BY <1>1 DEF New, init, InitFails, OwnerDrops
  <2>2. /\ object' = "live" \/ object' = object
        /\ lock_obj' = TRUE \/ lock_obj' = lock_obj
        /\ retainCount' = 1 \/ retainCount' = retainCount
    BY <1>1 DEF New, init, InitFails, OwnerDrops
  <2>3. lock_obj' \in BOOLEAN
    BY <2>2
  <2>4. object' \in {"absent", "live", "gone"} /\ retainCount' \in Nat
    BY <2>2
  <2> QED
    BY <2>1, <2>3, <2>4
<1>2. ASSUME NEW p \in Processes, Release(p) PROVE TypeOK'
  <2>1. p \in Referencing
    BY <1>2 DEF Release, Referencing
  <2>2. retainCount = Cardinality(Referencing) /\ Cardinality(Referencing) # 0
    BY <2>1, ReferencingFinite, FS_EmptySet DEF IInv, RetainsAccounted
  <2>3. retainCount - 1 \in Nat
    BY <2>2
  <2> QED
    BY <1>2, <2>3 DEF Release
<1>3. ASSUME NEW p \in Processes, free(p) PROVE TypeOK'
  BY <1>3 DEF free
<1>4. ASSUME NEW p \in Processes, wakeupSleepingThread(p) PROVE TypeOK'
  BY <1>4 DEF wakeupSleepingThread, Sleepers
<1>5. ASSUME NEW t \in Threads, GuardStep(t) PROVE TypeOK'
  BY <1>5 DEF GuardStep, GuardRetain, lock, unlock, sleepWithDeadline, SleepEnds
<1>6. CASE UNCHANGED vars
  BY <1>6 DEF vars
<1> QED
  BY <1>1, <1>2, <1>3, <1>4, <1>5, <1>6 DEF Next

LEMMA InsideStep == IInv /\ [Next]_vars => InsideHolds'
<1> SUFFICES ASSUME IInv, [Next]_vars PROVE InsideHolds'
  OBVIOUS
<1>0. /\ pc \in [Processes -> PCs] /\ holder \in Threads \union {Nobody}
      /\ InsideHolds /\ Nobody \notin Threads
  BY ThreadsAssumption DEF IInv, TypeOK
<1> USE <1>0 DEF InsideHolds, Goto, Processes
<1>1. ASSUME New \/ init \/ InitFails \/ OwnerDrops PROVE InsideHolds'
  BY <1>1, ThreadsAssumption DEF New, init, InitFails, OwnerDrops
<1>2. ASSUME NEW p \in Processes, Release(p) \/ free(p) \/ wakeupSleepingThread(p)
      PROVE  InsideHolds'
  BY <1>2 DEF Release, free, wakeupSleepingThread, Sleepers
<1>3. ASSUME NEW t \in Threads, GuardStep(t) PROVE InsideHolds'
  BY <1>3 DEF GuardStep, GuardRetain, lock, unlock, sleepWithDeadline, SleepEnds
<1>4. CASE UNCHANGED vars
  BY <1>4 DEF vars
<1> QED
  BY <1>1, <1>2, <1>3, <1>4 DEF Next

LEMMA OwnerStep == IInv /\ [Next]_vars => OwnerCreatedIt'
<1> SUFFICES ASSUME IInv, [Next]_vars PROVE OwnerCreatedIt'
  OBVIOUS
<1>0. pc \in [Processes -> PCs] /\ OwnerCreatedIt /\ Owner \notin Threads
  BY ThreadsAssumption DEF IInv, TypeOK
<1>r. \A p \in Processes : pc[p] = "free" => Referencing = {} /\ object = "live"
  BY DEF IInv, RetainsAccounted
<1> USE <1>0 DEF OwnerCreatedIt, Goto, Processes, Guards
<1>1. ASSUME New \/ init \/ InitFails \/ OwnerDrops PROVE OwnerCreatedIt'
  <2>1. Owner \in Referencing => object = "live" \/ pc[Owner] = "new"
    BY DEF IInv, RetainsAccounted
  <2> QED
    BY <1>1, <2>1 DEF New, init, InitFails, OwnerDrops, Referencing
<1>2. ASSUME NEW p \in Processes, Release(p) PROVE OwnerCreatedIt'
  BY <1>2 DEF Release
<1>3. ASSUME NEW p \in Processes, free(p) PROVE OwnerCreatedIt'
  BY <1>3, <1>r DEF free, Referencing
<1>4. ASSUME NEW p \in Processes, wakeupSleepingThread(p) PROVE OwnerCreatedIt'
  BY <1>4 DEF wakeupSleepingThread, Sleepers
<1>5. ASSUME NEW t \in Threads, GuardStep(t) PROVE OwnerCreatedIt'
  BY <1>5 DEF GuardStep, GuardRetain, lock, unlock, sleepWithDeadline, SleepEnds
<1>6. CASE UNCHANGED vars
  BY <1>6 DEF vars
<1> QED
  BY <1>1, <1>2, <1>3, <1>4, <1>5, <1>6 DEF Next

LEMMA RetainsStep == IInv /\ [Next]_vars => RetainsAccounted'
<1> SUFFICES ASSUME IInv, [Next]_vars PROVE RetainsAccounted'
  OBVIOUS
<1>0. /\ pc \in [Processes -> PCs] /\ RetainsAccounted /\ OwnerCreatedIt
      /\ Owner \notin Threads
  BY ThreadsAssumption DEF IInv, TypeOK
<1> USE <1>0 DEF RetainsAccounted, Goto, Processes
<1>1. ASSUME New PROVE RetainsAccounted'
  <2>1. Referencing = {}
    BY <1>1 DEF New, OwnerCreatedIt
  <2>2. Referencing' = {Owner}
    BY <1>1, <2>1 DEF New, Referencing
  <2>3. \A q \in Processes : pc'[q] # "free"
    BY <1>1 DEF New, OwnerCreatedIt
  <2> QED
    BY <1>1, <2>2, <2>3, FS_Singleton DEF New
<1>2. ASSUME init \/ InitFails \/ OwnerDrops PROVE RetainsAccounted'
  <2>1. Referencing' = Referencing
    BY <1>2 DEF init, InitFails, OwnerDrops, Referencing
  <2>2. \A q \in Processes : pc'[q] = "free" <=> pc[q] = "free"
    BY <1>2 DEF init, InitFails, OwnerDrops
  <2> QED
    BY <1>2, <2>1, <2>2 DEF init, InitFails, OwnerDrops
<1>3. ASSUME NEW p \in Processes, Release(p) PROVE RetainsAccounted'
  <2>1. p \in Referencing /\ \A q \in Processes : pc[q] # "free"
    BY <1>3 DEF Release, Referencing
  <2>2. Referencing' = Referencing \ {p}
    BY <1>3, <2>1 DEF Release, Referencing
  <2>3. Cardinality(Referencing') = retainCount - 1
    BY <2>1, <2>2, ReferencingFinite, FS_RemoveElement
  <2>4. IsFiniteSet(Referencing')
    BY <2>2, ReferencingFinite, FS_RemoveElement
  <2>5. retainCount = 1 <=> Referencing' = {}
    <3>1. Cardinality(Referencing') = 0 <=> Referencing' = {}
      BY <2>4, FS_EmptySet
    <3>2. retainCount \in Nat
      BY DEF IInv, TypeOK
    <3> QED
      BY <2>3, <3>1, <3>2
  <2>6. /\ retainCount' = retainCount - 1 /\ object' = object
        /\ pc' = [pc EXCEPT ![p] = IF retainCount = 1 THEN "free" ELSE "idle"]
    BY <1>3 DEF Release
  <2>7. object = "live"
    BY <2>1
  <2>8. \A q \in Processes : pc'[q] = "free" => q = p /\ retainCount = 1
    BY <2>1, <2>6
  <2>9. retainCount = 1 => pc'[p] = "free"
    BY <2>6
  <2> QED
    BY <2>3, <2>5, <2>6, <2>7, <2>8, <2>9
<1>4. ASSUME NEW p \in Processes, free(p) PROVE RetainsAccounted'
  <2>1. Referencing = {} /\ \A q \in Processes : pc[q] = "free" => q = p
    BY <1>4 DEF free
  <2>2. Referencing' = {} /\ \A q \in Processes : pc'[q] # "free"
    BY <1>4, <2>1 DEF free, Referencing
  <2> QED
    BY <1>4, <2>1, <2>2 DEF free
<1>5. ASSUME NEW t \in Threads, GuardRetain(t) PROVE RetainsAccounted'
  <2>1. Owner \in Referencing /\ t \notin Referencing
    BY <1>5 DEF GuardRetain, Referencing
  <2>2. Referencing' = Referencing \union {t}
    BY <1>5 DEF GuardRetain, Referencing
  <2>3. Cardinality(Referencing') = retainCount + 1
    BY <2>1, <2>2, ReferencingFinite, FS_AddElement
  <2>4. \A q \in Processes : pc'[q] # "free"
    BY <1>5, <2>1 DEF GuardRetain
  <2> QED
    BY <1>5, <2>1, <2>2, <2>3, <2>4 DEF GuardRetain
<1>6. ASSUME NEW t \in Threads,
             lock(t) \/ unlock(t) \/ sleepWithDeadline(t) \/ SleepEnds(t)
      PROVE  RetainsAccounted'
  <2>1. Referencing' = Referencing
    BY <1>6 DEF lock, unlock, sleepWithDeadline, SleepEnds, Referencing
  <2>2. \A q \in Processes : pc'[q] = "free" <=> pc[q] = "free"
    BY <1>6 DEF lock, unlock, sleepWithDeadline, SleepEnds
  <2> QED
    BY <1>6, <2>1, <2>2 DEF lock, unlock, sleepWithDeadline, SleepEnds
<1>7. ASSUME NEW p \in Processes, wakeupSleepingThread(p) PROVE RetainsAccounted'
  <2>1. Referencing' = Referencing
    BY <1>7 DEF wakeupSleepingThread, Sleepers, Referencing
  <2>2. \A q \in Processes : pc'[q] = "free" <=> pc[q] = "free"
    BY <1>7 DEF wakeupSleepingThread, Sleepers
  <2> QED
    BY <1>7, <2>1, <2>2 DEF wakeupSleepingThread
<1>8. CASE UNCHANGED vars
  BY <1>8 DEF vars, Referencing
<1> QED
  BY <1>1, <1>2, <1>3, <1>4, <1>5, <1>6, <1>7, <1>8 DEF Next, GuardStep

-----------------------------------------------------------------------------
(* The theorems.                                                           *)

(* The invariant holds in every state the lock can reach.                  *)
THEOREM LockInvariant == Spec => []IInv
<1>1. IInv /\ [Next]_vars => IInv'
  BY TypeStep, InsideStep, OwnerStep, RetainsStep DEF IInv
<1> QED
  BY <1>1, InitInv, PTL DEF Spec

(* The retain count never goes below zero and everything has its type.     *)
THEOREM LockTypeCorrect == Spec => []TypeOK
<1>1. IInv => TypeOK
  BY DEF IInv
<1> QED
  BY <1>1, LockInvariant, PTL

(* Only the thread inside holds the lock.                                  *)
THEOREM InsideAlwaysHolds == Spec => []InsideHolds
<1>1. IInv => InsideHolds
  BY DEF IInv
<1> QED
  BY <1>1, LockInvariant, PTL

LEMMA GuardsAreSafe == IInv => LockOutlivesGuards
<1> SUFFICES ASSUME IInv, Guards # {} PROVE lock_obj /\ object = "live"
  BY DEF LockOutlivesGuards
<1>1. lock_obj
  BY DEF IInv, OwnerCreatedIt
<1>2. Referencing # {}
  BY DEF Guards, Referencing, Processes
<1> QED
  BY <1>1, <1>2 DEF IInv, RetainsAccounted

(* No guard is left with a lock that was freed.                            *)
THEOREM LockAlwaysOutlivesGuards == Spec => []LockOutlivesGuards
  BY GuardsAreSafe, LockInvariant, PTL

-----------------------------------------------------------------------------
(* The refinement.                                                         *)

LEMMA InitKeepsPromise == Init => Promise!PromiseInit
  BY ThreadsAssumption DEF Init, Promise!PromiseInit, Guards, Processes

LEMMA StepKeepsPromise ==
  IInv /\ IInv' /\ [Next]_vars => [Promise!PromiseNext]_(Promise!promiseVars)
<1> SUFFICES ASSUME IInv, IInv', [Next]_vars
             PROVE  [Promise!PromiseNext]_(Promise!promiseVars)
  OBVIOUS
<1>0. /\ pc \in [Processes -> PCs] /\ Owner \notin Threads /\ Nobody \notin Threads
      /\ holder \in Threads \union {Nobody} /\ lock_obj \in BOOLEAN
  BY ThreadsAssumption DEF IInv, TypeOK
<1>i. InsideHolds /\ LockOutlivesGuards /\ OwnerCreatedIt /\ RetainsAccounted
  BY GuardsAreSafe DEF IInv
<1> USE <1>0 DEF Goto, Processes
<1>1. ASSUME init PROVE Promise!Create
  <2>1. Guards' = Guards
    BY <1>1 DEF init, Guards
  <2>2. ~lock_obj /\ object # "gone"
    BY <1>1, <1>i DEF init, OwnerCreatedIt, RetainsAccounted, Referencing
  <2> QED
    BY <1>1, <2>1, <2>2 DEF init, Promise!Create
<1>2. ASSUME New \/ InitFails \/ OwnerDrops PROVE UNCHANGED Promise!promiseVars
  <2>1. Guards' = Guards
    BY <1>2 DEF New, InitFails, OwnerDrops, Guards
  <2>2. object # "gone" /\ object' # "gone"
    BY <1>2, <1>i DEF New, InitFails, OwnerDrops, OwnerCreatedIt, RetainsAccounted, Referencing
  <2>3. lock_obj' = lock_obj /\ holder' = holder
    BY <1>2 DEF New, InitFails, OwnerDrops
  <2> QED
    BY <2>1, <2>2, <2>3 DEF Promise!promiseVars
<1>3. ASSUME Release(Owner) PROVE UNCHANGED Promise!promiseVars
  <2>1. Guards' = Guards
    BY <1>3 DEF Release, Guards
  <2> QED
    BY <1>3, <2>1 DEF Release, Promise!promiseVars
<1>4. ASSUME NEW t \in Threads, Release(t) PROVE Promise!Leave(t)
  <2>1. t \in Guards /\ Guards' = Guards \ {t} /\ holder # t
    BY <1>4, <1>i DEF Release, Guards, InsideHolds
  <2> QED
    BY <1>4, <2>1 DEF Release, Promise!Leave
<1>5. ASSUME NEW p \in Processes, free(p) PROVE Promise!Destroy \/ Promise!Create
  <2>1. Guards = {} /\ Guards' = {}
    BY <1>5, <1>i DEF free, Guards, RetainsAccounted, Referencing
  <2>2. holder = Nobody
    BY <2>1, <1>i DEF Guards, InsideHolds
  <2>3. object # "gone"
    BY <1>5, <1>i DEF free, RetainsAccounted
  <2>4. CASE lock_obj
    BY <1>5, <2>1, <2>2, <2>4 DEF free, Promise!Destroy
  <2>5. CASE ~lock_obj
    BY <1>5, <2>1, <2>3, <2>5 DEF free, Promise!Create
  <2> QED
    BY <2>4, <2>5
<1>6. ASSUME NEW p \in Processes, wakeupSleepingThread(p)
      PROVE  UNCHANGED Promise!promiseVars
  <2>1. Guards' = Guards
    BY <1>6 DEF wakeupSleepingThread, Sleepers, Guards
  <2> QED
    BY <1>6, <2>1 DEF wakeupSleepingThread, Promise!promiseVars
<1>7. ASSUME NEW t \in Threads, GuardRetain(t) PROVE Promise!Join(t)
  <2>1. t \notin Guards /\ Guards' = Guards \union {t}
    BY <1>7 DEF GuardRetain, Guards
  <2>2. lock_obj
    BY <1>7, <1>i DEF GuardRetain, OwnerCreatedIt
  <2> QED
    BY <1>7, <2>1, <2>2 DEF GuardRetain, Promise!Join
<1>8. ASSUME NEW t \in Threads, lock(t) PROVE Promise!Enter(t)
  <2>1. t \in Guards /\ Guards' = Guards
    BY <1>8 DEF lock, Guards
  <2>2. lock_obj
    BY <2>1, <1>i DEF LockOutlivesGuards
  <2> QED
    BY <1>8, <2>1, <2>2 DEF lock, Promise!Enter
<1>9. ASSUME NEW t \in Threads, unlock(t) \/ sleepWithDeadline(t) PROVE Promise!Yield(t)
  <2>1. t \in Guards /\ Guards' = Guards /\ holder = t
    BY <1>9, <1>i DEF unlock, sleepWithDeadline, Guards, InsideHolds
  <2>2. lock_obj
    BY <2>1, <1>i DEF LockOutlivesGuards
  <2> QED
    BY <1>9, <2>1, <2>2 DEF unlock, sleepWithDeadline, Promise!Yield
<1>10. ASSUME NEW t \in Threads, SleepEnds(t) PROVE UNCHANGED Promise!promiseVars
  <2>1. Guards' = Guards
    BY <1>10 DEF SleepEnds, Guards
  <2> QED
    BY <1>10, <2>1 DEF SleepEnds, Promise!promiseVars
<1>11. CASE UNCHANGED vars
  BY <1>11 DEF vars, Guards, Promise!promiseVars
<1> QED
  BY <1>1, <1>2, <1>3, <1>4, <1>5, <1>6, <1>7, <1>8, <1>9, <1>10, <1>11
     DEF Next, GuardStep, Promise!PromiseNext

(* The lock and its guards implement the promise of a counted lock.        *)
THEOREM LockKeepsPromise == Spec => KeepsPromise
  BY InitKeepsPromise, StepKeepsPromise, LockInvariant, PTL
     DEF Spec, KeepsPromise, Promise!PromiseSpec
=============================================================================

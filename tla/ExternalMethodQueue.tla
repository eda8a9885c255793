------------------------- MODULE ExternalMethodQueue -------------------------
(***************************************************************************)
(* DJTUserClientExternalMethodQueueFixup between the start of a user       *)
(* client and its first external method, on a DriverKit runtime that does  *)
(* not know the external-method queue.  The class may have a default queue *)
(* of its own, which it must set before the fixup                          *)
(* (dext_external_method_queue.hpp:62).                                    *)
(***************************************************************************)
EXTENDS Integers, FiniteSets

CONSTANTS
  Queues,
  FrameworkQueue,   (* The default queue a user client begins with.        *)
  Nullptr

ASSUME QueuesAssumption == FrameworkQueue \in Queues /\ Nullptr \notin Queues

VARIABLES
  startAt,          (* Where the class's start is.                         *)
  default,          (* The queue named kIOServiceDefaultQueueName,         *)
  externalMethod,   (* the one named kIOUserClientQueueNameExternalMethod. *)
  overridden,       (* The class has replaced the default queue.           *)
  default_queue,    (* The fixup's reference, and                          *)
  fixed,            (* what it returned.                                   *)
  queueCount,       (* References to each queue.                           *)
  ranOn             (* The queues that external methods have run on.       *)

fixupVars == <<default_queue, fixed>>
queueVars ==
  <<startAt, default, externalMethod, overridden, fixupVars, queueCount, ranOn>>

QueueInit ==
  /\ startAt = "start"
  /\ default = FrameworkQueue /\ externalMethod = Nullptr
  /\ overridden = FALSE
  /\ default_queue = Nullptr /\ fixed = FALSE
  /\ queueCount = [q \in Queues |-> IF q = FrameworkQueue THEN 1 ELSE 0]
  /\ ranOn = {}

QueueTrans(from, to) == startAt = from /\ startAt' = to

Add(q, n) == queueCount' = [queueCount EXCEPT ![q] = @ + n]

(* SetDispatchQueue by the class: before the fixup, or too late.           *)
OverrideDefault ==
  /\ startAt \in {"start", "fixed"}
  /\ ~overridden
  /\ \E q \in Queues \ {default} :
       /\ default' = q
       /\ queueCount' = [queueCount EXCEPT ![q] = @ + 1, ![default] = @ - 1]
  /\ overridden' = TRUE
  /\ UNCHANGED <<startAt, externalMethod, fixupVars, ranOn>>

(* A failure, or success with no queue, is reported; otherwise the fixup   *)
(* has a reference.                                                        *)
CopyDispatchQueue ==
  /\ startAt = "start"
  /\ \/ startAt' = "copied" /\ default_queue' = default /\ Add(default, 1)
     \/ startAt' = "fixed" /\ UNCHANGED <<default_queue, queueCount>>
  /\ UNCHANGED <<default, externalMethod, overridden, fixed, ranOn>>

(* Mutated form of SetDispatchQueue: its result is not looked at.          *)
SetDispatchQueueUnasked ==
  /\ QueueTrans("copied", "set")
  /\ \/ externalMethod' = default_queue /\ Add(default_queue, 1)
     \/ UNCHANGED <<externalMethod, queueCount>>
  /\ fixed' = TRUE
  /\ UNCHANGED <<default, overridden, default_queue, ranOn>>

SetDispatchQueue ==
  /\ QueueTrans("copied", "set")
  /\ \/ externalMethod' = default_queue /\ Add(default_queue, 1) /\ fixed' = TRUE
     \/ UNCHANGED <<externalMethod, queueCount, fixed>>
  /\ UNCHANGED <<default, overridden, default_queue, ranOn>>

(* OSSafeReleaseNULL(default_queue)                                        *)
ReleaseQueue ==
  /\ QueueTrans("set", "fixed")
  /\ Add(default_queue, -1)
  /\ default_queue' = Nullptr
  /\ UNCHANGED <<default, externalMethod, overridden, fixed, ranOn>>

(* The start fails with the fixup; otherwise the client is open to calls.  *)
StartReturns ==
  /\ startAt = "fixed"
  /\ startAt' = IF fixed THEN "running" ELSE "failed"
  /\ UNCHANGED <<default, externalMethod, overridden, fixupVars, queueCount, ranOn>>

(* QueueForObject, for a call from user space: a crash without a queue.    *)
ExternalMethodArrives ==
  /\ startAt = "running"
  /\ ranOn' = ranOn \union {externalMethod}
  /\ UNCHANGED <<startAt, default, externalMethod, overridden, fixupVars, queueCount>>

Finalize ==
  /\ startAt \in {"running", "failed"}
  /\ startAt' = "finalized"
  /\ queueCount' = [q \in Queues |->
       queueCount[q] - Cardinality({s \in {"default", "external"} :
         q = IF s = "default" THEN default ELSE externalMethod})]
  /\ default' = Nullptr /\ externalMethod' = Nullptr
  /\ UNCHANGED <<overridden, fixupVars, ranOn>>

QueueNext ==
  \/ OverrideDefault
  \/ CopyDispatchQueue \/ SetDispatchQueue \/ ReleaseQueue
  \/ StartReturns \/ ExternalMethodArrives \/ Finalize

QueueSpec == QueueInit /\ [][QueueNext]_queueVars

-----------------------------------------------------------------------------
(* Every external method of a client whose fixup succeeded has a live      *)
(* queue to run on, the default queue unless that was replaced after the   *)
(* fixup; and a queue has a reference for each of its names and one for    *)
(* the fixup that is using it, so that none outlives the client, whichever *)
(* call of the fixup failed.                                               *)
References(q) ==
  (IF default = q THEN 1 ELSE 0) + (IF externalMethod = q THEN 1 ELSE 0)
    + (IF default_queue = q THEN 1 ELSE 0)

MethodsRunOnDefaultQueue ==
  /\ Nullptr \notin ranOn
  /\ \A q \in Queues : queueCount[q] = References(q)
  /\ startAt = "running" /\ externalMethod # default =>
       overridden /\ externalMethod = FrameworkQueue

-----------------------------------------------------------------------------
(* The inductive invariant: when each of the three references is there, and *)
(* that no override comes between the fixup's copy and its registration.    *)
MaybeQueue == Queues \union {Nullptr}

QueueTypeOK ==
  /\ startAt \in {"start", "copied", "set", "fixed", "running", "failed", "finalized"}
  /\ default \in MaybeQueue /\ externalMethod \in MaybeQueue /\ default_queue \in MaybeQueue
  /\ overridden \in BOOLEAN /\ fixed \in BOOLEAN
  /\ queueCount \in [Queues -> Int]

QueueInv ==
  /\ QueueTypeOK
  /\ MethodsRunOnDefaultQueue
  /\ startAt # "finalized" => default \in Queues
  /\ default_queue = IF startAt \in {"copied", "set"} THEN default ELSE Nullptr
  /\ startAt # "finalized" /\ ~overridden => default = FrameworkQueue
  /\ startAt \in {"start", "copied"} => ~fixed
  /\ startAt # "finalized" => (fixed <=> externalMethod # Nullptr)
  /\ startAt = "running" => fixed
  /\ startAt # "finalized" /\ externalMethod \notin {default, Nullptr} =>
       overridden /\ externalMethod = FrameworkQueue
=============================================================================

-------------------------- MODULE SmallGizmosProofs --------------------------
(***************************************************************************)
(* Proofs about the gizmos that MCSmallGizmos checks, each for its own     *)
(* specification and for every value of its constants.                     *)
(***************************************************************************)
EXTENDS DictionaryUtilities, PropertyReaders, ExternalMethodQueue, RetainTracing,
        MatchingDictionaries, FiniteSetTheorems, TLAPS

-----------------------------------------------------------------------------
(* Retain tracing.                                                         *)

LEMMA HeldFinite == TraceInv => IsFiniteSet(Held) /\ Cardinality(Held) \in Nat
<1> SUFFICES ASSUME TraceInv PROVE IsFiniteSet(Held) /\ Cardinality(Held) \in Nat
  OBVIOUS
<1>1. IsFiniteSet(1..MaxOwned)
  BY TraceAssumption, FS_Interval
<1>2. IsFiniteSet(Threads \X (1..MaxOwned))
  BY <1>1, TraceAssumption, FS_Product
<1>3. Held \in SUBSET (Threads \X (1..MaxOwned))
  BY DEF Held
<1>4. IsFiniteSet(Held)
  BY <1>2, <1>3, FS_Subset
<1> QED
  BY <1>4, FS_CardinalityType

(* A thread with a reference keeps the object; two of them have two.       *)
LEMMA OwnersCount ==
  ASSUME TraceInv, NEW t \in Threads, owned[t] >= 1
  PROVE  /\ retainCount >= 1
         /\ retainCount = 1 =>
              owned[t] = 1 /\ \A u \in Threads : owned[u] >= 1 => u = t
<1>1. /\ owned \in [Threads -> 0..MaxOwned] /\ MaxOwned \in Nat
      /\ retainCount = Cardinality(Held)
  BY TraceAssumption DEF TraceInv
<1>2. <<t, 1>> \in Held
  BY <1>1 DEF Held
<1>3. IsFiniteSet(Held) /\ Cardinality(Held) \in Nat
  BY HeldFinite
<1>4. Cardinality(Held) # 0
  BY <1>2, <1>3, FS_EmptySet
<1>5. ASSUME retainCount = 1
      PROVE  owned[t] = 1 /\ \A u \in Threads : owned[u] >= 1 => u = t
  <2>1. PICK r : Held = {r}
    BY <1>1, <1>3, <1>5, FS_Singleton
  <2>2. ASSUME NEW u \in Threads, owned[u] >= 1 PROVE u = t
    <3>1. <<u, 1>> \in Held
      BY <1>1, <2>2 DEF Held
    <3> QED
      BY <1>2, <2>1, <3>1
  <2>3. ASSUME owned[t] # 1 PROVE FALSE
    <3>1. <<t, 2>> \in Held
      BY <1>1, <2>3 DEF Held
    <3> QED
      BY <1>2, <2>1, <3>1
  <2> QED
    BY <2>2, <2>3
<1> QED
  BY <1>1, <1>3, <1>4, <1>5

LEMMA TraceInitInv == TraceInit => TraceInv
<1> SUFFICES ASSUME TraceInit PROVE TraceInv
  OBVIOUS
<1> USE TraceAssumption DEF TraceInit
<1>1. Held = Threads \X {1}
  BY DEF Held
<1>2. IsFiniteSet({1}) /\ Cardinality({1}) = 1
  BY FS_Singleton
<1>3. Cardinality(Threads \X {1}) = Cardinality(Threads) * 1
  BY <1>2, FS_Product
<1>4. Cardinality(Threads) \in Nat
  BY FS_CardinalityType
<1> QED
  BY <1>1, <1>3, <1>4 DEF TraceInv

(* Entering logs the count, which nobody else can change if it is one.     *)
LEMMA EnterStep ==
  ASSUME TraceInv, NEW t \in Threads, NEW f \in {"taggedRetain", "taggedRelease"},
         EnterTraced(t, f)
  PROVE  TraceInv'
<1>1. Held' = Held /\ UNCHANGED <<retainCount, owned>>
  BY DEF EnterTraced, Held
<1>2. retainCount \in Nat
  BY HeldFinite DEF TraceInv
<1> QED
  BY <1>1, <1>2 DEF TraceInv, EnterTraced, TraceTrans

(* Another thread in a call has a reference of its own, and has logged a   *)
(* count of more than one.                                                 *)
LEMMA OthersLoggedMore ==
  ASSUME TraceInv, NEW t \in Threads, tracePC[t] # "outside",
         NEW u \in Threads, u # t, tracePC[u] # "outside"
  PROVE  logged[u] # 1
<1>1. owned[t] >= 1 /\ owned[u] >= 1
  BY DEF TraceInv
<1>2. retainCount # 1
  BY <1>1, OwnersCount
<1> QED
  BY <1>2 DEF TraceInv

LEMMA CountUpStep ==
  ASSUME TraceInv, NEW t \in Threads, owned[t] < MaxOwned, Count(t, "taggedRetain", 1)
  PROVE  TraceInv'
<1> DEFINE r == <<t, owned[t] + 1>>
<1>0. owned \in [Threads -> 0..MaxOwned] /\ MaxOwned \in Nat
  BY TraceAssumption DEF TraceInv
<1>1. owned' = [owned EXCEPT ![t] = owned[t] + 1] /\ owned' \in [Threads -> 0..MaxOwned]
  BY <1>0 DEF Count
<1>2. Held' = Held \union {r} /\ r \notin Held
  BY <1>0, <1>1 DEF Held
<1>3. Cardinality(Held') = Cardinality(Held) + 1
  BY <1>2, HeldFinite, FS_AddElement
<1>4. \A u \in Threads : tracePC'[u] # "outside" => u # t /\ tracePC[u] # "outside"
  BY DEF Count, TraceTrans, TraceInv
<1>5. \A u \in Threads : tracePC'[u] # "outside" => logged'[u] # 1
  BY <1>4, OthersLoggedMore DEF Count, TraceTrans
<1>6. \A u \in Threads : tracePC'[u] # "outside" => owned'[u] >= 1
  BY <1>0, <1>1, <1>4 DEF TraceInv
<1> QED
  BY <1>1, <1>3, <1>5, <1>6 DEF TraceInv, Count, TraceTrans

LEMMA CountDownStep ==
  ASSUME TraceInv, NEW t \in Threads, Count(t, "taggedRelease", -1)
  PROVE  TraceInv'
<1> DEFINE r == <<t, owned[t]>>
<1>0. /\ owned \in [Threads -> 0..MaxOwned] /\ MaxOwned \in Nat
      /\ owned[t] >= 1
  BY TraceAssumption DEF TraceInv, Count, TraceTrans
<1>1. owned' = [owned EXCEPT ![t] = owned[t] - 1] /\ owned' \in [Threads -> 0..MaxOwned]
  <2>1. owned' = [owned EXCEPT ![t] = owned[t] + (-1)]
    BY DEF Count
  <2>2. owned[t] \in Int /\ owned[t] + (-1) = owned[t] - 1 /\ owned[t] - 1 \in 0..MaxOwned
    BY <1>0
  <2> QED
    BY <1>0, <2>1, <2>2
<1>2. Held' = Held \ {r} /\ r \in Held
  BY <1>0, <1>1 DEF Held
<1>3. Cardinality(Held') = Cardinality(Held) - 1
  BY <1>2, HeldFinite, FS_RemoveElement
<1>4. \A u \in Threads : tracePC'[u] # "outside" => u # t /\ tracePC[u] # "outside"
  BY DEF Count, TraceTrans, TraceInv
<1>5. \A u \in Threads : tracePC'[u] # "outside" => logged'[u] # 1
  BY <1>4, OthersLoggedMore DEF Count, TraceTrans
<1>6. \A u \in Threads : tracePC'[u] # "outside" => owned'[u] >= 1
  BY <1>0, <1>1, <1>4 DEF TraceInv
<1>7. retainCount' = Cardinality(Held')
  BY <1>3, HeldFinite DEF TraceInv, Count
<1> QED
  BY <1>1, <1>5, <1>6, <1>7 DEF TraceInv, Count, TraceTrans

(* The invariant holds whatever the threads do with their references.      *)
THEOREM TraceInvariant == TraceSpec => []TraceInv
<1>1. TraceInv /\ [TraceNext]_traceVars => TraceInv'
  <2> SUFFICES ASSUME TraceInv, [TraceNext]_traceVars PROVE TraceInv'
    OBVIOUS
  <2>1. ASSUME NEW t \in Threads, taggedRetain(t) PROVE TraceInv'
    BY <2>1, EnterStep, CountUpStep DEF taggedRetain
  <2>2. ASSUME NEW t \in Threads, taggedRelease(t) PROVE TraceInv'
    BY <2>2, EnterStep, CountDownStep DEF taggedRelease
  <2>3. CASE UNCHANGED traceVars
    BY <2>3 DEF traceVars, TraceInv, Held
  <2> QED
    BY <2>1, <2>2, <2>3 DEF TraceNext
<1> QED
  BY <1>1, TraceInitInv, PTL DEF TraceSpec

(* A count of one in the log is the count: the release that was logged     *)
(* with it frees the object.                                               *)
THEOREM LastReleaseAlwaysLogged == TraceSpec => []LastReleaseIsLogged
<1>1. TraceInv => LastReleaseIsLogged
  BY OwnersCount DEF TraceInv, LastReleaseIsLogged
<1> QED
  BY <1>1, TraceInvariant, PTL
-----------------------------------------------------------------------------
(* The DriverKit queue.                                                    *)

(* What a finalized client gives back of a queue's references.             *)
LEMMA NamesOfQueue ==
  ASSUME NEW q
  PROVE  Cardinality({s \in {"default", "external"} :
                        q = IF s = "default" THEN default ELSE externalMethod})
           = (IF default = q THEN 1 ELSE 0) + (IF externalMethod = q THEN 1 ELSE 0)
<1> DEFINE N == {s \in {"default", "external"} :
                   q = IF s = "default" THEN default ELSE externalMethod}
<1>1. /\ IsFiniteSet({"default"}) /\ Cardinality({"default"}) = 1
      /\ Cardinality({"external"}) = 1 /\ Cardinality({}) = 0
  BY FS_Singleton, FS_EmptySet
<1>2. Cardinality({"default"} \union {"external"}) = 2
  BY <1>1, FS_AddElement
<1>3. N = {x \in {"default"} : default = q} \union {x \in {"external"} : externalMethod = q}
  OBVIOUS
<1> HIDE DEF N
<1>4. CASE default = q /\ externalMethod = q
  <2>1. N = {"default"} \union {"external"}
    BY <1>3, <1>4
  <2> QED
    BY <1>2, <1>4, <2>1 DEF N
<1>5. CASE default = q /\ externalMethod # q
  <2>1. N = {"default"}
    BY <1>3, <1>5
  <2> QED
    BY <1>1, <1>5, <2>1 DEF N
<1>6. CASE default # q /\ externalMethod = q
  <2>1. N = {"external"}
    BY <1>3, <1>6
  <2> QED
    BY <1>1, <1>6, <2>1 DEF N
<1>7. CASE default # q /\ externalMethod # q
  <2>1. N = {}
    BY <1>3, <1>7
  <2> QED
    BY <1>1, <1>7, <2>1 DEF N
<1> QED
  BY <1>4, <1>5, <1>6, <1>7

LEMMA QueueInitInv == QueueInit => QueueInv
<1> SUFFICES ASSUME QueueInit PROVE QueueInv
  OBVIOUS
<1> USE QueuesAssumption DEF QueueInit
<1>1. QueueTypeOK
  <2>1. queueCount \in [Queues -> Int]
    OBVIOUS
  <2> QED
    BY <2>1 DEF QueueTypeOK, MaybeQueue
<1>2. MethodsRunOnDefaultQueue
  BY DEF MethodsRunOnDefaultQueue, References
<1>3. startAt = "start" /\ default \in Queues /\ ~overridden /\ ~fixed
  OBVIOUS
<1> QED
  BY <1>1, <1>2, <1>3 DEF QueueInv

LEMMA QueueStep == QueueInv /\ [QueueNext]_queueVars => QueueInv'
<1> SUFFICES ASSUME QueueInv, [QueueNext]_queueVars PROVE QueueInv'
  OBVIOUS
<1> USE QueuesAssumption
    DEF QueueInv, QueueTypeOK, MaybeQueue, MethodsRunOnDefaultQueue, References, fixupVars,
        QueueTrans, Add
<1>1. CASE OverrideDefault
  <2>1. PICK q \in Queues \ {default} :
          /\ default' = q
          /\ queueCount' = [queueCount EXCEPT ![q] = @ + 1, ![default] = @ - 1]
    BY <1>1 DEF OverrideDefault
  <2>2. default \in Queues /\ default_queue = Nullptr /\ startAt \in {"start", "fixed"}
    BY <1>1 DEF OverrideDefault
  <2>3. \A p \in Queues : queueCount'[p] = References(p)'
    BY <1>1, <2>1, <2>2 DEF OverrideDefault
  <2>4. queueCount' \in [Queues -> Int]
    BY <2>1, <2>2
  <2> QED
    BY <1>1, <2>1, <2>2, <2>3, <2>4 DEF OverrideDefault
<1>2. CASE CopyDispatchQueue
  BY <1>2 DEF CopyDispatchQueue
<1>3. CASE SetDispatchQueue
  <2>1. default \in Queues /\ default_queue = default /\ externalMethod = Nullptr /\ ~fixed
    BY <1>3 DEF SetDispatchQueue
  <2>2. CASE externalMethod' = default_queue /\ Add(default_queue, 1) /\ fixed' = TRUE
    <3>1. \A p \in Queues : queueCount'[p] = References(p)'
      BY <1>3, <2>1, <2>2 DEF SetDispatchQueue
    <3> QED
      BY <1>3, <2>1, <2>2, <3>1 DEF SetDispatchQueue
  <2>3. CASE UNCHANGED <<externalMethod, queueCount, fixed>>
    BY <1>3, <2>1, <2>3 DEF SetDispatchQueue
  <2> QED
    BY <1>3, <2>2, <2>3 DEF SetDispatchQueue
<1>4. CASE ReleaseQueue
  BY <1>4 DEF ReleaseQueue
<1>5. CASE StartReturns
  BY <1>5 DEF StartReturns
<1>6. CASE ExternalMethodArrives
  BY <1>6 DEF ExternalMethodArrives
<1>7. CASE Finalize
  <2>1. \A q \in Queues : queueCount'[q] = 0
    <3> SUFFICES ASSUME NEW q \in Queues PROVE queueCount'[q] = 0
      OBVIOUS
    <3> DEFINE n == Cardinality({s \in {"default", "external"} :
                                   q = IF s = "default" THEN default ELSE externalMethod})
    <3>1. queueCount'[q] = queueCount[q] - n
      BY <1>7 DEF Finalize
    <3>2. n = (IF default = q THEN 1 ELSE 0) + (IF externalMethod = q THEN 1 ELSE 0)
      BY NamesOfQueue
    <3> HIDE DEF n
    <3>3. queueCount[q] = n
      BY <1>7, <3>2 DEF Finalize
    <3> QED
      BY <3>1, <3>3
  <2>2. queueCount' \in [Queues -> Int]
    <3>1. DOMAIN queueCount' = Queues /\ queueCount' = [q \in Queues |-> queueCount'[q]]
      BY <1>7 DEF Finalize
    <3> QED
      BY <2>1, <3>1
  <2>3. /\ startAt' = "finalized" /\ default' = Nullptr /\ externalMethod' = Nullptr
        /\ UNCHANGED <<overridden, default_queue, fixed, ranOn>>
        /\ default_queue = Nullptr
    BY <1>7 DEF Finalize
  <2> QED
    BY <2>1, <2>2, <2>3
<1>8. CASE UNCHANGED queueVars
  BY <1>8 DEF queueVars
<1> QED
  BY <1>1, <1>2, <1>3, <1>4, <1>5, <1>6, <1>7, <1>8 DEF QueueNext

(* A client whose fixup succeeded has a queue for its external methods,    *)
(* and no queue has a reference too many or too few.                       *)
THEOREM MethodsAlwaysHaveQueue == QueueSpec => []MethodsRunOnDefaultQueue
<1>1. QueueInv => MethodsRunOnDefaultQueue
  BY DEF QueueInv
<1> QED
  BY <1>1, QueueInitInv, QueueStep, PTL DEF QueueSpec
-----------------------------------------------------------------------------
(* The registry property readers.                                          *)

(* A number that an int cannot tell from its remainder is one in range.    *)
LEMMA CutIfLarge ==
  ASSUME NEW a \in Nat, NEW m \in Nat \ {0}, a % m # a
  PROVE  a >= m
<1>1. a % m \in 0..m - 1 /\ a \div m \in Int /\ a = m * (a \div m) + (a % m)
  OBVIOUS
<1> DEFINE q == a \div m
           r == a % m
<1>2. r \in 0..m - 1 /\ q \in Int /\ a = m * q + r /\ r # a
  BY <1>1
<1> HIDE DEF q, r
<1>3. CASE q >= 1
  <2>1. m * q >= m
    BY <1>2, <1>3
  <2> QED
    BY <1>2, <2>1
<1>4. CASE q <= -1
  <2>1. m * q <= -m
    BY <1>2, <1>4
  <2> QED
    BY <1>2, <2>1
<1>5. CASE q = 0
  BY <1>2, <1>5
<1> QED
  BY <1>2, <1>3, <1>4, <1>5

LEMMA PropertyShape ==
  ASSUME NEW p \in Properties
  PROVE  /\ p = [type |-> p.type, value |-> p.value]
         /\ p.type = "number" => p.value \in Nat
<1>1. CASE p \in [type : {"number"}, value : Numbers]
  BY <1>1, NumbersAssumption
<1>2. CASE p \in [type : {"boolean"}, value : {0, 1}]
  BY <1>2
<1>3. CASE p \in {[type |-> t, value |-> 0] : t \in {"string", "none", "no dictionary"}}
  <2>1. PICK t \in {"string", "none", "no dictionary"} : p = [type |-> t, value |-> 0]
    BY <1>3
  <2>2. p.type = t /\ p.value = 0
    BY <2>1
  <2> QED
    BY <2>1, <2>2
<1> QED
  BY <1>1, <1>2, <1>3 DEF Properties

(* What was published while the reader ran is only added to.               *)
LEMMA OutcomeStays ==
  ASSUME Outcome, seen \subseteq seen', UNCHANGED <<reader, out_value, success>>
  PROVE  Outcome'
  BY DEF Outcome, TypeOf, Initial, Truncated

LEMMA ReadInitInv == ReadInit => ReadInv
<1> SUFFICES ASSUME ReadInit PROVE ReadInv
  OBVIOUS
<1>1. Nothing \in Properties
  BY DEF Nothing, Properties
<1> QED
  BY <1>1 DEF ReadInit, ReadInv

LEMMA ReadStep == ReadInv /\ [ReadNext]_readVars => ReadInv'
<1> SUFFICES ASSUME ReadInv, [ReadNext]_readVars PROVE ReadInv'
  OBVIOUS
<1> USE DEF ReadInv, ReadTrans
<1>0. Nothing \in Properties
  BY DEF Nothing, Properties
<1>1. CASE Publish
  <2>1. readAt # "idle" => Outcome'
    BY <1>1, OutcomeStays DEF Publish
  <2>2. UNCHANGED Initial
    BY <1>1 DEF Publish, Initial
  <2> QED
    BY <1>1, <2>1, <2>2 DEF Publish
<1>2. CASE BeginRead
  <2>1. out_value' = Initial' /\ ~success'
    BY <1>2 DEF BeginRead, Initial
  <2> QED
    BY <1>2, <2>1 DEF BeginRead, Outcome
<1>3. CASE CopyProperties
  <2>1. Outcome' /\ UNCHANGED Initial
    BY <1>3, OutcomeStays DEF CopyProperties, Initial
  <2>2. readAt' \in {"reading", "releasing", "returned"}
    BY <1>3 DEF CopyProperties
  <2>3. references' = IF readAt' \in {"reading", "releasing"} THEN 1 ELSE 0
    BY <1>3 DEF CopyProperties
  <2> QED
    BY <1>3, <2>1, <2>2, <2>3 DEF CopyProperties
<1>4. CASE NothingToCopy
  BY <1>4, OutcomeStays DEF NothingToCopy
<1>5. CASE ReadValue
  <2>1. InMemory = {copy}
    BY <1>5 DEF ReadValue, InMemory
  <2>2. /\ copy.type = TypeOf(reader)
        /\ out_value' = Converted(copy.value)
        /\ success' = (out_value' = copy.value)
        /\ copy \in seen
    BY <1>5, <2>1 DEF ReadValue
  <2>3. UNCHANGED <<seen, reader>>
    BY <1>5 DEF ReadValue
  <2>4. ASSUME out_value' = copy.value
        PROVE  [type |-> TypeOf(reader'), value |-> out_value'] \in seen'
    <3>1. copy = [type |-> copy.type, value |-> copy.value]
      BY <1>0, PropertyShape
    <3> QED
      BY <2>2, <2>3, <2>4, <3>1
  <2>5. ASSUME out_value' # copy.value PROVE reader = "int" /\ out_value' \in Truncated'
    <3>1. reader = "int" /\ out_value' = copy.value % IntRange /\ copy.type = "number"
      BY <2>2, <2>5 DEF Converted, TypeOf
    <3>2. copy.value \in Nat
      BY <1>0, <3>1, PropertyShape
    <3>3. copy.value >= IntRange
      BY <2>5, <3>1, <3>2, CutIfLarge, NumbersAssumption
    <3> QED
      BY <2>2, <2>3, <3>1, <3>3 DEF Truncated
  <2>6. Outcome'
    BY <2>2, <2>3, <2>4, <2>5 DEF Outcome
  <2> QED
    BY <1>5, <2>2, <2>6 DEF ReadValue
<1>6. CASE WrongType
  BY <1>6, OutcomeStays DEF WrongType
<1>7. CASE ReleaseCopy
  BY <1>7, OutcomeStays DEF ReleaseCopy
<1>8. CASE ReadReturns
  BY <1>8 DEF ReadReturns
<1>9. CASE UNCHANGED readVars
  BY <1>9 DEF readVars, Outcome, TypeOf, Initial, Truncated
<1> QED
  BY <1>1, <1>2, <1>3, <1>4, <1>5, <1>6, <1>7, <1>8, <1>9 DEF ReadNext

(* A reader's result was published while it ran, and it leaves no          *)
(* reference, whatever the driver publishes in the middle of the call.     *)
THEOREM AlwaysReadsWhatWasPublished == ReadSpec => []ReadsWhatWasPublished
<1>1. ReadInv => ReadsWhatWasPublished
  BY DEF ReadInv, ReadsWhatWasPublished, Outcome
<1> QED
  BY <1>1, ReadInitInv, ReadStep, PTL DEF ReadSpec
-----------------------------------------------------------------------------
(* The dictionary utilities: contents.                                     *)

LEMMA ContentsShape ==
  ASSUME NEW f \in Contents
  PROVE  /\ f = [k \in DOMAIN f |-> f[k]]
         /\ DOMAIN f \in SUBSET Keys
         /\ \A k \in DOMAIN f : f[k] \in Values
<1>1. PICK S \in SUBSET Keys : f \in [S -> Values]
  BY DEF Contents
<1> QED
  BY <1>1

LEMMA ContentsFinite ==
  ASSUME NEW f \in Contents
  PROVE  IsFiniteSet(DOMAIN f) /\ Cardinality(DOMAIN f) \in Nat
<1>1. DOMAIN f \in SUBSET Keys
  BY ContentsShape
<1> QED
  BY <1>1, HeapAssumption, FS_Subset, FS_CardinalityType

LEMMA EmptyContents == Empty \in Contents /\ DOMAIN Empty = {}
<1>1. Empty \in [{} -> Values] /\ {} \in SUBSET Keys
  BY DEF Empty
<1> QED
  BY <1>1 DEF Contents

LEMMA OverlayContents ==
  ASSUME NEW f \in Contents, NEW g \in Contents
  PROVE  Overlay(f, g) \in Contents
<1> DEFINE S == DOMAIN f \union DOMAIN g
<1>1. S \in SUBSET Keys
  BY ContentsShape
<1>2. \A k \in S : (IF k \in DOMAIN f THEN f[k] ELSE g[k]) \in Values
  BY ContentsShape
<1>3. Overlay(f, g) \in [S -> Values]
  BY <1>2 DEF Overlay
<1> QED
  BY <1>1, <1>3 DEF Contents

LEMMA EntryContents ==
  ASSUME NEW k \in Keys, NEW v \in Values
  PROVE  Entry(k, v) \in Contents
<1>1. Entry(k, v) \in [{k} -> Values] /\ {k} \in SUBSET Keys
  BY DEF Entry
<1> QED
  BY <1>1 DEF Contents

-----------------------------------------------------------------------------
(* Occurrences of an object in a dictionary.                               *)

LEMMA OccurrencesFinite ==
  ASSUME NEW f \in Contents, NEW o
  PROVE  IsFiniteSet({k \in DOMAIN f : f[k] = o})
<1>1. {k \in DOMAIN f : f[k] = o} \in SUBSET DOMAIN f
  OBVIOUS
<1> QED
  BY <1>1, ContentsFinite, FS_Subset

LEMMA OccurrencesType ==
  ASSUME NEW f \in Contents, NEW o
  PROVE  Occurrences(o, f) \in Nat
  BY OccurrencesFinite, FS_CardinalityType DEF Occurrences

LEMMA OccurrencesEmpty ==
  ASSUME NEW o
  PROVE  Occurrences(o, Empty) = 0
<1>1. {k \in DOMAIN Empty : Empty[k] = o} = {}
  BY EmptyContents
<1> QED
  BY <1>1, FS_EmptySet DEF Occurrences

(* Setting a key adds the new value and takes away the old one.            *)
LEMMA OccurrencesSet ==
  ASSUME NEW f \in Contents, NEW k \in Keys, NEW v \in Values, NEW o
  PROVE  Occurrences(o, Overlay(Entry(k, v), f))
           = Occurrences(o, f) + (IF o = v THEN 1 ELSE 0)
               - (IF k \in DOMAIN f /\ f[k] = o THEN 1 ELSE 0)
<1> DEFINE A == {x \in DOMAIN f : f[x] = o}
           g == Overlay(Entry(k, v), f)
           B == {x \in DOMAIN g : g[x] = o}
<1>1. /\ IsFiniteSet(A) /\ Cardinality(A) \in Nat
      /\ Occurrences(o, f) = Cardinality(A) /\ Occurrences(o, g) = Cardinality(B)
  BY OccurrencesFinite, FS_CardinalityType DEF Occurrences
<1>2. B = (A \ {k}) \union {x \in {k} : o = v}
  BY DEF Overlay, Entry
<1>3. k \in A <=> k \in DOMAIN f /\ f[k] = o
  OBVIOUS
<1> HIDE DEF A, B, g
<1>4. /\ IsFiniteSet(A \ {k}) /\ k \notin A \ {k}
      /\ Cardinality(A \ {k}) = IF k \in A THEN Cardinality(A) - 1 ELSE Cardinality(A)
  BY <1>1, FS_RemoveElement
<1>5. Cardinality((A \ {k}) \union {k}) = Cardinality(A \ {k}) + 1
  BY <1>4, FS_AddElement
<1>6. Cardinality(B) = Cardinality(A \ {k}) + (IF o = v THEN 1 ELSE 0)
  <2>1. CASE o = v
    <3>1. B = (A \ {k}) \union {k}
      BY <1>2, <2>1
    <3> QED
      BY <1>5, <2>1, <3>1
  <2>2. CASE o # v
    <3>1. B = A \ {k}
      BY <1>2, <2>2
    <3>2. Cardinality(A \ {k}) \in Int
      BY <1>1, <1>4
    <3> QED
      BY <2>2, <3>1, <3>2
  <2> QED
    BY <2>1, <2>2
<1>7. Cardinality(B) = Cardinality(A) + (IF o = v THEN 1 ELSE 0)
                         - (IF k \in A THEN 1 ELSE 0)
  BY <1>1, <1>4, <1>6
<1> QED
  BY <1>1, <1>3, <1>7 DEF g

-----------------------------------------------------------------------------
(* What the calls do to the heap, while no object is in hand or after.     *)

LEMMA BooleansAreNoObjects == \A o \in Objects : o \notin Booleans /\ o # Null
  BY HeapAssumption

(* setObject keeps the counts what they should be, and the types.          *)
LEMMA SetObjectKeepsCounts ==
  ASSUME HeapTypeOK, NEW d \in Dictionaries, NEW k \in Keys, NEW v \in Values,
         SetObject(d, k, v)
  PROVE  /\ HeapTypeOK'
         /\ \A o \in Objects : count'[o] - Holders(o)' = count[o] - Holders(o)
         /\ \A e \in Dictionaries \ {d} : contents'[e] = contents[e] /\ capacity'[e] = capacity[e]
         /\ contents'[d] = Overlay(Entry(k, v), contents[d])
         /\ HasRoom(d, k) => capacity'[d] = capacity[d]
<1> DEFINE old == contents[d]
           new == Overlay(Entry(k, v), old)
<1>0. contents \in [Dictionaries -> Contents] /\ old \in Contents
  BY DEF HeapTypeOK
<1>1. new \in Contents
  BY <1>0, EntryContents, OverlayContents
<1>2. contents' = [contents EXCEPT ![d] = new]
  BY DEF SetObject
<1>3. contents' \in [Dictionaries -> Contents]
  BY <1>0, <1>1, <1>2
<1>4. /\ capacity' \in [Dictionaries -> Nat]
      /\ HasRoom(d, k) => capacity'[d] = capacity[d]
  <2>1. capacity \in [Dictionaries -> Nat] /\ capacity[d] \in Nat
    BY DEF HeapTypeOK
  <2>2. CASE HasRoom(d, k)
    <3>1. capacity' = [capacity EXCEPT ![d] = capacity[d]]
      BY <2>2 DEF SetObject
    <3> QED
      BY <2>1, <3>1
  <2>3. CASE ~HasRoom(d, k)
    <3>1. capacity' = [capacity EXCEPT ![d] = capacity[d] + 1]
      BY <2>3 DEF SetObject
    <3> QED
      BY <2>1, <2>3, <3>1
  <2> QED
    BY <2>2, <2>3
<1>5. /\ count' \in [Objects -> Int]
      /\ \A o \in Objects :
           count'[o] = count[o] + (IF o = v THEN 1 ELSE 0)
                         - (IF k \in DOMAIN old /\ old[k] = o THEN 1 ELSE 0)
  <2>1. count \in [Objects -> Int]
    BY DEF HeapTypeOK
  <2>2. count' = [o \in Objects |->
                    count[o] + (IF o = v THEN 1 ELSE 0)
                      - (IF k \in DOMAIN old /\ old[k] = o THEN 1 ELSE 0)]
    BY DEF SetObject
  <2> HIDE DEF old
  <2> QED
    BY <2>1, <2>2
<1>6. ASSUME NEW o \in Objects PROVE count'[o] - Holders(o)' = count[o] - Holders(o)
  <2> DEFINE plus == IF o = v THEN 1 ELSE 0
             minus == IF k \in DOMAIN old /\ old[k] = o THEN 1 ELSE 0
  <2>1. count'[o] = count[o] + plus - minus /\ count[o] \in Int
    BY <1>5 DEF HeapTypeOK
  <2>2. Occurrences(o, new) = Occurrences(o, old) + plus - minus
    <3> HIDE DEF old
    <3> QED
      BY <1>0, OccurrencesSet
  <2>3. plus \in Int /\ minus \in Int
    OBVIOUS
  <2>4. \A e \in Dictionaries :
          /\ Occurrences(o, contents[e]) \in Int
          /\ Occurrences(o, contents'[e]) =
               Occurrences(o, contents[e]) + IF e = d THEN plus - minus ELSE 0
    <3> SUFFICES ASSUME NEW e \in Dictionaries
                 PROVE  /\ Occurrences(o, contents[e]) \in Int
                        /\ Occurrences(o, contents'[e]) =
                             Occurrences(o, contents[e]) + IF e = d THEN plus - minus ELSE 0
      OBVIOUS
    <3>1. Occurrences(o, contents[e]) \in Int
      <4>1. contents[e] \in Contents
        BY <1>0
      <4> QED
        BY <4>1, OccurrencesType
    <3>2. CASE e = d
      <4>1. contents'[e] = new
        BY <1>0, <1>2, <3>2
      <4> QED
        BY <2>2, <2>3, <3>1, <3>2, <4>1
    <3>3. CASE e # d
      <4>1. contents'[e] = contents[e]
        BY <1>0, <1>2, <3>3
      <4> QED
        BY <3>1, <3>3, <4>1
    <3> QED
      BY <3>1, <3>2, <3>3
  <2>5. d \in {"dictionary", "into", "created"}
    BY DEF Dictionaries
  <2> HIDE DEF plus, minus
  <2>6. Holders(o)' = Holders(o) + (plus - minus)
    <3> DEFINE n(e) == Occurrences(o, contents[e])
               m(e) == Occurrences(o, contents'[e])
    <3>1. /\ Holders(o) = n("dictionary") + n("into") + n("created")
          /\ Holders(o)' = m("dictionary") + m("into") + m("created")
      BY DEF Holders, Occurrences
    <3>2. \A e \in Dictionaries : n(e) \in Int /\ m(e) = n(e) + IF e = d THEN plus - minus ELSE 0
      BY <2>4
    <3> HIDE DEF n, m
    <3> QED
      BY <2>3, <2>5, <3>1, <3>2 DEF Dictionaries
  <2>7. Holders(o) \in Int
    BY <2>4 DEF Holders, Dictionaries
  <2> QED
    BY <2>1, <2>3, <2>6, <2>7
<1>7. \A e \in Dictionaries \ {d} : contents'[e] = contents[e] /\ capacity'[e] = capacity[e]
  BY <1>0, <1>2 DEF SetObject, HeapTypeOK
<1>8. contents'[d] = new
  BY <1>0, <1>2
<1> QED
  BY <1>3, <1>4, <1>5, <1>6, <1>7, <1>8 DEF HeapTypeOK

LEMMA HoldersType ==
  HeapTypeOK => \A o : /\ Holders(o) \in Nat
                       /\ \A d \in Dictionaries : Occurrences(o, contents[d]) \in Nat
<1> SUFFICES ASSUME HeapTypeOK, NEW o
             PROVE  /\ Holders(o) \in Nat
                    /\ \A d \in Dictionaries : Occurrences(o, contents[d]) \in Nat
  OBVIOUS
<1>1. \A d \in Dictionaries : contents[d] \in Contents
  BY DEF HeapTypeOK
<1>2. \A d \in Dictionaries : Occurrences(o, contents[d]) \in Nat
  BY <1>1, OccurrencesType
<1> QED
  BY <1>2 DEF Holders, Dictionaries

(* The copy of a dictionary is one more holder for each of its entries.    *)
LEMMA CreateCopyKeepsCounts ==
  ASSUME HeapTypeOK, contents["created"] = Empty,
         NEW d \in {"dictionary", "into"}, NEW room \in Nat, CreateCopy(d, room)
  PROVE  /\ HeapTypeOK'
         /\ \A o \in Objects : count'[o] - Holders(o)' = count[o] - Holders(o)
         /\ \A e \in {"dictionary", "into"} : contents'[e] = contents[e]
         /\ contents'["created"] = contents[d] /\ capacity'["created"] = room
<1>1. /\ contents' = [contents EXCEPT !["created"] = contents[d]]
      /\ capacity' = [capacity EXCEPT !["created"] = room]
      /\ count' = [o \in Objects |-> count[o] + Occurrences(o, contents[d])]
  BY DEF CreateCopy
<1>2. d \in Dictionaries /\ contents \in [Dictionaries -> Contents]
  BY DEF HeapTypeOK, Dictionaries
<1>3. \A o \in Objects : count'[o] \in Int
  <2> SUFFICES ASSUME NEW o \in Objects PROVE count'[o] \in Int
    OBVIOUS
  <2>1. Occurrences(o, contents[d]) \in Nat
    BY <1>2, HoldersType
  <2> QED
    BY <1>1, <2>1 DEF HeapTypeOK
<1>4. HeapTypeOK'
  <2>1. count' \in [Objects -> Int]
    BY <1>1, <1>3
  <2> QED
    BY <1>1, <1>2, <2>1 DEF HeapTypeOK
<1>5. /\ \A e \in {"dictionary", "into"} : contents'[e] = contents[e]
      /\ contents'["created"] = contents[d] /\ capacity'["created"] = room
  BY <1>1 DEF HeapTypeOK, Dictionaries
<1>6. ASSUME NEW o \in Objects PROVE count'[o] - Holders(o)' = count[o] - Holders(o)
  <2>1. Holders(o) = Occurrences(o, contents["dictionary"]) + Occurrences(o, contents["into"]) + 0
    BY OccurrencesEmpty DEF Holders
  <2>2. Holders(o)' = Occurrences(o, contents'["dictionary"]) + Occurrences(o, contents'["into"])
                        + Occurrences(o, contents'["created"])
    BY DEF Holders, Occurrences
  <2>3. Holders(o)' = Holders(o) + Occurrences(o, contents[d])
    BY <1>2, <1>5, <2>1, <2>2, HoldersType DEF Dictionaries
  <2>4. count'[o] = count[o] + Occurrences(o, contents[d]) /\ count[o] \in Int
    BY <1>1 DEF HeapTypeOK
  <2> QED
    BY <1>2, <2>3, <2>4, HoldersType
<1> QED
  BY <1>4, <1>5, <1>6

LEMMA CallerReleasesKeepsCounts ==
  ASSUME HeapTypeOK, CallerReleases
  PROVE  /\ HeapTypeOK'
         /\ \A o \in Objects : count'[o] - Holders(o)' = count[o] - Holders(o)
         /\ contents'["created"] = Empty
<1>1. /\ contents' = [contents EXCEPT !["created"] = Empty]
      /\ capacity' = [capacity EXCEPT !["created"] = 0]
      /\ count' = [o \in Objects |-> count[o] - Occurrences(o, contents["created"])]
  BY DEF CallerReleases
<1>2. contents \in [Dictionaries -> Contents]
  BY DEF HeapTypeOK
<1>3. \A o \in Objects : count'[o] \in Int
  <2> SUFFICES ASSUME NEW o \in Objects PROVE count'[o] \in Int
    OBVIOUS
  <2>1. Occurrences(o, contents["created"]) \in Nat
    BY HoldersType DEF Dictionaries
  <2> QED
    BY <1>1, <2>1 DEF HeapTypeOK
<1>4. HeapTypeOK'
  <2>1. count' \in [Objects -> Int]
    BY <1>1, <1>3
  <2> QED
    BY <1>1, <1>2, <2>1, EmptyContents DEF HeapTypeOK
<1>5. /\ \A e \in {"dictionary", "into"} : contents'[e] = contents[e]
      /\ contents'["created"] = Empty
  BY <1>1, <1>2 DEF Dictionaries
<1>6. ASSUME NEW o \in Objects PROVE count'[o] - Holders(o)' = count[o] - Holders(o)
  <2> DEFINE c == Occurrences(o, contents["created"])
  <2>1. Holders(o) = Occurrences(o, contents["dictionary"]) + Occurrences(o, contents["into"]) + c
    BY DEF Holders
  <2>2. Holders(o)' = Occurrences(o, contents'["dictionary"]) + Occurrences(o, contents'["into"])
                        + Occurrences(o, contents'["created"])
    BY DEF Holders, Occurrences
  <2>3. c \in Nat /\ Holders(o) \in Nat
        /\ Occurrences(o, contents["dictionary"]) \in Nat
        /\ Occurrences(o, contents["into"]) \in Nat
    BY HoldersType DEF Dictionaries
  <2>4. count'[o] = count[o] - c /\ count[o] \in Int
    BY <1>1 DEF HeapTypeOK
  <2> HIDE DEF c
  <2>5. Holders(o)' = Holders(o) - c
    BY <1>5, <2>1, <2>2, <2>3, OccurrencesEmpty
  <2> QED
    BY <2>3, <2>4, <2>5
<1> QED
  BY <1>4, <1>5, <1>6

(* The caller goes on with its other dictionary.                           *)
LEMMA ExchangeKeepsCounts ==
  ASSUME HeapTypeOK, SetterReturns
  PROVE  /\ HeapTypeOK'
         /\ \A o \in Objects : count'[o] - Holders(o)' = count[o] - Holders(o)
         /\ contents'["created"] = contents["created"]
<1>1. CASE UNCHANGED <<contents, capacity>>
  BY <1>1 DEF SetterReturns, HeapTypeOK, Holders, Occurrences
<1>2. CASE contents' = Exchange(contents) /\ capacity' = Exchange(capacity)
  <2>1. /\ contents'["dictionary"] = contents["into"]
        /\ contents'["into"] = contents["dictionary"]
        /\ contents'["created"] = contents["created"]
    BY <1>2 DEF HeapTypeOK, Exchange, Dictionaries
  <2>2. HeapTypeOK'
    <3>1. contents' \in [Dictionaries -> Contents] /\ capacity' \in [Dictionaries -> Nat]
      BY <1>2 DEF HeapTypeOK, Exchange, Dictionaries
    <3> QED
      BY <3>1 DEF HeapTypeOK, SetterReturns
  <2>3. ASSUME NEW o \in Objects PROVE Holders(o)' = Holders(o)
    <3>1. Holders(o)' = Occurrences(o, contents'["dictionary"]) + Occurrences(o, contents'["into"])
                          + Occurrences(o, contents'["created"])
      BY DEF Holders, Occurrences
    <3>2. Holders(o) = Occurrences(o, contents["dictionary"]) + Occurrences(o, contents["into"])
                          + Occurrences(o, contents["created"])
      BY DEF Holders
    <3> QED
      BY <2>1, <3>1, <3>2, HoldersType DEF Dictionaries
  <2> QED
    BY <2>1, <2>2, <2>3 DEF SetterReturns
<1> QED
  BY <1>1, <1>2 DEF SetterReturns

-----------------------------------------------------------------------------
(* Every step preserves each part of the invariant.                        *)

LEMMA DictInitInv == DictInit => DictInv
<1> SUFFICES ASSUME DictInit PROVE DictInv
  OBVIOUS
<1>1. HeapTypeOK
  BY EmptyContents DEF DictInit, HeapTypeOK
<1>2. DictTypeOK
  <2>1. /\ dictAt = "idle" /\ key = Null /\ obj = Null /\ ok \in BOOLEAN
        /\ remaining = {} /\ bytes_remain = 0 /\ buffer_remain = 0
    BY DEF DictInit
  <2> QED
    BY <1>1, <2>1 DEF DictTypeOK
<1>3. CountsAreHolders
  BY OccurrencesEmpty DEF DictInit, CountsAreHolders, Holders, Dictionaries
<1>4. InHand
  BY DEF DictInit, InHand, Dictionaries
<1> QED
  BY <1>2, <1>3, <1>4
     DEF DictInit, DictInv, MergeGoesOn, MergedAllOrNothing, LastLineHasRoom, LastLineFits

(* A count follows the holders while no object is in hand.                 *)
LEMMA CountsFollow ==
  ASSUME HeapTypeOK, HeapTypeOK', CountsAreHolders,
         \A o \in Objects : count'[o] - Holders(o)' = count[o] - Holders(o),
         \/ dictAt \notin {"setting", "releasing"} /\ dictAt' \notin {"setting", "releasing"}
         \/ dictAt = "setting" /\ dictAt' = "releasing" /\ obj' = obj
  PROVE  CountsAreHolders'
<1>0. (HeapTypeOK => \A o : /\ Holders(o) \in Nat
                            /\ \A d \in Dictionaries : Occurrences(o, contents[d]) \in Nat)'
  BY HoldersType, PTL
<1> SUFFICES ASSUME NEW o \in Objects
             PROVE  count'[o] = Holders(o)' + (IF obj' = o /\ dictAt' \in {"setting", "releasing"}
                                               THEN 1 ELSE 0)
  BY DEF CountsAreHolders
<1>1. Holders(o) \in Nat /\ count[o] \in Int /\ count'[o] \in Int
  BY HoldersType DEF HeapTypeOK
<1>2. Holders(o)' \in Nat
  BY <1>0
<1>3. count[o] = Holders(o) + (IF obj = o /\ dictAt \in {"setting", "releasing"} THEN 1 ELSE 0)
  BY DEF CountsAreHolders
<1> QED
  BY <1>1, <1>2, <1>3

LEMMA HeapUnchanged ==
  ASSUME HeapTypeOK, UNCHANGED heap
  PROVE  /\ HeapTypeOK' /\ \A o \in Objects : count'[o] - Holders(o)' = count[o] - Holders(o)
         /\ UNCHANGED <<contents, capacity>>
  BY DEF heap, HeapTypeOK, Holders, Occurrences

(* The steps that leave the dictionaries alone.                            *)
Elsewhere ==
  \/ Merge \/ MergeReturns \/ LogContents \/ LogEntry \/ LogRow \/ BeginLastLine \/ LogByte
  \/ LogEnd \/ LogNextEntry \/ LogReturns

LEMMA CountsStep ==
  DictInv /\ [DictNext]_dictVars => HeapTypeOK' /\ CountsAreHolders'
<1> SUFFICES ASSUME DictInv, [DictNext]_dictVars PROVE HeapTypeOK' /\ CountsAreHolders'
  OBVIOUS
<1> USE DEF DictTrans
<1>0. HeapTypeOK /\ CountsAreHolders /\ DictTypeOK /\ InHand
  BY DEF DictInv, DictTypeOK
<1>1. CASE CreateValue
  <2>1. dictAt = "idle" /\ dictAt' = "setting" /\ UNCHANGED <<contents, capacity>>
    BY <1>1 DEF CreateValue
  <2>2. \A o \in Objects : Holders(o)' = Holders(o) /\ Holders(o) \in Nat /\ count[o] = Holders(o) + 0
    BY <1>0, <2>1, HoldersType DEF Holders, Occurrences, CountsAreHolders
  <2>3. ASSUME NEW o \in Objects, count[o] = 0, obj' = o, count' = [count EXCEPT ![o] = 1]
        PROVE  HeapTypeOK' /\ CountsAreHolders'
    <3>1. HeapTypeOK'
      BY <1>0, <2>1, <2>3 DEF HeapTypeOK
    <3>2. \A p \in Objects : count'[p] = IF p = o THEN 1 ELSE count[p]
      BY <1>0, <2>3 DEF HeapTypeOK
    <3> QED
      BY <2>1, <2>2, <2>3, <3>1, <3>2 DEF CountsAreHolders
  <2>4. ASSUME obj' = Null, UNCHANGED count PROVE HeapTypeOK' /\ CountsAreHolders'
    BY <1>0, <2>1, <2>2, <2>4, BooleansAreNoObjects DEF HeapTypeOK, CountsAreHolders
  <2> QED
    BY <1>1, <2>3, <2>4 DEF CreateValue
<1>2. CASE SetValue
  <2>1. dictAt = "setting" /\ dictAt' = "releasing" /\ UNCHANGED obj /\ key \in Keys
    BY <1>0, <1>2 DEF SetValue, InHand
  <2>2. CASE obj # Null /\ SetObject("dictionary", key, obj)
    <3>1. obj \in Values /\ "dictionary" \in Dictionaries
      BY <1>0, <2>1, <2>2 DEF InHand, Values, Dictionaries
    <3> QED
      BY <1>0, <2>1, <2>2, <3>1, SetObjectKeepsCounts, CountsFollow
  <2>3. CASE UNCHANGED heap
    BY <1>0, <2>1, <2>3, HeapUnchanged, CountsFollow
  <2> QED
    BY <1>2, <2>2, <2>3 DEF SetValue, SetterFails
<1>3. CASE ReleaseValue
  <2>1. /\ dictAt = "releasing" /\ dictAt' = "set" /\ UNCHANGED <<contents, capacity, obj>>
        /\ count' = [o \in Objects |-> IF o = obj THEN count[o] - 1 ELSE count[o]]
    BY <1>3 DEF ReleaseValue, setterVars
  <2>2. HeapTypeOK'
    BY <1>0, <2>1 DEF HeapTypeOK
  <2>3. ASSUME NEW o \in Objects PROVE count'[o] = Holders(o)'
    <3>1. Holders(o)' = Holders(o) /\ Holders(o) \in Nat
      BY <1>0, <2>1, HoldersType DEF Holders, Occurrences
    <3>2. count[o] = Holders(o) + IF obj = o THEN 1 ELSE 0
      BY <1>0, <2>1 DEF CountsAreHolders
    <3> QED
      BY <2>1, <3>1, <3>2
  <2>4. \A o \in Objects : Holders(o)' \in Int
    BY <2>2, <2>3 DEF HeapTypeOK
  <2> QED
    BY <2>1, <2>2, <2>3, <2>4 DEF CountsAreHolders
<1>4. CASE SetBoolean
  <2>1. PICK value \in Booleans :
          /\ key' \in Keys
          /\ SetObject("dictionary", key', value) \/ SetterFails
    BY <1>4 DEF SetBoolean
  <2>2. dictAt = "idle" /\ dictAt' = "set"
    BY <1>4 DEF SetBoolean
  <2>3. CASE SetObject("dictionary", key', value)
    <3>1. value \in Values /\ "dictionary" \in Dictionaries
      BY DEF Values, Dictionaries
    <3> DEFINE k == key'
    <3>2. k \in Keys /\ SetObject("dictionary", k, value)
      BY <2>1, <2>3
    <3> HIDE DEF k
    <3> QED
      BY <1>0, <2>2, <3>1, <3>2, SetObjectKeepsCounts, CountsFollow
  <2>4. CASE SetterFails
    BY <1>0, <2>2, <2>4, HeapUnchanged, CountsFollow DEF SetterFails
  <2> QED
    BY <2>1, <2>3, <2>4
<1>5. CASE SetterReturns
  BY <1>0, <1>5, ExchangeKeepsCounts, CountsFollow DEF SetterReturns
<1>6. CASE CopyOne
  <2>1. dictAt = "idle" /\ dictAt' \in {"copied", "noMemory"} /\ contents["created"] = Empty
    BY <1>0, <1>6 DEF CopyOne, InHand
  <2>2. ASSUME NEW d \in {"dictionary", "into"}, CreateCopy(d, getCount(d))
        PROVE  HeapTypeOK' /\ CountsAreHolders'
    <3>1. getCount(d) \in Nat
      BY <1>0, ContentsFinite DEF getCount, HeapTypeOK, Dictionaries
    <3> QED
      BY <1>0, <2>1, <2>2, <3>1, CreateCopyKeepsCounts, CountsFollow
  <2>3. CASE UNCHANGED heap
    BY <1>0, <2>1, <2>3, HeapUnchanged, CountsFollow
  <2> QED
    BY <1>6, <2>2, <2>3 DEF CopyOne
<1>7. CASE CopyInto
  <2>1. dictAt = "idle" /\ dictAt' \in {"copiedInto", "fault"} /\ contents["created"] = Empty
    BY <1>0, <1>7 DEF CopyInto, InHand
  <2>2. CASE CreateCopy("into", MergedCapacity)
    <3>1. MergedCapacity \in Nat
      BY <1>0, ContentsFinite DEF MergedCapacity, getCount, HeapTypeOK, Dictionaries
    <3> QED
      BY <1>0, <2>1, <2>2, <3>1, CreateCopyKeepsCounts, CountsFollow
  <2>3. CASE UNCHANGED heap
    BY <1>0, <2>1, <2>3, HeapUnchanged, CountsFollow
  <2> QED
    BY <1>7, <2>2, <2>3 DEF CopyInto
<1>8. CASE MergeKey
  <2>1. dictAt = "merging" /\ dictAt' = "merging"
    BY <1>8 DEF MergeKey
  <2>2. ASSUME NEW k \in remaining, SetObject("created", k, contents["dictionary"][k])
        PROVE  HeapTypeOK' /\ CountsAreHolders'
    <3>1. k \in DOMAIN contents["dictionary"]
      BY <2>1 DEF DictInv, MergeGoesOn
    <3>2. contents["dictionary"] \in Contents /\ "created" \in Dictionaries
      BY <1>0 DEF HeapTypeOK, Dictionaries
    <3>3. k \in Keys /\ contents["dictionary"][k] \in Values
      BY <3>1, <3>2, ContentsShape
    <3> QED
      BY <1>0, <2>1, <2>2, <3>2, <3>3, SetObjectKeepsCounts, CountsFollow
  <2>3. CASE UNCHANGED heap
    BY <1>0, <2>1, <2>3, HeapUnchanged, CountsFollow
  <2> QED
    BY <1>8, <2>2, <2>3 DEF MergeKey
<1>9. CASE CallerReleases
  BY <1>0, <1>9, CallerReleasesKeepsCounts, CountsFollow DEF CallerReleases
<1>10. CASE Elsewhere
  <2>1. /\ UNCHANGED heap
        /\ dictAt \notin {"setting", "releasing"} /\ dictAt' \notin {"setting", "releasing"}
    BY <1>10 DEF Elsewhere, Merge, MergeReturns, LogContents, LogEntry, LogRow, BeginLastLine,
         LogByte, LogEnd, LogNextEntry, LogReturns
  <2> QED
    BY <1>0, <2>1, HeapUnchanged, CountsFollow
<1>11. CASE UNCHANGED dictVars
  BY <1>0, <1>11 DEF dictVars, heap, setterVars, HeapTypeOK, CountsAreHolders, Holders, Occurrences
<1> QED
  BY <1>1, <1>2, <1>3, <1>4, <1>5, <1>6, <1>7, <1>8, <1>9, <1>10, <1>11 DEF DictNext, Elsewhere

LEMMA DictTypeStep ==
  DictInv /\ HeapTypeOK' /\ [DictNext]_dictVars => DictTypeOK' /\ InHand'
<1> SUFFICES ASSUME DictInv, HeapTypeOK', [DictNext]_dictVars PROVE DictTypeOK' /\ InHand'
  OBVIOUS
<1> USE DEF DictTrans, DictTypeOK, InHand, heap, setterVars, logVars
<1>0. DictTypeOK /\ InHand /\ HeapTypeOK
  BY DEF DictInv
<1>1. CASE CreateValue
  <2>1. /\ dictAt = "idle" /\ dictAt' = "setting" /\ key' \in Keys /\ obj' \in Objects \union {Null}
        /\ UNCHANGED <<contents, ok, remaining, logVars>>
    BY <1>1 DEF CreateValue
  <2> QED
    BY <1>0, <2>1 DEF Values
<1>2. CASE SetValue
  <2>1. /\ dictAt = "setting" /\ dictAt' = "releasing" /\ UNCHANGED <<key, obj, remaining, logVars>>
        /\ ok' \in BOOLEAN /\ contents'["created"] = contents["created"]
    <3>1. CASE obj # Null /\ SetObject("dictionary", key, obj) /\ ok' = TRUE
      <4>1. contents'["created"] = contents["created"]
        BY <1>0, <3>1 DEF SetObject, HeapTypeOK, Dictionaries
      <4> QED
        BY <1>2, <3>1, <4>1 DEF SetValue
    <3>2. CASE SetterFails
      BY <1>2, <3>2 DEF SetValue, SetterFails, heap
    <3> QED
      BY <1>2, <3>1, <3>2 DEF SetValue
  <2> QED
    BY <1>0, <2>1
<1>3. CASE ReleaseValue
  BY <1>0, <1>3 DEF ReleaseValue
<1>4. CASE SetBoolean
  <2>1. /\ dictAt = "idle" /\ dictAt' = "set" /\ key' \in Keys /\ obj' \in Booleans
        /\ UNCHANGED <<remaining, logVars>>
    BY <1>4 DEF SetBoolean
  <2>2. ok' \in BOOLEAN /\ contents'["created"] = contents["created"]
    <3>1. CASE \E value \in Booleans : SetObject("dictionary", key', value) /\ ok' = TRUE
      BY <1>0, <3>1 DEF SetObject, HeapTypeOK, Dictionaries
    <3>2. CASE SetterFails
      BY <3>2 DEF SetterFails, heap
    <3> QED
      BY <1>4, <3>1, <3>2 DEF SetBoolean
  <2> QED
    BY <1>0, <2>1, <2>2 DEF Values
<1>5. CASE SetterReturns
  <2>1. contents'["created"] = contents["created"]
    BY <1>0, <1>5, ExchangeKeepsCounts
  <2>2. dictAt = "set" /\ dictAt' = "idle" /\ key' = Null /\ obj' = Null /\ ok' \in BOOLEAN
        /\ UNCHANGED <<remaining, logVars>>
    BY <1>5 DEF SetterReturns
  <2> QED
    BY <1>0, <2>1, <2>2
<1>6. CASE CopyOne \/ CopyInto
  <2>1. dictAt = "idle" /\ UNCHANGED <<key, obj, ok, remaining, bytes_remain, buffer_remain>>
    BY <1>6 DEF CopyOne, CopyInto
  <2>2. \/ dictAt' \in {"copied", "copiedInto"}
        \/ dictAt' \in {"noMemory", "fault"} /\ UNCHANGED contents
    BY <1>6 DEF CopyOne, CopyInto, heap
  <2>3. dictAt' \notin {"copied", "copiedInto"} => contents'["created"] = Empty
    BY <1>0, <2>1, <2>2
  <2> QED
    BY <1>0, <2>1, <2>2, <2>3
<1>8. CASE MergeKey
  BY <1>0, <1>8 DEF MergeKey
<1>9. CASE CallerReleases
  <2>1. contents'["created"] = Empty
    BY <1>0, <1>9, CallerReleasesKeepsCounts
  <2> QED
    BY <1>0, <1>9, <2>1 DEF CallerReleases
<1>10. CASE Merge \/ MergeReturns \/ LogContents
  <2>1. UNCHANGED <<contents, setterVars, logVars>>
    BY <1>10 DEF Merge, MergeReturns, LogContents, heap
  <2>2. \A d \in Dictionaries : DOMAIN contents[d] \subseteq Keys
    BY <1>0, ContentsShape DEF HeapTypeOK
  <2>3. remaining' \subseteq Keys
    BY <1>0, <1>10, <2>2 DEF Merge, MergeReturns, LogContents, Dictionaries
  <2> QED
    BY <1>0, <1>10, <2>1, <2>3 DEF Merge, MergeReturns, LogContents
<1>11. CASE LogEntry
  <2>1. dictAt = "logging" /\ UNCHANGED <<contents, key, obj, ok, buffer_remain>>
    BY <1>11 DEF LogEntry, heap
  <2>2. dictAt' \in {"logging", "rows"} /\ bytes_remain' \in Nat
    BY <1>0, <1>11, HeapAssumption DEF LogEntry
  <2>3. remaining' \subseteq Keys
    BY <1>0, <1>11 DEF LogEntry
  <2> QED
    BY <1>0, <2>1, <2>2, <2>3
<1>12. CASE LogRow \/ BeginLastLine \/ LogByte \/ LogEnd \/ LogNextEntry \/ LogReturns
  <2>1. UNCHANGED <<contents, key, obj, ok, remaining>>
    BY <1>12 DEF LogRow, BeginLastLine, LogByte, LogEnd, LogNextEntry, LogReturns, heap
  <2>2. /\ dictAt \in {"rows", "lastLine", "logged", "logging"}
        /\ dictAt' \in {"rows", "lastLine", "logged", "logging", "idle"}
    BY <1>12 DEF LogRow, BeginLastLine, LogByte, LogEnd, LogNextEntry, LogReturns
  <2>3. bytes_remain' \in Nat /\ buffer_remain' \in Int
    BY <1>0, <1>12 DEF LogRow, FullRow, BeginLastLine, LogByte, LogEnd, LogNextEntry, LogReturns
  <2> QED
    BY <1>0, <2>1, <2>2, <2>3
<1>13. CASE UNCHANGED dictVars
  BY <1>0, <1>13 DEF dictVars, heap
<1> QED
  BY <1>1, <1>2, <1>3, <1>4, <1>5, <1>6, <1>8, <1>9, <1>10, <1>11, <1>12, <1>13 DEF DictNext

LEMMA LastLineStep ==
  DictInv /\ [DictNext]_dictVars => LastLineHasRoom' /\ LastLineFits'
<1> SUFFICES ASSUME DictInv, [DictNext]_dictVars PROVE LastLineHasRoom' /\ LastLineFits'
  OBVIOUS
<1> USE DEF DictTrans, LastLineHasRoom, LastLineFits, heap, setterVars, logVars
<1>0. LastLineHasRoom /\ LastLineFits /\ bytes_remain \in Nat /\ buffer_remain \in Int
  BY DEF DictInv, DictTypeOK
<1>1. CASE BeginLastLine
  BY <1>0, <1>1 DEF BeginLastLine, FullRow
<1>2. CASE LogByte
  BY <1>0, <1>2 DEF LogByte
<1>3. CASE LogEnd
  BY <1>0, <1>3 DEF LogEnd
<1>4. CASE dictAt' \notin {"lastLine", "logged"}
  BY <1>4
<1>5. CASE UNCHANGED dictVars
  BY <1>0, <1>5 DEF dictVars, logVars
<1>6. CASE \/ CreateValue \/ SetValue \/ ReleaseValue \/ SetBoolean \/ SetterReturns
           \/ CopyOne \/ CopyInto \/ Merge \/ MergeKey \/ MergeReturns \/ CallerReleases
           \/ LogContents \/ LogEntry \/ LogRow \/ LogNextEntry \/ LogReturns
  <2>1. dictAt' \notin {"lastLine", "logged"}
    BY <1>6 DEF CreateValue, SetValue, ReleaseValue, SetBoolean, SetterReturns, CopyOne, CopyInto,
         Merge, MergeKey, MergeReturns, CallerReleases, LogContents, LogEntry, LogRow,
         LogNextEntry, LogReturns
  <2> QED
    BY <1>4, <2>1
<1> QED
  BY <1>1, <1>2, <1>3, <1>5, <1>6 DEF DictNext

-----------------------------------------------------------------------------
(* The merge.  Part(f, S) is what has been copied of f.                    *)
Part(f, S) == [k \in S |-> f[k]]

LEMMA OverlayNothing ==
  ASSUME NEW f, NEW g \in Contents
  PROVE  Overlay(Part(f, {}), g) = g
<1>1. g = [x \in DOMAIN g |-> g[x]]
  BY ContentsShape
<1>2. Overlay(Part(f, {}), g) = [x \in DOMAIN g |-> g[x]]
  BY DEF Overlay, Part
<1> QED
  BY <1>1, <1>2

LEMMA OverlayEverything ==
  ASSUME NEW f \in Contents, NEW g
  PROVE  Overlay(Part(f, DOMAIN f), g) = Overlay(f, g)
<1>1. Part(f, DOMAIN f) = f
  BY ContentsShape DEF Part
<1> QED
  BY <1>1

(* One key more.                                                           *)
LEMMA OverlayOneMore ==
  ASSUME NEW f, NEW g, NEW S, NEW k
  PROVE  Overlay(Entry(k, f[k]), Overlay(Part(f, S), g)) = Overlay(Part(f, S \union {k}), g)
<1> DEFINE h == Overlay(Part(f, S), g)
           l == Overlay(Entry(k, f[k]), h)
           r == Overlay(Part(f, S \union {k}), g)
           N == S \union {k} \union DOMAIN g
<1>1. l = [x \in {k} \union DOMAIN h |-> IF x \in {k} THEN f[k] ELSE h[x]]
  BY DEF Overlay, Entry
<1>2. r = [x \in N |-> IF x \in S \union {k} THEN f[x] ELSE g[x]]
  BY DEF Overlay, Part
<1>3. /\ DOMAIN h = S \union DOMAIN g
      /\ \A x \in S \union DOMAIN g : h[x] = IF x \in S THEN f[x] ELSE g[x]
  BY DEF Overlay, Part
<1> HIDE DEF h, l, r
<1>4. \A x \in N : l[x] = r[x]
  <2> SUFFICES ASSUME NEW x \in N PROVE l[x] = r[x]
    OBVIOUS
  <2>1. x \in {k} \union DOMAIN h
    BY <1>3
  <2>2. l[x] = IF x \in {k} THEN f[k] ELSE h[x]
    BY <1>1, <2>1
  <2>3. r[x] = IF x \in S \union {k} THEN f[x] ELSE g[x]
    BY <1>2
  <2> HIDE DEF N
  <2>4. CASE x = k
    BY <2>2, <2>3, <2>4
  <2>5. CASE x # k
    BY <1>3, <2>1, <2>2, <2>3, <2>5
  <2> QED
    BY <2>4, <2>5
<1>5. l = [x \in N |-> l[x]] /\ r = [x \in N |-> r[x]]
  <2>1. {k} \union DOMAIN h = N
    BY <1>3
  <2> QED
    BY <1>1, <1>2, <2>1
<1>6. l = r
  BY <1>4, <1>5
<1> QED
  BY <1>6 DEF l, r, h

(* There is room for every key of the two dictionaries.                    *)
LEMMA RoomForAll ==
  ASSUME HeapTypeOK, MergeGoesOn, dictAt = "merging", NEW k \in remaining
  PROVE  HasRoom("created", k)
<1> DEFINE D == DOMAIN contents["dictionary"]
           I == DOMAIN contents["into"]
           C == DOMAIN contents["created"]
<1>1. SUFFICES ASSUME k \notin C PROVE Cardinality(C) < capacity["created"]
  BY DEF HasRoom
<1>2. /\ remaining \subseteq D
      /\ contents["created"] = Overlay(Copied(D \ remaining), contents["into"])
      /\ capacity["created"] >= Cardinality(I) + Cardinality(D)
  BY DEF MergeGoesOn, MergedCapacity, getCount
<1>3. C = (D \ remaining) \union I
  BY <1>2 DEF Overlay, Copied
<1>4. /\ IsFiniteSet(D) /\ Cardinality(D) \in Nat
      /\ IsFiniteSet(I) /\ Cardinality(I) \in Nat
  <2>1. contents["dictionary"] \in Contents /\ contents["into"] \in Contents
    BY DEF HeapTypeOK, Dictionaries
  <2> QED
    BY <2>1, ContentsFinite
<1>5. capacity["created"] \in Nat
  BY DEF HeapTypeOK, Dictionaries
<1> HIDE DEF D, I, C
<1>6. /\ IsFiniteSet(I \union D)
      /\ Cardinality(I \union D) = Cardinality(I) + Cardinality(D) - Cardinality(I \cap D)
  BY <1>4, FS_Union
<1>7. IsFiniteSet(I \cap D) /\ Cardinality(I \cap D) \in Nat
  <2>1. I \cap D \in SUBSET D
    OBVIOUS
  <2> QED
    BY <1>4, <2>1, FS_Subset, FS_CardinalityType
<1>8. C \in SUBSET (I \union D) /\ k \in I \union D
  BY <1>2, <1>3
<1>9. /\ Cardinality(C) <= Cardinality(I \union D) /\ Cardinality(C) # Cardinality(I \union D)
      /\ Cardinality(C) \in Nat /\ Cardinality(I \union D) \in Nat
  <2>1. IsFiniteSet(C)
    BY <1>6, <1>8, FS_Subset
  <2> QED
    BY <1>1, <1>6, <1>8, <2>1, FS_Subset, FS_CardinalityType
<1> QED
  BY <1>2, <1>4, <1>5, <1>6, <1>7, <1>9

LEMMA MergeStep ==
  DictInv /\ [DictNext]_dictVars => MergeGoesOn' /\ MergedAllOrNothing'
<1> SUFFICES ASSUME DictInv, [DictNext]_dictVars PROVE MergeGoesOn' /\ MergedAllOrNothing'
  OBVIOUS
<1> DEFINE D == contents["dictionary"]
           I == contents["into"]
<1>0. HeapTypeOK /\ MergeGoesOn /\ MergedAllOrNothing /\ InHand
  BY DEF DictInv, DictTypeOK
<1>a. D \in Contents /\ I \in Contents /\ capacity["created"] \in Nat
  BY <1>0 DEF HeapTypeOK, Dictionaries
<1>1. CASE CopyInto
  <2>1. CASE CreateCopy("into", MergedCapacity) /\ dictAt' = "copiedInto"
    <3>1. contents["created"] = Empty
      BY <1>0, <1>1 DEF CopyInto, InHand
    <3>2. MergedCapacity \in Nat
      BY <1>a, ContentsFinite DEF MergedCapacity, getCount
    <3>3. /\ \A e \in {"dictionary", "into"} : contents'[e] = contents[e]
          /\ contents'["created"] = I /\ capacity'["created"] = MergedCapacity
      BY <1>0, <2>1, <3>1, <3>2, CreateCopyKeepsCounts
    <3> QED
      BY <2>1, <3>2, <3>3 DEF MergeGoesOn, MergedAllOrNothing, MergedCapacity, getCount
  <2>2. CASE dictAt' = "fault"
    BY <2>2 DEF MergeGoesOn, MergedAllOrNothing
  <2> QED
    BY <1>1, <2>1, <2>2 DEF CopyInto
<1>2. CASE Merge
  <2>1. dictAt = "copiedInto" /\ UNCHANGED <<contents, capacity>>
    BY <1>2 DEF Merge, heap
  <2>2. contents["created"] = I /\ capacity["created"] >= MergedCapacity
    BY <1>0, <2>1 DEF MergeGoesOn
  <2>3. CASE dictAt' = "merging" /\ remaining' = DOMAIN D
    <3>1. Part(D, {}) = [k \in DOMAIN D \ DOMAIN D |-> D[k]]
      BY DEF Part
    <3>2. Overlay([k \in DOMAIN D \ DOMAIN D |-> D[k]], I) = I
      BY <1>a, <3>1, OverlayNothing
    <3> QED
      BY <2>1, <2>2, <2>3, <3>2
         DEF MergeGoesOn, MergedAllOrNothing, MergedCapacity, getCount, Copied
  <2>4. CASE dictAt' = "merged"
    BY <2>1, <2>2, <2>4 DEF MergeGoesOn, MergedAllOrNothing
  <2> QED
    BY <1>2, <2>3, <2>4 DEF Merge
<1>3. CASE MergeKey
  <2>1. dictAt = "merging" /\ dictAt' = "merging"
    BY <1>3 DEF MergeKey
  <2>2. /\ remaining \subseteq DOMAIN D
        /\ contents["created"] = Overlay(Part(D, DOMAIN D \ remaining), I)
        /\ capacity["created"] >= MergedCapacity
    BY <1>0, <2>1 DEF MergeGoesOn, Copied, Part
  <2>3. PICK k \in remaining :
          SetObject("created", k, D[k]) /\ remaining' = remaining \ {k}
    BY <1>0, <1>3, <2>1, RoomForAll DEF MergeKey
  <2>4. k \in DOMAIN D /\ k \in Keys /\ D[k] \in Values /\ HasRoom("created", k)
    BY <1>0, <1>a, <2>1, <2>2, ContentsShape, RoomForAll
  <2>5. /\ \A e \in Dictionaries \ {"created"} :
             contents'[e] = contents[e] /\ capacity'[e] = capacity[e]
        /\ contents'["created"] = Overlay(Entry(k, D[k]), contents["created"])
        /\ capacity'["created"] = capacity["created"]
    <3>1. "created" \in Dictionaries
      BY DEF Dictionaries
    <3> HIDE DEF D
    <3> QED
      BY <1>0, <2>3, <2>4, <3>1, SetObjectKeepsCounts
  <2>6. contents'["dictionary"] = D /\ contents'["into"] = I
    BY <2>5 DEF Dictionaries
  <2>7. contents'["created"] = Overlay(Part(D, (DOMAIN D \ remaining) \union {k}), I)
    BY <2>2, <2>5, OverlayOneMore
  <2>8. (DOMAIN D \ remaining) \union {k} = DOMAIN D \ remaining'
    BY <2>2, <2>3, <2>4
  <2>9. remaining' \subseteq DOMAIN D
    BY <2>2, <2>3
  <2>10. contents'["created"] = Overlay([x \in DOMAIN D \ remaining' |-> D[x]], I)
    BY <2>7, <2>8 DEF Part
  <2>11. MergedCapacity' = MergedCapacity
    BY <2>6 DEF MergedCapacity, getCount
  <2> HIDE DEF D, I
  <2> QED
    BY <2>1, <2>2, <2>5, <2>6, <2>9, <2>10, <2>11 DEF MergeGoesOn, MergedAllOrNothing, Copied
<1>4. CASE MergeReturns
  <2>1. /\ dictAt = "merging" /\ dictAt' = "merged" /\ remaining = {}
        /\ UNCHANGED <<contents, capacity, remaining>>
    BY <1>4 DEF MergeReturns, DictTrans, heap
  <2>2. contents["created"] = Overlay(Part(D, DOMAIN D), I)
    BY <1>0, <2>1 DEF MergeGoesOn, Copied, Part
  <2>3. contents["created"] = Overlay(D, I)
    BY <1>a, <2>2, OverlayEverything
  <2> QED
    BY <2>1, <2>3 DEF MergeGoesOn, MergedAllOrNothing
<1>5. CASE UNCHANGED dictVars
  <2>1. UNCHANGED <<contents, capacity, dictAt, remaining>>
    BY <1>5 DEF dictVars, heap
  <2> QED
    BY <1>0, <2>1 DEF MergeGoesOn, MergedAllOrNothing, MergedCapacity, getCount, Copied
<1>6. CASE \/ CreateValue \/ SetValue \/ ReleaseValue \/ SetBoolean \/ SetterReturns
           \/ CopyOne \/ CallerReleases \/ LogContents \/ LogEntry \/ LogRow \/ BeginLastLine
           \/ LogByte \/ LogEnd \/ LogNextEntry \/ LogReturns
  <2>1. dictAt' \notin {"copiedInto", "merging", "merged"}
    BY <1>6 DEF DictTrans, CreateValue, SetValue, ReleaseValue, SetBoolean, SetterReturns, CopyOne,
         CallerReleases, LogContents, LogEntry, LogRow, BeginLastLine, LogByte, LogEnd,
         LogNextEntry, LogReturns
  <2> QED
    BY <2>1 DEF MergeGoesOn, MergedAllOrNothing
<1> QED
  BY <1>1, <1>2, <1>3, <1>4, <1>5, <1>6 DEF DictNext

(* DictInv is an inductive invariant of the setters, the merge and the     *)
(* logger, whichever allocations fail.                                     *)
THEOREM DictInvariant == DictSpec => []DictInv
<1>1. DictInv /\ [DictNext]_dictVars => DictInv'
  BY CountsStep, DictTypeStep, LastLineStep, MergeStep DEF DictInv
<1> QED
  BY <1>1, DictInitInv, PTL DEF DictSpec

(* The retain count of an object is always the number of the dictionary    *)
(* entries that hold it, and one for the setter that is using it.          *)
THEOREM CountsAreAlwaysHolders == DictSpec => []CountsAreHolders
<1>1. DictInv => CountsAreHolders
  BY DEF DictInv
<1> QED
  BY <1>1, DictInvariant, PTL

(* A merge that returns has copied every key, or it has not begun.         *)
THEOREM AlwaysMergedAllOrNothing == DictSpec => []MergedAllOrNothing
<1>1. DictInv => MergedAllOrNothing
  BY DEF DictInv
<1> QED
  BY <1>1, DictInvariant, PTL

(* The buffer always holds what is left of a logged value.                 *)
THEOREM LastLineAlwaysFits == DictSpec => []LastLineFits
<1>1. DictInv => LastLineFits
  BY DEF DictInv
<1> QED
  BY <1>1, DictInvariant, PTL

-----------------------------------------------------------------------------
(* Matching dictionaries.                                                  *)

(* The dictionary d has the entries of f, and those of g for other keys.   *)
Merges(d, f, g) ==
  /\ DOMAIN d = DOMAIN f \union DOMAIN g
  /\ \A k \in DOMAIN f : d[k] = f[k]
  /\ \A k \in DOMAIN g : k \notin DOMAIN f => d[k] = g[k]

LEMMA OverlayMerges == ASSUME NEW f, NEW g PROVE Merges(Overlay(f, g), f, g)
BY DEF Overlay, Merges

LEMMA ClassEntry ==
  ASSUME NEW class
  PROVE  /\ DOMAIN IOServiceMatching(class) = {"IOProviderClass"}
         /\ IOServiceMatching(class)["IOProviderClass"] = class
BY DEF IOServiceMatching, Entry

(* What the three common fields make of a dictionary with a class.         *)
Identified(dict, a) ==
  /\ dict["IOProviderClass"] = usb_interface_classname(a.modern_iousbhost_classnames)
  /\ dict["idVendor"] = a.vendor_id
  /\ dict["bInterfaceNumber"] = a.interface_number
  /\ dict["bConfigurationValue"] = a.configuration_value

LEMMA CommonFields ==
  ASSUME NEW a
  PROVE  /\ DOMAIN dictionary_set_vid_iface_config(Interface(a), a) = VendorPattern
         /\ Identified(dictionary_set_vid_iface_config(Interface(a), a), a)
<1> DEFINE f == Interface(a)
           g == [idVendor |-> a.vendor_id,
                 bInterfaceNumber |-> a.interface_number,
                 bConfigurationValue |-> a.configuration_value]
<1>1. /\ DOMAIN f = {"IOProviderClass"}
      /\ f["IOProviderClass"] = usb_interface_classname(a.modern_iousbhost_classnames)
  BY ClassEntry DEF Interface
<1>2. /\ DOMAIN g = {"idVendor", "bInterfaceNumber", "bConfigurationValue"}
      /\ g["idVendor"] = a.vendor_id
      /\ g["bInterfaceNumber"] = a.interface_number
      /\ g["bConfigurationValue"] = a.configuration_value
  OBVIOUS
<1>3. dictionary_set_vid_iface_config(f, a) = Overlay(f, g)
  BY DEF dictionary_set_vid_iface_config
<1> HIDE DEF f, g
<1>4. Merges(Overlay(f, g), f, g)
  BY OverlayMerges
<1>5. DOMAIN Overlay(f, g) = VendorPattern
  BY <1>1, <1>2, <1>4 DEF Merges, VendorPattern
<1>6. Identified(Overlay(f, g), a)
  BY <1>1, <1>2, <1>4 DEF Merges, Identified
<1> QED
  BY <1>3, <1>5, <1>6 DEF f

(* The common fields survive what is merged in after them.                 *)
LEMMA IdentifiedKept ==
  ASSUME NEW d, NEW f, NEW g, NEW a, Merges(d, f, g), VendorPattern \subseteq DOMAIN f,
         Identified(f, a)
  PROVE  Identified(d, a)
<1>1. \A x \in VendorPattern : d[x] = f[x]
  BY DEF Merges
<1> QED
  BY <1>1 DEF Identified, VendorPattern

LEMMA ProductDictionary ==
  ASSUME NEW a
  PROVE  /\ DOMAIN VIDPIDMatch(a) = VendorPattern \union {"idProduct"}
         /\ Identified(VIDPIDMatch(a), a) /\ VIDPIDMatch(a)["idProduct"] = a.product_id
<1> DEFINE f == dictionary_set_vid_iface_config(Interface(a), a)
           g == [idProduct |-> a.product_id]
<1>1. DOMAIN f = VendorPattern /\ Identified(f, a)
  BY CommonFields
<1>2. DOMAIN g = {"idProduct"} /\ g["idProduct"] = a.product_id
  OBVIOUS
<1>3. "idProduct" \notin VendorPattern
  BY DEF VendorPattern
<1>4. VIDPIDMatch(a) = Overlay(f, g)
  BY DEF VIDPIDMatch
<1> HIDE DEF f, g
<1>5. Merges(VIDPIDMatch(a), f, g)
  BY <1>4, OverlayMerges
<1>6. DOMAIN VIDPIDMatch(a) = VendorPattern \union {"idProduct"}
  BY <1>1, <1>2, <1>5 DEF Merges
<1>7. Identified(VIDPIDMatch(a), a)
  BY <1>1, <1>5, IdentifiedKept
<1>8. VIDPIDMatch(a)["idProduct"] = a.product_id
  BY <1>1, <1>2, <1>3, <1>5 DEF Merges
<1> QED
  BY <1>6, <1>7, <1>8

LEMMA ProductsDictionary ==
  ASSUME NEW a
  PROVE  /\ DOMAIN VIDPIDsMatch(a) = VendorPattern \union {"idProductArray"}
         /\ Identified(VIDPIDsMatch(a), a) /\ VIDPIDsMatch(a)["idProductArray"] = a.product_ids
<1> DEFINE f == dictionary_set_vid_iface_config(Interface(a), a)
           g == [idProductArray |-> a.product_ids]
<1>1. DOMAIN f = VendorPattern /\ Identified(f, a)
  BY CommonFields
<1>2. DOMAIN g = {"idProductArray"} /\ g["idProductArray"] = a.product_ids
  OBVIOUS
<1>3. "idProductArray" \notin VendorPattern
  BY DEF VendorPattern
<1>4. VIDPIDsMatch(a) = Overlay(f, g)
  BY DEF VIDPIDsMatch
<1> HIDE DEF f, g
<1>5. Merges(VIDPIDsMatch(a), f, g)
  BY <1>4, OverlayMerges
<1>6. DOMAIN VIDPIDsMatch(a) = VendorPattern \union {"idProductArray"}
  BY <1>1, <1>2, <1>5 DEF Merges
<1>7. Identified(VIDPIDsMatch(a), a)
  BY <1>1, <1>5, IdentifiedKept
<1>8. VIDPIDsMatch(a)["idProductArray"] = a.product_ids
  BY <1>1, <1>2, <1>3, <1>5 DEF Merges
<1> QED
  BY <1>6, <1>7, <1>8

(* A release that fits into a byte is put in as it is.                     *)
LEMMA RevisionKept ==
  ASSUME NEW a \in Arguments, a.revision_bcd_device < ByteRange
  PROVE  /\ DOMAIN Revision(a) = {"bcdDevice"}
         /\ Revision(a)["bcdDevice"] = a.revision_bcd_device
<1>1. a.revision_bcd_device \in Nat
  BY WordsAssumption DEF Arguments
<1>2. a.revision_bcd_device % ByteRange = a.revision_bcd_device
  BY <1>1, WordsAssumption
<1> QED
  BY <1>2 DEF Revision

LEMMA RevisionDictionary ==
  ASSUME NEW a \in Arguments, a.revision_bcd_device < ByteRange, NEW f, NEW product,
         product \in {"idProduct", "idProductArray"},
         DOMAIN f = VendorPattern \union {product}, Identified(f, a)
  PROVE  /\ DOMAIN Overlay(f, Revision(a)) = VendorPattern \union {product} \union {"bcdDevice"}
         /\ Identified(Overlay(f, Revision(a)), a)
         /\ Overlay(f, Revision(a))[product] = f[product]
         /\ Overlay(f, Revision(a))["bcdDevice"] = a.revision_bcd_device
<1> DEFINE d == Overlay(f, Revision(a))
           g == Revision(a)
           K == VendorPattern \union {product}
<1>1. "bcdDevice" \notin K /\ DOMAIN f = K /\ VendorPattern \subseteq K /\ product \in K
  BY DEF VendorPattern
<1>2. Merges(d, f, g)
  BY OverlayMerges
<1>3. DOMAIN g = {"bcdDevice"} /\ g["bcdDevice"] = a.revision_bcd_device
  BY RevisionKept
<1> HIDE DEF d, g, K
<1>4. Identified(d, a)
  BY <1>1, <1>2, IdentifiedKept
<1>5. /\ DOMAIN d = K \union {"bcdDevice"}
      /\ d[product] = f[product] /\ d["bcdDevice"] = g["bcdDevice"]
  BY <1>1, <1>2, <1>3 DEF Merges
<1> QED
  BY <1>3, <1>4, <1>5 DEF d, K

-----------------------------------------------------------------------------
(* What a dictionary with these keys matches.                              *)

LEMMA MatchesVendor ==
  ASSUME NEW service, NEW product \in {"idProduct", "idProductArray"},
         NEW revision \in {{}, {"bcdDevice"}}, NEW a, Identified(match, a),
         DOMAIN match = VendorPattern \union {product} \union revision
  PROVE  Matches(service) <=>
           /\ IsUSBInterface(service, a)
           /\ service.bInterfaceNumber = a.interface_number
           /\ service.bConfigurationValue = a.configuration_value
           /\ Agrees(service, product)
           /\ revision # {} => service.bcdDevice = match["bcdDevice"]
<1>1. DOMAIN match \in Patterns
  BY DEF Patterns
<1>2. Matches(service) <=> \A field \in VendorPattern \union {product} \union revision : Agrees(service, field)
  BY <1>1 DEF Matches, Agrees, VendorPattern
<1>3. (\A field \in VendorPattern : Agrees(service, field)) <=>
        /\ IsUSBInterface(service, a)
        /\ service.bInterfaceNumber = a.interface_number
        /\ service.bConfigurationValue = a.configuration_value
  BY DEF VendorPattern, Agrees, Identified, IsUSBInterface
<1>4. (\A field \in revision : Agrees(service, field)) <=>
        (revision # {} => service.bcdDevice = match["bcdDevice"])
  BY DEF Agrees
<1> QED
  BY <1>2, <1>3, <1>4

LEMMA MatchesProduct ==
  ASSUME MatchInv, asked.function \in {"VIDPID", "VIDPIDRevision"},
         asked.arguments.revision_bcd_device < ByteRange, NEW service
  PROVE  Matches(service) <=> Describes(asked.function, asked.arguments, service)
<1> DEFINE a == asked.arguments
<1>1. a \in Arguments /\ match = DictionaryOf(asked.function, a)
  BY DEF MatchInv
<1>2. /\ DOMAIN VIDPIDMatch(a) = VendorPattern \union {"idProduct"}
      /\ Identified(VIDPIDMatch(a), a) /\ VIDPIDMatch(a)["idProduct"] = a.product_id
  BY ProductDictionary
<1>3. CASE asked.function = "VIDPID"
  <2>1. match = VIDPIDMatch(a)
    BY <1>1, <1>3 DEF DictionaryOf
  <2>2. Matches(service) <=>
           /\ IsUSBInterface(service, a)
           /\ service.bInterfaceNumber = a.interface_number
           /\ service.bConfigurationValue = a.configuration_value
           /\ Agrees(service, "idProduct")
    BY <1>2, <2>1, MatchesVendor
  <2>3. Agrees(service, "idProduct") <=> service.idProduct \in {a.product_id}
    BY <1>2, <2>1 DEF Agrees
  <2> QED
    BY <1>3, <2>2, <2>3 DEF Describes
<1>4. CASE asked.function = "VIDPIDRevision"
  <2>1. match = Overlay(VIDPIDMatch(a), Revision(a))
    BY <1>1, <1>4 DEF DictionaryOf, VIDPIDRevisionMatch
  <2>2. /\ DOMAIN match = VendorPattern \union {"idProduct"} \union {"bcdDevice"}
        /\ Identified(match, a) /\ match["idProduct"] = a.product_id
        /\ match["bcdDevice"] = a.revision_bcd_device
    BY <1>1, <1>2, <2>1, RevisionDictionary
  <2>3. Matches(service) <=>
           /\ IsUSBInterface(service, a)
           /\ service.bInterfaceNumber = a.interface_number
           /\ service.bConfigurationValue = a.configuration_value
           /\ Agrees(service, "idProduct")
           /\ service.bcdDevice = match["bcdDevice"]
    BY <2>2, MatchesVendor
  <2>4. Agrees(service, "idProduct") <=> service.idProduct \in {a.product_id}
    BY <2>2 DEF Agrees
  <2> QED
    BY <1>4, <2>2, <2>3, <2>4 DEF Describes
<1> QED
  BY <1>3, <1>4

LEMMA MatchesProducts ==
  ASSUME MatchInv, asked.function \in {"VIDPIDs", "VIDPIDsRevision"},
         asked.arguments.revision_bcd_device < ByteRange, NEW service
  PROVE  Matches(service) <=> Describes(asked.function, asked.arguments, service)
<1> DEFINE a == asked.arguments
<1>1. a \in Arguments /\ match = DictionaryOf(asked.function, a)
  BY DEF MatchInv
<1>2. /\ DOMAIN VIDPIDsMatch(a) = VendorPattern \union {"idProductArray"}
      /\ Identified(VIDPIDsMatch(a), a) /\ VIDPIDsMatch(a)["idProductArray"] = a.product_ids
  BY ProductsDictionary
<1>3. CASE asked.function = "VIDPIDs"
  <2>1. match = VIDPIDsMatch(a)
    BY <1>1, <1>3 DEF DictionaryOf
  <2>2. Matches(service) <=>
           /\ IsUSBInterface(service, a)
           /\ service.bInterfaceNumber = a.interface_number
           /\ service.bConfigurationValue = a.configuration_value
           /\ Agrees(service, "idProductArray")
    BY <1>2, <2>1, MatchesVendor
  <2>3. Agrees(service, "idProductArray") <=> service.idProduct \in a.product_ids
    BY <1>2, <2>1 DEF Agrees
  <2> QED
    BY <1>3, <2>2, <2>3 DEF Describes
<1>4. CASE asked.function = "VIDPIDsRevision"
  <2>1. match = Overlay(VIDPIDsMatch(a), Revision(a))
    BY <1>1, <1>4 DEF DictionaryOf, VIDPIDsRevisionMatch
  <2>2. /\ DOMAIN match = VendorPattern \union {"idProductArray"} \union {"bcdDevice"}
        /\ Identified(match, a) /\ match["idProductArray"] = a.product_ids
        /\ match["bcdDevice"] = a.revision_bcd_device
    BY <1>1, <1>2, <2>1, RevisionDictionary
  <2>3. Matches(service) <=>
           /\ IsUSBInterface(service, a)
           /\ service.bInterfaceNumber = a.interface_number
           /\ service.bConfigurationValue = a.configuration_value
           /\ Agrees(service, "idProductArray")
           /\ service.bcdDevice = match["bcdDevice"]
    BY <2>2, MatchesVendor
  <2>4. Agrees(service, "idProductArray") <=> service.idProduct \in a.product_ids
    BY <2>2 DEF Agrees
  <2> QED
    BY <1>4, <2>2, <2>3, <2>4 DEF Describes
<1> QED
  BY <1>3, <1>4

LEMMA MatchesSubclass ==
  ASSUME MatchInv, asked.function = "SubclassProtocol", NEW service
  PROVE  Matches(service) <=> Describes(asked.function, asked.arguments, service)
<1> DEFINE a == asked.arguments
           f == Interface(a)
           g == [idVendor |-> a.vendor_id,
                 bInterfaceSubClass |-> a.interface_subclass,
                 bInterfaceProtocol |-> a.interface_protocol]
<1>1. match = Overlay(f, g)
  BY DEF MatchInv, DictionaryOf, VIDVendorSpecificSubclassProtocolMatch
<1>2. /\ DOMAIN f = {"IOProviderClass"}
      /\ f["IOProviderClass"] = usb_interface_classname(a.modern_iousbhost_classnames)
  BY ClassEntry DEF Interface
<1>3. /\ DOMAIN g = {"idVendor", "bInterfaceSubClass", "bInterfaceProtocol"}
      /\ g["idVendor"] = a.vendor_id
      /\ g["bInterfaceSubClass"] = a.interface_subclass
      /\ g["bInterfaceProtocol"] = a.interface_protocol
  OBVIOUS
<1> HIDE DEF f, g
<1>m. Merges(match, f, g)
  BY <1>1, OverlayMerges
<1>4. /\ DOMAIN match = {"IOProviderClass", "idVendor", "bInterfaceSubClass", "bInterfaceProtocol"}
      /\ match["IOProviderClass"] = usb_interface_classname(a.modern_iousbhost_classnames)
      /\ match["idVendor"] = a.vendor_id
      /\ match["bInterfaceSubClass"] = a.interface_subclass
      /\ match["bInterfaceProtocol"] = a.interface_protocol
  BY <1>2, <1>3, <1>m DEF Merges
<1>5. DOMAIN match \in Patterns
  BY <1>4 DEF Patterns
<1>6. Matches(service) <=>
        /\ IsUSBInterface(service, a)
        /\ service.bInterfaceSubClass = a.interface_subclass
        /\ service.bInterfaceProtocol = a.interface_protocol
  BY <1>4, <1>5 DEF Matches, Agrees, IsUSBInterface
<1> QED
  BY <1>6 DEF Describes

LEMMA MatchesUserService ==
  ASSUME MatchInv, asked.function = "user_service", NEW service
  PROVE  Matches(service) <=> Describes(asked.function, asked.arguments, service)
<1> DEFINE a == asked.arguments
           f == IOServiceMatching("IOUserService")
           g == [IOUserClass |-> a.driverkit_classname,
                 CFBundleIdentifier |-> a.driverkit_server_bundle_id]
<1>1. match = Overlay(f, g)
  BY DEF MatchInv, DictionaryOf, djt_user_service_matching
<1>2. DOMAIN f = {"IOProviderClass"} /\ f["IOProviderClass"] = "IOUserService"
  BY ClassEntry
<1>3. /\ DOMAIN g = {"IOUserClass", "CFBundleIdentifier"}
      /\ g["IOUserClass"] = a.driverkit_classname
      /\ g["CFBundleIdentifier"] = a.driverkit_server_bundle_id
  OBVIOUS
<1> HIDE DEF f, g
<1>m. Merges(match, f, g)
  BY <1>1, OverlayMerges
<1>4. /\ DOMAIN match = {"IOProviderClass", "IOUserClass", "CFBundleIdentifier"}
      /\ match["IOProviderClass"] = "IOUserService"
      /\ match["IOUserClass"] = a.driverkit_classname
      /\ match["CFBundleIdentifier"] = a.driverkit_server_bundle_id
  BY <1>2, <1>3, <1>m DEF Merges
<1>5. Matches(service) <=>
        /\ service.IOProviderClass = "IOUserService"
        /\ service.IOUserClass = a.driverkit_classname
        /\ service.CFBundleIdentifier = a.driverkit_server_bundle_id
  BY <1>4 DEF Matches, Agrees
<1> QED
  BY <1>5 DEF Describes

LEMMA MatchStep == MatchInv /\ [MatchNext]_matchVars => MatchInv'
<1> SUFFICES ASSUME MatchInv, [MatchNext]_matchVars PROVE MatchInv'
  OBVIOUS
<1> USE DEF MatchInv, MatchFunctions
<1>1. CASE CreateVIDPID
  BY <1>1 DEF CreateVIDPID, Create, DictionaryOf
<1>2. CASE CreateVIDPIDRevision
  BY <1>2 DEF CreateVIDPIDRevision, Create, DictionaryOf
<1>3. CASE CreateVIDPIDs
  BY <1>3 DEF CreateVIDPIDs, Create, DictionaryOf
<1>4. CASE CreateVIDPIDsRevision
  BY <1>4 DEF CreateVIDPIDsRevision, Create, DictionaryOf
<1>5. CASE CreateSubclassProtocol
  BY <1>5 DEF CreateSubclassProtocol, Create, DictionaryOf
<1>6. CASE CreateUserService
  BY <1>6 DEF CreateUserService, Create, DictionaryOf
<1>7. CASE UNCHANGED matchVars
  BY <1>7 DEF matchVars
<1> QED
  BY <1>1, <1>2, <1>3, <1>4, <1>5, <1>6, <1>7 DEF MatchNext

(* A dictionary matches the services its caller described and no others,   *)
(* whatever the services and the arguments, if the release fits in a byte. *)
THEOREM DictionariesAlwaysMatch == MatchSpec => []MatchesWhatIsDescribed
<1>1. MatchInit => MatchInv
  BY DEF MatchInit, MatchInv
<1>2. MatchInv => MatchesWhatIsDescribed
  <2> SUFFICES ASSUME MatchInv, asked.function # "none",
                      asked.arguments.revision_bcd_device < ByteRange, NEW service \in Services
               PROVE  Matches(service) <=> Describes(asked.function, asked.arguments, service)
    BY DEF MatchesWhatIsDescribed
  <2> QED
    BY MatchesProduct, MatchesProducts, MatchesSubclass, MatchesUserService
       DEF MatchInv, MatchFunctions
<1> QED
  BY <1>1, <1>2, MatchStep, PTL DEF MatchSpec
=============================================================================

-------------------------- MODULE PCIDeviceProofs ---------------------------
(***************************************************************************)
(* Proofs about what the helpers find out about a PCI device: the          *)
(* interrupt scan for any number of interrupt sources in any order, the    *)
(* capability walk and the base address types for any set of devices and a *)
(* removal at any point.                                                   *)
(***************************************************************************)
EXTENDS PCIConfiguration, PCIInterruptRanges, FiniteSetTheorems, TLAPS

(***************************************************************************)
(* PCIInterruptRanges                                                      *)
(***************************************************************************)
LEMMA InitInv == Init => IInv
<1> SUFFICES ASSUME Init PROVE IInv
  OBVIOUS
<1>1. PICK n \in Counts : kinds \in [0..n - 1 -> Kinds]
  BY DEF Init
<1>2. n \in Nat
  BY CountsAssumption
<1>3. TypeOK
  <2>1. \E m \in Counts : kinds \in [0..m - 1 -> Kinds] /\ intr_index \in 0..m
    BY <1>1, <1>2 DEF Init
  <2> QED
    BY <2>1 DEF Init, TypeOK
<1>4. NoneSeen
  BY DEF Init, NoneSeen
<1> QED
  BY <1>3, <1>4 DEF IInv

LEMMA TypeStep == TypeOK /\ [Next]_vars => TypeOK'
<1> SUFFICES ASSUME TypeOK, [Next]_vars PROVE TypeOK'
  OBVIOUS
<1>0. PICK n \in Counts : kinds \in [0..n - 1 -> Kinds] /\ intr_index \in 0..n
  BY DEF TypeOK
<1>n. n \in Nat
  BY CountsAssumption
<1>1. ASSUME NEW kind \in Kinds, Found(kind)
      PROVE  /\ intr_index \in DOMAIN kinds /\ intr_index \in Nat
             /\ \E m \in Counts : kinds' \in [0..m - 1 -> Kinds] /\ intr_index' \in 0..m
             /\ UNCHANGED <<kinds, returned>>
  BY <1>0, <1>n, <1>1 DEF Found
<1>2. CASE UnexpectedMSI
  BY <1>1, <1>2 DEF UnexpectedMSI, TypeOK, ranges, flags, Kinds
<1>3. CASE StartMSI
  BY <1>1, <1>3 DEF StartMSI, TypeOK, Kinds
<1>4. CASE ExtendMSI
  BY <1>1, <1>4 DEF ExtendMSI, TypeOK, flags, Kinds
<1>5. CASE UnexpectedPin
  BY <1>1, <1>5 DEF UnexpectedPin, TypeOK, ranges, flags, Kinds
<1>6. CASE StartPin
  BY <1>1, <1>6 DEF StartPin, TypeOK, Kinds
<1>7. CASE ExtendPin
  BY <1>1, <1>7 DEF ExtendPin, TypeOK, flags, Kinds
<1>8. CASE Return
  <2>1. UNCHANGED <<kinds, intr_index, ranges, flags, warned>> /\ returned' \in BOOLEAN
    BY <1>8 DEF Return
  <2> QED
    BY <2>1 DEF TypeOK, ranges, flags
<1>9. CASE UNCHANGED vars
  BY <1>9 DEF vars, TypeOK, ranges, flags
<1> QED
  BY <1>2, <1>3, <1>4, <1>5, <1>6, <1>7, <1>8, <1>9 DEF Next

(* Each step keeps the scan in its phase or moves it to a later one.       *)
LEMMA PhaseStep == IInv /\ [Next]_vars => IInv'
<1> SUFFICES ASSUME IInv, [Next]_vars PROVE IInv'
  OBVIOUS
<1>t. TypeOK /\ TypeOK'
  BY TypeStep DEF IInv
<1>0. PICK n \in Counts : kinds \in [0..n - 1 -> Kinds] /\ intr_index \in 0..n
  BY <1>t DEF TypeOK
<1>n. n \in Nat
  BY CountsAssumption
<1>i. /\ irq_pin_start \in Int /\ irq_pin_end \in Int
      /\ msi_start \in Int /\ msi_end \in Int
  BY <1>t DEF TypeOK
<1> USE <1>0, <1>n, <1>i DEF Found, ranges, flags
<1>1. CASE UnexpectedMSI
  <2>1. MSIThenPin
    BY <1>1 DEF UnexpectedMSI, IInv, NoneSeen, OnlyPin, OnlyMSI, PinThenMSI, MSIThenPin
  <2>2. MSIThenPin'
    <3>1. irq_pin_start \in Nat /\ irq_pin_start <= intr_index /\ intr_index' = intr_index + 1
      BY <2>1, <1>1 DEF UnexpectedMSI, MSIThenPin, BothKinds
    <3>2. irq_pin_start..intr_index' - 1 = (irq_pin_start..intr_index - 1) \union {intr_index}
      BY <3>1
    <3>3. UNCHANGED <<kinds, irq_pin_start, irq_pin_end, msi_start, msi_end, pin, msi>>
          /\ kinds[intr_index] = "msi" /\ warned' = warned \union {intr_index}
      BY <1>1 DEF UnexpectedMSI
    <3>4. warned' = {k \in irq_pin_start..intr_index' - 1 : kinds'[k] # "pin"}
      BY <2>1, <3>2, <3>3 DEF MSIThenPin, BothKinds
    <3>5. \A k \in irq_pin_start..intr_index' - 1 :
            kinds'[k] = "pin" => k < irq_pin_end
      BY <2>1, <3>2, <3>3 DEF MSIThenPin, BothKinds
    <3> QED
      BY <2>1, <3>1, <3>3, <3>4, <3>5 DEF MSIThenPin, BothKinds
  <2> QED
    BY <1>t, <2>2 DEF IInv
<1>2. CASE StartMSI
  <2>1. CASE NoneSeen
    <3>1. OnlyMSI'
      BY <1>2, <2>1 DEF StartMSI, NoneSeen, OnlyMSI, OneKind
    <3> QED
      BY <1>t, <3>1 DEF IInv
  <2>2. CASE OnlyPin
    <3>1. PinThenMSI'
      BY <1>2, <2>2 DEF StartMSI, OnlyPin, OneKind, PinThenMSI, BothKinds
    <3> QED
      BY <1>t, <3>1 DEF IInv
  <2> QED
    BY <1>2, <2>1, <2>2 DEF StartMSI, IInv, OnlyMSI, PinThenMSI, MSIThenPin
<1>3. CASE ExtendMSI
  <2>1. CASE OnlyMSI
    <3>1. OnlyMSI'
      BY <1>3, <2>1 DEF ExtendMSI, OnlyMSI, OneKind
    <3> QED
      BY <1>t, <3>1 DEF IInv
  <2>2. CASE PinThenMSI
    <3>1. PinThenMSI'
      <4>1. msi_start \in Nat /\ msi_start <= intr_index /\ intr_index' = intr_index + 1
        BY <1>3, <2>2 DEF ExtendMSI, PinThenMSI, BothKinds
      <4>2. msi_start..intr_index' - 1 = (msi_start..intr_index - 1) \union {intr_index}
        BY <4>1
      <4>3. /\ UNCHANGED <<kinds, irq_pin_start, irq_pin_end, msi_start, pin, msi, warned>>
            /\ kinds[intr_index] = "msi" /\ msi_end' = intr_index + 1
        BY <1>3 DEF ExtendMSI
      <4>4. warned' = {k \in msi_start..intr_index' - 1 : kinds'[k] # "msi"}
        BY <2>2, <4>2, <4>3 DEF PinThenMSI, BothKinds
      <4>5. \A k \in msi_start..intr_index' - 1 : k < msi_end'
        BY <4>1, <4>3
      <4>6. /\ msi_end' > msi_start' /\ msi_end' <= intr_index'
            /\ kinds'[msi_end' - 1] = "msi"
        BY <4>1, <4>3
      <4> QED
        BY <2>2, <4>3, <4>4, <4>5, <4>6 DEF PinThenMSI, BothKinds
    <3> QED
      BY <1>t, <3>1 DEF IInv
  <2> QED
    BY <1>3, <2>1, <2>2 DEF ExtendMSI, IInv, NoneSeen, OnlyPin, MSIThenPin
<1>4. CASE UnexpectedPin
  <2>1. PinThenMSI
    BY <1>4 DEF UnexpectedPin, IInv, NoneSeen, OnlyPin, OnlyMSI, PinThenMSI, MSIThenPin
  <2>2. PinThenMSI'
    <3>1. msi_start \in Nat /\ msi_start <= intr_index /\ intr_index' = intr_index + 1
      BY <2>1, <1>4 DEF UnexpectedPin, PinThenMSI, BothKinds
    <3>2. msi_start..intr_index' - 1 = (msi_start..intr_index - 1) \union {intr_index}
      BY <3>1
    <3>3. UNCHANGED <<kinds, irq_pin_start, irq_pin_end, msi_start, msi_end, pin, msi>>
          /\ kinds[intr_index] = "pin" /\ warned' = warned \union {intr_index}
      BY <1>4 DEF UnexpectedPin
    <3>4. warned' = {k \in msi_start..intr_index' - 1 : kinds'[k] # "msi"}
      BY <2>1, <3>2, <3>3 DEF PinThenMSI, BothKinds
    <3>5. \A k \in msi_start..intr_index' - 1 :
            kinds'[k] = "msi" => k < msi_end
      BY <2>1, <3>2, <3>3 DEF PinThenMSI, BothKinds
    <3> QED
      BY <2>1, <3>1, <3>3, <3>4, <3>5 DEF PinThenMSI, BothKinds
  <2> QED
    BY <1>t, <2>2 DEF IInv
<1>5. CASE StartPin
  <2>1. CASE NoneSeen
    <3>1. OnlyPin'
      BY <1>5, <2>1 DEF StartPin, NoneSeen, OnlyPin, OneKind
    <3> QED
      BY <1>t, <3>1 DEF IInv
  <2>2. CASE OnlyMSI
    <3>1. MSIThenPin'
      BY <1>5, <2>2 DEF StartPin, OnlyMSI, OneKind, MSIThenPin, BothKinds
    <3> QED
      BY <1>t, <3>1 DEF IInv
  <2> QED
    BY <1>5, <2>1, <2>2 DEF StartPin, IInv, OnlyPin, PinThenMSI, MSIThenPin
<1>6. CASE ExtendPin
  <2>1. CASE OnlyPin
    <3>1. OnlyPin'
      BY <1>6, <2>1 DEF ExtendPin, OnlyPin, OneKind
    <3> QED
      BY <1>t, <3>1 DEF IInv
  <2>2. CASE MSIThenPin
    <3>1. MSIThenPin'
      <4>1. irq_pin_start \in Nat /\ irq_pin_start <= intr_index /\ intr_index' = intr_index + 1
        BY <1>6, <2>2 DEF ExtendPin, MSIThenPin, BothKinds
      <4>2. irq_pin_start..intr_index' - 1 = (irq_pin_start..intr_index - 1) \union {intr_index}
        BY <4>1
      <4>3. /\ UNCHANGED <<kinds, msi_start, msi_end, irq_pin_start, pin, msi, warned>>
            /\ kinds[intr_index] = "pin" /\ irq_pin_end' = intr_index + 1
        BY <1>6 DEF ExtendPin
      <4>4. warned' = {k \in irq_pin_start..intr_index' - 1 : kinds'[k] # "pin"}
        BY <2>2, <4>2, <4>3 DEF MSIThenPin, BothKinds
      <4>5. \A k \in irq_pin_start..intr_index' - 1 : k < irq_pin_end'
        BY <4>1, <4>3
      <4>6. /\ irq_pin_end' > irq_pin_start' /\ irq_pin_end' <= intr_index'
            /\ kinds'[irq_pin_end' - 1] = "pin"
        BY <4>1, <4>3
      <4> QED
        BY <2>2, <4>3, <4>4, <4>5, <4>6 DEF MSIThenPin, BothKinds
    <3> QED
      BY <1>t, <3>1 DEF IInv
  <2> QED
    BY <1>6, <2>1, <2>2 DEF ExtendPin, IInv, NoneSeen, OnlyMSI, PinThenMSI
<1>7. CASE Return \/ UNCHANGED vars
  <2>1. UNCHANGED <<kinds, intr_index, ranges, flags, warned>>
    BY <1>7 DEF Return, vars
  <2> QED
    BY <1>t, <2>1 DEF IInv, NoneSeen, OnlyPin, OnlyMSI, OneKind, PinThenMSI, MSIThenPin, BothKinds
<1> QED
  BY <1>1, <1>2, <1>3, <1>4, <1>5, <1>6, <1>7 DEF Next

(* The scan is always in one of the five phases.                           *)
THEOREM ScanInvariant == Spec => []IInv
  BY InitInv, PhaseStep, PTL DEF Spec

-----------------------------------------------------------------------------
(* The phases imply the properties.                                        *)

LEMMA PhasesDisjoint == IInv => RangesDisjoint
<1> SUFFICES ASSUME IInv PROVE RangesDisjoint
  OBVIOUS
<1>0. PICK n \in Counts : kinds \in [0..n - 1 -> Kinds] /\ intr_index \in 0..n
  BY DEF IInv, TypeOK
<1>n. n \in Nat
  BY CountsAssumption
<1>i. {irq_pin_start, irq_pin_end, msi_start, msi_end} \subseteq Nat \union {-1}
  BY DEF IInv, TypeOK
<1> QED
  BY <1>0, <1>n, <1>i DEF IInv, RangesDisjoint, PinRange, MSIRange, NoneSeen, OnlyPin, OnlyMSI,
     OneKind, PinThenMSI, MSIThenPin, BothKinds, ranges

LEMMA PhasesDropNone == IInv => NoneDroppedSilently
<1> SUFFICES ASSUME IInv PROVE NoneDroppedSilently
  OBVIOUS
<1>0. PICK n \in Counts : kinds \in [0..n - 1 -> Kinds] /\ intr_index \in 0..n
  BY DEF IInv, TypeOK
<1>n. n \in Nat
  BY CountsAssumption
<1>i. /\ irq_pin_start \in Int /\ irq_pin_end \in Int
      /\ msi_start \in Int /\ msi_end \in Int
  BY DEF IInv, TypeOK
<1> USE <1>0, <1>n, <1>i DEF NoneDroppedSilently, Seen, PinRange, MSIRange
<1>1. CASE NoneSeen
  BY <1>1 DEF NoneSeen
<1>2. CASE OnlyPin \/ OnlyMSI
  BY <1>2 DEF OnlyPin, OnlyMSI, OneKind
<1>3. CASE PinThenMSI
  <2> USE <1>3 DEF PinThenMSI, BothKinds
  <2>1. ASSUME NEW k \in Seen("pin") PROVE k \in PinRange \union warned
    <3>1. CASE k < irq_pin_end
      BY <3>1
    <3>2. CASE k >= irq_pin_end
      <4>1. k \in msi_start..intr_index - 1 /\ kinds[k] # "msi"
        BY <3>2
      <4> QED
        BY <4>1
    <3> QED
      BY <3>1, <3>2
  <2>2. ASSUME NEW k \in Seen("msi") PROVE k \in MSIRange
    <3>1. k >= irq_pin_end
      OBVIOUS
    <3> QED
      BY <3>1
  <2> QED
    BY <2>1, <2>2
<1>4. CASE MSIThenPin
  <2> USE <1>4 DEF MSIThenPin, BothKinds
  <2>1. ASSUME NEW k \in Seen("msi") PROVE k \in MSIRange \union warned
    <3>1. CASE k < msi_end
      BY <3>1
    <3>2. CASE k >= msi_end
      <4>1. k \in irq_pin_start..intr_index - 1 /\ kinds[k] # "pin"
        BY <3>2
      <4> QED
        BY <4>1
    <3> QED
      BY <3>1, <3>2
  <2>2. ASSUME NEW k \in Seen("pin") PROVE k \in PinRange
    <3>1. k >= msi_end
      OBVIOUS
    <3> QED
      BY <3>1
  <2> QED
    BY <2>1, <2>2
<1> QED
  BY <1>1, <1>2, <1>3, <1>4 DEF IInv

(* Contiguous sources leave nothing behind in the first range, and fill    *)
(* the second.                                                             *)
LEMMA BothKindsExact ==
  ASSUME NEW n \in Nat, kinds \in [0..n - 1 -> Kinds], intr_index \in 0..n,
         NEW first, NEW second, Kinds = {first, second}, first # second,
         NEW start1 \in Int, NEW end1 \in Int, NEW start2 \in Int, NEW end2 \in Int,
         BothKinds(first, start1, end1, second, start2, end2),
         Contiguous(Seen(first)), Contiguous(Seen(second))
  PROVE  /\ Seen(first) = {k \in DOMAIN kinds : start1 <= k /\ k < end1}
         /\ Seen(second) = {k \in DOMAIN kinds : start2 <= k /\ k < end2}
         /\ warned = {}
<1> USE DEF BothKinds
<1>1. \A k \in Seen(first) : k < end1
  <2> SUFFICES ASSUME NEW k \in Seen(first), k >= end1 PROVE FALSE
    BY DEF Seen
  <2>1. 0 \in Seen(first) /\ k \in Int
    BY DEF Seen
  <2>2. end1 \in 0..k
    BY <2>1
  <2>3. end1 \in Seen(first)
    BY <2>1, <2>2 DEF Contiguous
  <2>4. kinds[end1] = first /\ kinds[end1] = second
    BY <2>3 DEF Seen
  <2> QED
    BY <2>4
<1>2. Seen(first) = {k \in DOMAIN kinds : start1 <= k /\ k < end1}
  BY <1>1 DEF Seen
<1>3. ASSUME NEW k \in warned PROVE FALSE
  <2>1. k \in start2..intr_index - 1 /\ kinds[k] # second
    OBVIOUS
  <2>2. k \in DOMAIN kinds /\ k < intr_index /\ k \in Int
    BY <2>1
  <2>3. kinds[k] = first
    BY <2>1, <2>2
  <2>4. k \in Seen(first)
    BY <2>2, <2>3 DEF Seen
  <2> QED
    BY <1>1, <2>1, <2>2, <2>4
<1>4. ASSUME NEW k \in Seen(second)
      PROVE  k \in DOMAIN kinds /\ start2 <= k /\ k < end2
  <2>1. k \in 0..n - 1 /\ k < intr_index /\ kinds[k] = second
    BY DEF Seen
  <2>2. k >= start2
    BY <2>1
  <2> QED
    BY <2>1, <2>2
<1>5. ASSUME NEW k \in DOMAIN kinds, start2 <= k, k < end2 PROVE k \in Seen(second)
  <2>1. start2 \in Seen(second) /\ end2 - 1 \in Seen(second)
    <3>1. start2 \in DOMAIN kinds /\ start2 < intr_index
      OBVIOUS
    <3>2. end2 - 1 \in DOMAIN kinds /\ end2 - 1 < intr_index
      OBVIOUS
    <3> QED
      BY <3>1, <3>2 DEF Seen
  <2>2. start2..end2 - 1 \subseteq Seen(second)
    BY <2>1 DEF Contiguous
  <2>3. k \in start2..end2 - 1
    BY <1>5
  <2> QED
    BY <2>2, <2>3
<1> QED
  BY <1>2, <1>3, <1>4, <1>5

LEMMA PhasesExact == IInv => ContiguousIsExact
<1> SUFFICES ASSUME IInv, Contiguous(Seen("pin")), Contiguous(Seen("msi"))
             PROVE  PinRange = Seen("pin") /\ MSIRange = Seen("msi") /\ warned = {}
  BY DEF ContiguousIsExact
<1>0. PICK n \in Counts : kinds \in [0..n - 1 -> Kinds] /\ intr_index \in 0..n
  BY DEF IInv, TypeOK
<1>n. n \in Nat
  BY CountsAssumption
<1>i. /\ irq_pin_start \in Int /\ irq_pin_end \in Int
      /\ msi_start \in Int /\ msi_end \in Int
  BY DEF IInv, TypeOK
<1>j. Kinds = {"pin", "msi"} /\ "pin" # "msi"
  BY DEF Kinds
<1>k. Kinds = {"msi", "pin"} /\ "msi" # "pin"
  BY DEF Kinds
<1>c. Contiguous(Seen("pin")) /\ Contiguous(Seen("msi"))
  OBVIOUS
<1>1. CASE NoneSeen
  BY <1>0, <1>n, <1>i, <1>1 DEF NoneSeen, Seen, PinRange, MSIRange
<1>2. CASE OnlyPin \/ OnlyMSI
  BY <1>0, <1>n, <1>i, <1>2 DEF OnlyPin, OnlyMSI, OneKind, Seen, PinRange, MSIRange
<1>3. CASE PinThenMSI
  <2>1. BothKinds("pin", irq_pin_start, irq_pin_end, "msi", msi_start, msi_end)
    BY <1>3 DEF PinThenMSI
  <2>2. /\ Seen("pin") = {k \in DOMAIN kinds : irq_pin_start <= k /\ k < irq_pin_end}
        /\ Seen("msi") = {k \in DOMAIN kinds : msi_start <= k /\ k < msi_end}
        /\ warned = {}
    BY <1>0, <1>n, <1>i, <1>j, <1>c, <2>1, BothKindsExact, Zenon
  <2> QED
    BY <2>2 DEF PinRange, MSIRange
<1>4. CASE MSIThenPin
  <2>1. BothKinds("msi", msi_start, msi_end, "pin", irq_pin_start, irq_pin_end)
    BY <1>4 DEF MSIThenPin
  <2>2. /\ Seen("msi") = {k \in DOMAIN kinds : msi_start <= k /\ k < msi_end}
        /\ Seen("pin") = {k \in DOMAIN kinds : irq_pin_start <= k /\ k < irq_pin_end}
        /\ warned = {}
    BY <1>0, <1>n, <1>i, <1>k, <1>c, <2>1, BothKindsExact, Zenon
  <2> QED
    BY <2>2 DEF PinRange, MSIRange
<1> QED
  BY <1>1, <1>2, <1>3, <1>4 DEF IInv

(* Contiguous sources are found exactly.                                   *)
THEOREM ContiguousAlwaysExact == Spec => []ContiguousIsExact
  BY ScanInvariant, PhasesExact, PTL

(* No interrupt source is claimed by both ranges.                          *)
THEOREM RangesAlwaysDisjoint == Spec => []RangesDisjoint
  BY ScanInvariant, PhasesDisjoint, PTL

(* No interrupt source is missed without a warning.                        *)
THEOREM NoneEverDroppedSilently == Spec => []NoneDroppedSilently
  BY ScanInvariant, PhasesDropNone, PTL

(***************************************************************************)
(* PCIConfiguration                                                        *)
(***************************************************************************)
LEMMA DeviceShape ==
  ASSUME NEW d \in Devices
  PROVE  /\ d \in Device
         /\ d.chain \in Seq(64..255) /\ Len(d.chain) \in Nat /\ DOMAIN d.chain = 1..Len(d.chain)
         /\ \A r \in BaseAddresses : d.bars[r] \in 0..7
<1>1. d \in Device
  BY DevicesAssumption
<1>2. d.chain \in Seq(64..255) /\ d.bars \in [BaseAddresses -> 0..7]
  BY <1>1 DEF Device
<1> QED
  BY <1>1, <1>2

LEMMA OffsetBounds ==
  ASSUME NEW o \in CapabilityOffsets
  PROVE  o \in 64..252 /\ IsLegal(o) /\ o # 0 /\ o >= 64
  BY DEF CapabilityOffsets, IsLegal

(* On a well-formed list, next returns the capability after this one.      *)
LEMMA NextInChain ==
  ASSUME NEW d \in Devices, WellFormed(d), NEW k \in DOMAIN d.chain
  PROVE  /\ d.chain[k] \in CapabilityOffsets
         /\ d.bytes[(d.chain[k] + 1) % 256] = IF k = Len(d.chain) THEN 0 ELSE d.chain[k + 1]
<1>1. d.chain[k] \in CapabilityOffsets
  BY DEF WellFormed
<1>2. d.chain[k] \in 64..252
  BY <1>1, OffsetBounds
<1>3. (d.chain[k] + 1) % 256 = d.chain[k] + 1
  BY <1>2
<1> QED
  BY <1>1, <1>3 DEF WellFormed

(* One capability more.                                                    *)
LEMMA SeenOneMore ==
  ASSUME NEW d \in Devices, WellFormed(d), NEW n \in Nat, n < Len(d.chain),
         NEW S, S = {d.chain[k] : k \in 1..n}, Cardinality(S) = n
  PROVE  /\ S \union {d.chain[n + 1]} = {d.chain[k] : k \in 1..n + 1}
         /\ Cardinality(S \union {d.chain[n + 1]}) = n + 1
<1>1. DOMAIN d.chain = 1..Len(d.chain) /\ Len(d.chain) \in Nat /\ d.chain \in Seq(64..255)
  BY DeviceShape
<1>2. n + 1 \in DOMAIN d.chain /\ \A k \in 1..n : k \in DOMAIN d.chain /\ k # n + 1
  BY <1>1
<1>3. d.chain[n + 1] \notin S
  <2>1. ASSUME NEW k \in 1..n, d.chain[k] = d.chain[n + 1] PROVE FALSE
    <3>1. k \in DOMAIN d.chain /\ n + 1 \in DOMAIN d.chain /\ k # n + 1
      BY <1>2
    <3> QED
      BY <2>1, <3>1 DEF WellFormed
  <2> QED
    BY <2>1
<1>4. IsFiniteSet(S)
  <2>1. IsFiniteSet(64..255)
    <3>1. 64 \in Int /\ 255 \in Int
      OBVIOUS
    <3> QED
      BY <3>1, FS_Interval, Zenon
  <2>2. \A k \in 1..n : d.chain[k] \in 64..255
    <3>1. ASSUME NEW k \in 1..n PROVE d.chain[k] \in 64..255
      <4>1. d.chain[k] \in CapabilityOffsets
        BY <1>2 DEF WellFormed
      <4> QED
        BY <4>1, OffsetBounds
    <3> QED
      BY <3>1
  <2>3. S \subseteq 64..255
    BY <2>2
  <2> QED
    BY <2>1, <2>3, FS_Subset
<1>5. S \union {d.chain[n + 1]} = {d.chain[k] : k \in 1..n + 1}
  <2>1. 1..n + 1 = 1..n \union {n + 1}
    OBVIOUS
  <2> QED
    BY <2>1, Zenon
<1>6. Cardinality(S \union {d.chain[n + 1]}) = n + 1
  BY <1>3, <1>4, FS_AddElement
<1> QED
  BY <1>5, <1>6

-----------------------------------------------------------------------------
LEMMA ConfigInitInv == ConfigInit => ConfigInv
<1> SUFFICES ASSUME ConfigInit PROVE ConfigInv
  OBVIOUS
<1> USE DEF ConfigInit
<1>1. Len(device.chain) \in Nat
  BY DeviceShape
<1>2. SeenFirst(0)
  BY FS_EmptySet DEF SeenFirst
<1> QED
  BY <1>1, <1>2 DEF ConfigInv, ConfigTypeOK, BeforeTheWalk, OffsetsLegal, OffsetInChain, SeenPart,
     RangeStartsRight, Byte, CapabilityOffsets

LEMMA ReadType ==
  ASSUME ConfigTypeOK, NEW o \in Byte
  PROVE  /\ configRead8(o) \in Byte /\ NextPointer(o) \in Byte
         /\ (IF present THEN device.pointer ELSE 255) \in Byte
<1>1. device \in Device
  BY DeviceShape DEF ConfigTypeOK
<1>2. (o + 1) % 256 \in Byte /\ 255 \in Byte
  BY DEF Byte
<1>3. device.bytes \in [Byte -> Byte] /\ device.pointer \in Byte
  BY <1>1 DEF Device
<1>4. \A a \in Byte : configRead8(a) \in Byte
  BY <1>2, <1>3 DEF configRead8
<1> QED
  BY <1>2, <1>3, <1>4 DEF NextPointer

LEMMA ConfigTypeStep == ConfigTypeOK /\ [ConfigNext]_configVars => ConfigTypeOK'
<1> SUFFICES ASSUME ConfigTypeOK, [ConfigNext]_configVars PROVE ConfigTypeOK'
  OBVIOUS
<1> USE DEF ConfigTypeOK, Trans, walkVars, rangeVars
<1>1. CASE SurpriseRemoval \/ NoCapabilities \/ ReadStatus \/ WalkDone \/ PassUpperHalfTest
  BY <1>1 DEF SurpriseRemoval, NoCapabilities, ReadStatus, WalkDone, PassUpperHalfTest
<1>2. CASE ReadPointer
  <2>1. offset' \in Byte
    <3>1. 0 \in Byte
      BY DEF Byte
    <3> QED
      BY <1>2, <3>1, ReadType DEF ReadPointer
  <2> QED
    BY <1>2, <2>1 DEF ReadPointer
<1>3. CASE Visit
  <2>1. offset' \in Byte
    BY <1>3, ReadType DEF Visit
  <2> QED
    BY <1>3, <2>1 DEF Visit
<1>4. CASE Classify
  <2>1. Probed \subseteq Int
    BY ProbedAssumption DEF Byte
  <2>2. \A index \in 0..5 : RegisterForRangeIndex(index) \in Int
    BY DEF RegisterForRangeIndex, kIOPCIConfigBaseAddress0, kIOPCIConfigBaseAddress1
  <2>3. reg' \in Int
    BY <1>4, <2>1, <2>2 DEF Classify
  <2> QED
    BY <1>4, <2>3 DEF Classify
<1>5. CASE NotABaseAddress \/ RefuseUpperHalf \/ ReadRegister
  BY <1>5 DEF NotABaseAddress, RefuseUpperHalf, ReadRegister, Classified
<1>6. CASE UNCHANGED configVars
  BY <1>6 DEF configVars
<1> QED
  BY <1>1, <1>2, <1>3, <1>4, <1>5, <1>6 DEF ConfigNext, Driver

LEMMA BeforeTheWalkStep ==
  ConfigInv /\ [ConfigNext]_configVars => BeforeTheWalk'
<1> SUFFICES ASSUME ConfigInv, [ConfigNext]_configVars PROVE BeforeTheWalk'
  OBVIOUS
<1> USE DEF BeforeTheWalk, Trans, walkVars, rangeVars
<1>0. BeforeTheWalk /\ ConfigTypeOK
  BY DEF ConfigInv
<1>1. CASE SurpriseRemoval
  BY <1>0, <1>1 DEF SurpriseRemoval
<1>2. CASE NoCapabilities \/ ReadStatus \/ ReadPointer \/ Visit \/ WalkDone
  BY <1>0, <1>2 DEF NoCapabilities, ReadStatus, ReadPointer, Visit, WalkDone, HasCapabilities
<1>3. CASE \/ Classify \/ NotABaseAddress \/ RefuseUpperHalf \/ PassUpperHalfTest \/ ReadRegister
  BY <1>3 DEF Classify, NotABaseAddress, RefuseUpperHalf, PassUpperHalfTest, ReadRegister, Classified
<1>4. CASE UNCHANGED configVars
  BY <1>0, <1>4 DEF configVars
<1> QED
  BY <1>1, <1>2, <1>3, <1>4 DEF ConfigNext, Driver

(* The steps that touch neither the walk nor the device.                   *)
Classifying ==
  Classify \/ NotABaseAddress \/ RefuseUpperHalf \/ PassUpperHalfTest \/ ReadRegister

LEMMA WalkStands ==
  ASSUME Classifying
  PROVE  /\ UNCHANGED <<device, present, offset, visited>>
         /\ at \in {"idle", "checking", "reading"} /\ at' \in {"idle", "checking", "reading"}
  BY DEF Classifying, Classify, NotABaseAddress, RefuseUpperHalf, PassUpperHalfTest, ReadRegister,
     Classified, Trans, walkVars, rangeVars

LEMMA OffsetStep ==
  ConfigInv /\ [ConfigNext]_configVars => OffsetInChain' /\ OffsetsLegal'
<1> SUFFICES ASSUME ConfigInv, [ConfigNext]_configVars PROVE OffsetInChain' /\ OffsetsLegal'
  OBVIOUS
<1> USE DEF OffsetInChain, OffsetsLegal, Trans, walkVars, rangeVars
<1>0. OffsetInChain /\ OffsetsLegal /\ BeforeTheWalk /\ ConfigTypeOK
  BY DEF ConfigInv
<1>1. ASSUME OffsetInChain',
             at' = "walking" /\ visited' = {} => offset' \in CapabilityOffsets \union {0}
      PROVE  OffsetsLegal'
  <2>1. ASSUME WellFormed(device'), NEW k \in DOMAIN device'.chain, offset' = device'.chain[k]
        PROVE  offset' >= 64
    <3>1. offset' \in CapabilityOffsets
      BY <2>1 DEF WellFormed
    <3> QED
      BY <3>1, OffsetBounds
  <2>2. WellFormed(device') => offset' = 0 \/ offset' >= 64
    BY <1>1, <2>1 DEF WellFormed
  <2> QED
    BY <1>1, <2>2 DEF WellFormed
<1>2. CASE SurpriseRemoval
  <2>1. UNCHANGED <<device, offset, visited, at>> /\ present'  = FALSE
    BY <1>2 DEF SurpriseRemoval
  <2> QED
    BY <1>0, <2>1 DEF WellFormed
<1>3. CASE NoCapabilities \/ ReadStatus \/ WalkDone
  <2>1. UNCHANGED <<device, present, offset, visited>>
    BY <1>3 DEF NoCapabilities, ReadStatus, WalkDone
  <2>2. at' = "walking" => offset' = 0
    BY <1>0, <1>3, <2>1 DEF NoCapabilities, ReadStatus, WalkDone, BeforeTheWalk
  <2> QED
    BY <1>0, <2>1, <2>2 DEF WellFormed
<1>4. CASE ReadPointer
  <2> DEFINE first == IF present THEN device.pointer ELSE 255
  <2>1. /\ UNCHANGED <<device, present, visited>>
        /\ offset' = IF IsLegal(first) THEN first ELSE 0
        /\ at = "pointer" /\ at' = "walking"
    BY <1>4 DEF ReadPointer
  <2>2. first \in Byte
    <3>1. 0 \in Byte
      BY DEF Byte
    <3> QED
      BY <1>0, <3>1, ReadType
  <2>3. offset' \in CapabilityOffsets \union {0}
    BY <2>1, <2>2 DEF IsLegal, CapabilityOffsets, Byte
  <2>4. ASSUME WellFormed(device), offset' # 0 PROVE \E k \in DOMAIN device.chain : offset' = device.chain[k]
    <3>1. present
      BY <2>1, <2>4 DEF IsLegal
    <3>2. device.capable
      BY <1>0, <2>1, <3>1 DEF BeforeTheWalk
    <3>3. device.chain # <<>> /\ device.pointer = device.chain[1]
      BY <2>4, <3>2 DEF WellFormed
    <3>4. 1 \in DOMAIN device.chain
      <4>1. device \in Devices
        BY <1>0 DEF ConfigTypeOK
      <4>2. device.chain \in Seq(64..255)
        BY <4>1, DeviceShape
      <4> QED
        BY <3>3, <4>2
    <3> QED
      BY <2>1, <2>4, <3>1, <3>3, <3>4
  <2>5. OffsetInChain'
    BY <2>1, <2>4 DEF WellFormed
  <2> QED
    BY <1>1, <2>3, <2>5
<1>5. CASE Visit
  <2>1. /\ UNCHANGED <<device, present, at>>
        /\ offset # 0 /\ visited' = visited \union {offset} /\ offset' = NextPointer(offset)
    BY <1>5 DEF Visit
  <2>2. CASE ~present
    <3>1. offset' = 255
      BY <2>1, <2>2 DEF NextPointer, configRead8
    <3>2. OffsetInChain'
      BY <2>1, <2>2, <3>1 DEF WellFormed
    <3> QED
      BY <1>1, <2>1, <3>2
  <2>3. CASE present
    <3>1. ASSUME WellFormed(device)
          PROVE  offset' = 0 \/ \E k \in DOMAIN device.chain : offset' = device.chain[k]
      <4>1. PICK k \in DOMAIN device.chain : offset = device.chain[k]
        BY <1>0, <2>1, <2>3, <3>1
      <4>2. device \in Devices
        BY <1>0 DEF ConfigTypeOK
      <4>3. offset' = IF k = Len(device.chain) THEN 0 ELSE device.chain[k + 1]
        BY <2>1, <2>3, <3>1, <4>1, <4>2, NextInChain DEF NextPointer, configRead8
      <4>4. DOMAIN device.chain = 1..Len(device.chain) /\ Len(device.chain) \in Nat
        BY <4>2, DeviceShape
      <4> QED
        BY <4>3, <4>4
    <3>2. OffsetInChain'
      BY <2>1, <3>1 DEF WellFormed
    <3> QED
      BY <1>1, <2>1, <3>2
  <2> QED
    BY <1>0, <2>2, <2>3 DEF ConfigTypeOK
<1>6. CASE Classifying
  BY <1>0, <1>6, WalkStands DEF WellFormed
<1>7. CASE UNCHANGED configVars
  BY <1>0, <1>7 DEF configVars, WellFormed
<1> QED
  BY <1>2, <1>3, <1>4, <1>5, <1>6, <1>7 DEF ConfigNext, Driver, Classifying

LEMMA SeenStep ==
  ConfigInv /\ [ConfigNext]_configVars => SeenPart'
<1> SUFFICES ASSUME ConfigInv, [ConfigNext]_configVars, present', WellFormed(device')
             PROVE  \E n \in 0..Len(device'.chain) : SeenFirst(n)'
  BY DEF SeenPart, WellFormed
<1> USE DEF Trans, walkVars, rangeVars
<1>0. SeenPart /\ BeforeTheWalk /\ device \in Devices
  BY DEF ConfigInv, ConfigTypeOK
<1>1. device' = device
  BY DEF ConfigNext, Driver, SurpriseRemoval, NoCapabilities, ReadStatus, ReadPointer, Visit,
     WalkDone, Classify, NotABaseAddress, RefuseUpperHalf, PassUpperHalfTest, ReadRegister,
     Classified, configVars
<1>2. present
  BY DEF ConfigNext, Driver, SurpriseRemoval, NoCapabilities, ReadStatus, ReadPointer, Visit,
     WalkDone, Classify, NotABaseAddress, RefuseUpperHalf, PassUpperHalfTest, ReadRegister,
     Classified, configVars
<1>3. PICK n \in 0..Len(device.chain) : SeenFirst(n)
  BY <1>0, <1>1, <1>2 DEF SeenPart
<1>4. /\ device.chain \in Seq(64..255)
      /\ DOMAIN device.chain = 1..Len(device.chain) /\ Len(device.chain) \in Nat
  BY <1>0, DeviceShape
<1>5. CASE SurpriseRemoval
  BY <1>5 DEF SurpriseRemoval
<1>6. CASE NoCapabilities \/ ReadStatus
  <2>1. UNCHANGED <<device, offset, visited>> /\ at = "status" /\ at' \in {"pointer", "walking"}
    BY <1>6 DEF NoCapabilities, ReadStatus
  <2>2. n = 0 /\ offset = 0
    BY <1>0, <1>3, <2>1 DEF SeenFirst, BeforeTheWalk
  <2>3. at' = "walking" => Len(device.chain) = 0
    <3>1. at' = "walking" => ~device.capable
      BY <1>2, <1>6 DEF NoCapabilities, ReadStatus, HasCapabilities
    <3>2. ~device.capable => device.chain = <<>>
      BY <1>1 DEF WellFormed
    <3> QED
      BY <3>1, <3>2
  <2>4. SeenFirst(n)'
    BY <1>3, <2>1, <2>2, <2>3 DEF SeenFirst
  <2> QED
    BY <1>1, <1>3, <2>4
<1>7. CASE ReadPointer
  <2>1. /\ UNCHANGED <<device, visited>> /\ at = "pointer" /\ at' = "walking"
        /\ offset' = IF IsLegal(device.pointer) THEN device.pointer ELSE 0
    BY <1>2, <1>7 DEF ReadPointer
  <2>2. n = 0
    BY <1>3, <2>1 DEF SeenFirst
  <2>3. device.chain # <<>> /\ device.pointer = device.chain[1]
    BY <1>0, <1>1, <1>2, <2>1 DEF BeforeTheWalk, WellFormed
  <2>4. 1 \in DOMAIN device.chain /\ Len(device.chain) # 0
    BY <1>4, <2>3
  <2>5. IsLegal(device.pointer)
    <3>1. device.chain[1] \in CapabilityOffsets
      BY <1>1, <2>4 DEF WellFormed
    <3> QED
      BY <2>3, <3>1, OffsetBounds
  <2>6. SeenFirst(n)'
    BY <1>3, <2>1, <2>2, <2>3, <2>4, <2>5 DEF SeenFirst
  <2> QED
    BY <1>1, <1>3, <2>6
<1>8. CASE Visit
  <2>1. /\ UNCHANGED <<device, at>> /\ at = "walking"
        /\ offset # 0 /\ visited' = visited \union {offset} /\ offset' = NextPointer(offset)
    BY <1>8 DEF Visit
  <2>2. n < Len(device.chain) /\ offset = device.chain[n + 1]
    BY <1>3, <1>4, <2>1 DEF SeenFirst
  <2>3. n + 1 \in DOMAIN device.chain /\ n + 1 \in 0..Len(device.chain)
    BY <1>3, <1>4, <2>2
  <2>4. /\ visited' = {device.chain[k] : k \in 1..n + 1}
        /\ Cardinality(visited') = n + 1
    <3>1. visited = {device.chain[k] : k \in 1..n} /\ Cardinality(visited) = n
      BY <1>3 DEF SeenFirst
    <3> QED
      BY <1>0, <1>1, <1>3, <2>1, <2>2, <3>1, SeenOneMore
  <2>5. offset' = IF n + 1 = Len(device.chain) THEN 0 ELSE device.chain[n + 1 + 1]
    BY <1>0, <1>1, <1>2, <2>1, <2>2, <2>3, NextInChain DEF NextPointer, configRead8
  <2>6. SeenFirst(n + 1)'
    BY <2>1, <2>4, <2>5 DEF SeenFirst
  <2> QED
    BY <1>1, <2>3, <2>6
<1>9. CASE WalkDone
  <2>1. UNCHANGED <<device, offset, visited>> /\ at = "walking" /\ at' = "idle" /\ offset = 0
    BY <1>9 DEF WalkDone
  <2>2. n = Len(device.chain)
    <3>1. ASSUME n # Len(device.chain) PROVE FALSE
      <4>1. n + 1 \in DOMAIN device.chain /\ offset = device.chain[n + 1]
        BY <1>3, <1>4, <2>1, <3>1 DEF SeenFirst
      <4>2. device.chain[n + 1] \in CapabilityOffsets
        BY <1>1, <4>1 DEF WellFormed
      <4> QED
        BY <2>1, <4>1, <4>2, OffsetBounds
    <3> QED
      BY <3>1
  <2>3. SeenFirst(n)'
    BY <1>3, <2>1, <2>2 DEF SeenFirst
  <2> QED
    BY <1>1, <1>3, <2>3
<1>10. CASE Classifying
  <2>1. SeenFirst(n)'
    BY <1>3, <1>10, WalkStands DEF SeenFirst
  <2> QED
    BY <1>1, <1>3, <2>1
<1>11. CASE UNCHANGED configVars
  <2>1. SeenFirst(n)'
    BY <1>3, <1>11 DEF configVars, SeenFirst
  <2> QED
    BY <1>1, <1>3, <2>1
<1> QED
  BY <1>5, <1>6, <1>7, <1>8, <1>9, <1>10, <1>11 DEF ConfigNext, Driver, Classifying

-----------------------------------------------------------------------------
(* The low bits of a register that begins a range decide its type.         *)
LEMMA BitsDecideType ==
  ASSUME device \in Devices, present, reg \in BaseAddresses, device.roles[reg] # "upper_half"
  PROVE  TypeFrom(BaseAddressBits(reg)) = RightType(device.roles[reg])
<1> DEFINE bits == device.bars[reg]
           role == device.roles[reg]
<1>1. bits \in LowBits(role) /\ (role = "memory64" => reg # 36)
  BY DevicesAssumption
<1>2. role \in Roles
  BY DevicesAssumption DEF Device
<1>3. TypeFrom(BaseAddressBits(reg)) = TypeFrom(bits)
  BY DEF BaseAddressBits
<1> HIDE DEF bits
<1>4. CASE role = "io"
  <2>1. bits \in {1, 5}
    BY <1>1, <1>4 DEF LowBits
  <2>2. TypeFrom(bits) = "io"
    BY <2>1 DEF TypeFrom
  <2> QED
    BY <1>3, <1>4, <2>2 DEF RightType
<1>5. CASE role = "memory32"
  <2>1. bits = 0
    BY <1>1, <1>5 DEF LowBits
  <2>2. TypeFrom(bits) = "memory32"
    BY <2>1 DEF TypeFrom, ShiftedType, MaskedType
  <2> QED
    BY <1>3, <1>5, <2>2 DEF RightType
<1>6. CASE role = "below_1M"
  <2>1. bits = 2
    BY <1>1, <1>6 DEF LowBits
  <2>2. TypeFrom(bits) = "error"
    BY <2>1 DEF TypeFrom, ShiftedType, MaskedType
  <2> QED
    BY <1>3, <1>6, <2>2 DEF RightType
<1>7. CASE role = "memory64"
  <2>1. bits = 4 /\ reg # 36
    BY <1>1, <1>7 DEF LowBits
  <2>2. TypeFrom(bits) = "memory64"
    BY <2>1 DEF TypeFrom, ShiftedType, MaskedType, kIOPCIConfigBaseAddress5
  <2> QED
    BY <1>3, <1>7, <2>2 DEF RightType
<1> QED
  BY <1>2, <1>4, <1>5, <1>6, <1>7 DEF Roles

LEMMA RangeStep ==
  ConfigInv /\ [ConfigNext]_configVars => RangeStartsRight'
<1> SUFFICES ASSUME ConfigInv, [ConfigNext]_configVars,
                    at' = "idle", result' # "none", present', reg' \in BaseAddresses,
                    device'.roles[reg'] # "upper_half", reg' = 16 \/ device'.bars[reg' - 4] # 2
             PROVE  result' = RightType(device'.roles[reg'])
  BY DEF RangeStartsRight, RightType
<1> USE DEF Trans, walkVars, rangeVars
<1>0. RangeStartsRight /\ BeforeTheWalk /\ device \in Devices
  BY DEF ConfigInv, ConfigTypeOK
<1>1. CASE SurpriseRemoval \/ NoCapabilities \/ ReadStatus \/ ReadPointer \/ Classify \/ PassUpperHalfTest
  BY <1>1 DEF SurpriseRemoval, NoCapabilities, ReadStatus, ReadPointer, Classify, PassUpperHalfTest
<1>2. CASE Visit \/ WalkDone
  BY <1>0, <1>2 DEF Visit, WalkDone, BeforeTheWalk
<1>3. CASE NotABaseAddress \/ RefuseUpperHalf
  <2>1. UNCHANGED <<device, present, reg>>
    BY <1>3 DEF NotABaseAddress, RefuseUpperHalf, Classified
  <2>2. IsBaseAddress
    BY <2>1 DEF IsBaseAddress, BaseAddresses, kIOPCIConfigBaseAddress0, kIOPCIConfigBaseAddress5
  <2>3. LooksLikeUpperHalf
    BY <1>3, <2>2 DEF NotABaseAddress, RefuseUpperHalf
  <2>4. /\ reg # 16 /\ device.bars[reg - 4] % 2 = 0
        /\ device.bars[reg - 4] - (device.bars[reg - 4] % 2) = 2
    BY <2>1, <2>3
       DEF LooksLikeUpperHalf, BaseAddressBits, MaskedType, kIOPCIConfigBaseAddress0
  <2>5. reg - 4 \in BaseAddresses
    BY <2>1, <2>4 DEF BaseAddresses
  <2>6. device.bars[reg - 4] \in 0..7
    BY <1>0, <2>5, DeviceShape
  <2>7. device.bars[reg - 4] = 2
    BY <2>4, <2>6
  <2> QED
    BY <2>1, <2>4, <2>7
<1>4. CASE ReadRegister
  <2>1. UNCHANGED <<device, present, reg>> /\ result' = TypeFrom(BaseAddressBits(reg))
    BY <1>4 DEF ReadRegister, Classified
  <2> QED
    BY <1>0, <2>1, BitsDecideType
<1>5. CASE UNCHANGED configVars
  BY <1>0, <1>5 DEF configVars, RangeStartsRight
<1> QED
  BY <1>1, <1>2, <1>3, <1>4, <1>5 DEF ConfigNext, Driver

-----------------------------------------------------------------------------
(* The theorems.                                                           *)

(* ConfigInv is an inductive invariant of the walk and of the types.       *)
THEOREM ConfigInvariant == ConfigSpec => []ConfigInv
<1>1. ConfigInv /\ [ConfigNext]_configVars => ConfigInv'
  BY ConfigTypeStep, BeforeTheWalkStep, OffsetStep, SeenStep, RangeStep DEF ConfigInv
<1> QED
  BY <1>1, ConfigInitInv, PTL DEF ConfigSpec

(* The first offset is legal on every device, and every later one on a     *)
(* device with a well-formed list, whenever it is removed.                 *)
THEOREM OffsetsAlwaysLegal == ConfigSpec => []OffsetsLegal
<1>1. ConfigInv => OffsetsLegal
  BY DEF ConfigInv
<1> QED
  BY <1>1, ConfigInvariant, PTL

(* The walk over a well-formed list sees its capabilities in order, each   *)
(* once, and all of them when it ends.                                     *)
THEOREM WalkAlwaysFollowsChain == ConfigSpec => []WalkFollowsChain
<1>1. ConfigInv => WalkFollowsChain
  <2> SUFFICES ASSUME ConfigInv, present, WellFormed(device) PROVE WalkFollowsChain
    BY DEF WalkFollowsChain
  <2>1. PICK n \in 0..Len(device.chain) : SeenFirst(n)
    BY DEF ConfigInv, SeenPart
  <2>2. Len(device.chain) \in Nat
    BY DeviceShape DEF ConfigInv, ConfigTypeOK
  <2> QED
    <3>1. Cardinality(visited) = n
      BY <2>1 DEF SeenFirst
    <3>2. n <= Len(device.chain)
      BY <2>1, <2>2
    <3>3. /\ visited = {device.chain[k] : k \in 1..Cardinality(visited)}
          /\ at = "walking" =>
               offset = IF Cardinality(visited) = Len(device.chain) THEN 0
                        ELSE device.chain[Cardinality(visited) + 1]
          /\ at \notin {"status", "pointer", "walking"} => Cardinality(visited) = Len(device.chain)
      BY <2>1, <3>1 DEF SeenFirst
    <3> QED
      BY <3>1, <3>2, <3>3 DEF WalkFollowsChain
<1> QED
  BY <1>1, ConfigInvariant, PTL

(* A register that begins a range always gets its type.                    *)
THEOREM RangeAlwaysStartsRight == ConfigSpec => []RangeStartsRight
<1>1. ConfigInv => RangeStartsRight
  BY DEF ConfigInv
<1> QED
  BY <1>1, ConfigInvariant, PTL
=============================================================================

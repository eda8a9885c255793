------------------------- MODULE PCIInterruptRanges -------------------------
(***************************************************************************)
(* djt_iopcidevice_find_interrupt_ranges (iopcidevice_helpers.cpp): one    *)
(* scan over the interrupt sources of a PCI device that finds which of     *)
(* their indices are pin interrupts and which are message-signalled.       *)
(***************************************************************************)
EXTENDS Integers, FiniteSets

CONSTANT
  Counts  (* The numbers of interrupt sources a device may have.           *)

ASSUME CountsAssumption == Counts \subseteq Nat /\ Counts # {}

Kinds == {"pin", "msi"}

VARIABLES
  kinds,      (* The device: the kind of interrupt at each index.          *)
  intr_index,
  irq_pin_start, irq_pin_end, msi_start, msi_end,
  pin, msi,   (* pin_started and pin_done, msi_started and msi_done: a     *)
              (* range is "unseen", "started" or "done".                 *)
  warned,     (* The indices a warning was logged for.                     *)
  returned

ranges == <<irq_pin_start, irq_pin_end, msi_start, msi_end>>
flags == <<pin, msi>>
vars == <<kinds, intr_index, ranges, flags, warned, returned>>

Init ==
  /\ \E n \in Counts : kinds \in [0..n - 1 -> Kinds]
  /\ intr_index = 0
  /\ irq_pin_start = -1 /\ irq_pin_end = -1
  /\ msi_start = -1 /\ msi_end = -1
  /\ pin = "unseen" /\ msi = "unseen"
  /\ warned = {}
  /\ returned = FALSE

(* getInterruptType succeeds at the index and finds a source of a kind.    *)
Found(kind) ==
  /\ ~returned
  /\ intr_index \in DOMAIN kinds
  /\ kinds[intr_index] = kind
  /\ intr_index' = intr_index + 1
  /\ UNCHANGED <<kinds, returned>>

(* A second range of a kind is not expected.                               *)
UnexpectedMSI ==
  /\ Found("msi")
  /\ msi = "done"
  /\ warned' = warned \union {intr_index}
  /\ UNCHANGED <<ranges, flags>>

(* Mutated form of StartMSI: the other range is not closed.                *)
StartMSILeavingPinOpen ==
  /\ Found("msi")
  /\ msi = "unseen"
  /\ msi' = "started"
  /\ msi_start' = intr_index
  /\ msi_end' = intr_index + 1
  /\ UNCHANGED <<irq_pin_start, irq_pin_end, pin, warned>>

(* Mutated form of StartMSI: one index too early.                          *)
StartMSIBeforeIndex ==
  /\ Found("msi")
  /\ msi = "unseen"
  /\ pin' = IF pin = "started" THEN "done" ELSE pin
  /\ msi' = "started"
  /\ msi_start' = intr_index - 2
  /\ msi_end' = intr_index + 1
  /\ UNCHANGED <<irq_pin_start, irq_pin_end, warned>>

(* The first source of the kind: the other kind's range ends with it.      *)
StartMSI ==
  /\ Found("msi")
  /\ msi = "unseen"
  /\ pin' = IF pin = "started" THEN "done" ELSE pin
  /\ msi' = "started"
  /\ msi_start' = intr_index
  /\ msi_end' = intr_index + 1
  /\ UNCHANGED <<irq_pin_start, irq_pin_end, warned>>

(* Mutated form of ExtendMSI: an end that is inclusive.                    *)
ExtendMSIInclusive ==
  /\ Found("msi")
  /\ msi = "started"
  /\ msi_end' = intr_index
  /\ UNCHANGED <<irq_pin_start, irq_pin_end, msi_start, flags, warned>>

ExtendMSI ==
  /\ Found("msi")
  /\ msi = "started"
  /\ msi_end' = intr_index + 1
  /\ UNCHANGED <<irq_pin_start, irq_pin_end, msi_start, flags, warned>>

UnexpectedPin ==
  /\ Found("pin")
  /\ pin = "done"
  /\ warned' = warned \union {intr_index}
  /\ UNCHANGED <<ranges, flags>>

StartPin ==
  /\ Found("pin")
  /\ pin = "unseen"
  /\ msi' = IF msi = "started" THEN "done" ELSE msi
  /\ pin' = "started"
  /\ irq_pin_start' = intr_index
  /\ irq_pin_end' = intr_index + 1
  /\ UNCHANGED <<msi_start, msi_end, warned>>

ExtendPin ==
  /\ Found("pin")
  /\ pin = "started"
  /\ irq_pin_end' = intr_index + 1
  /\ UNCHANGED <<irq_pin_start, msi_start, msi_end, flags, warned>>

(* getInterruptType fails: no more interrupt sources.                      *)
Return ==
  /\ ~returned
  /\ intr_index \notin DOMAIN kinds
  /\ returned' = TRUE
  /\ UNCHANGED <<kinds, intr_index, ranges, flags, warned>>

Next ==
  \/ UnexpectedMSI \/ StartMSI \/ ExtendMSI
  \/ UnexpectedPin \/ StartPin \/ ExtendPin
  \/ Return

Spec == Init /\ [][Next]_vars

-----------------------------------------------------------------------------
(* The indices in each range; empty for a range that was never started.    *)
PinRange == {k \in DOMAIN kinds : irq_pin_start <= k /\ k < irq_pin_end}
MSIRange == {k \in DOMAIN kinds : msi_start <= k /\ k < msi_end}

(* The sources of a kind that have been seen.                              *)
Seen(kind) == {k \in DOMAIN kinds : k < intr_index /\ kinds[k] = kind}

Contiguous(S) == \A x, y \in S : x..y \subseteq S

TypeOK ==
  /\ \E n \in Counts : kinds \in [0..n - 1 -> Kinds] /\ intr_index \in 0..n
  /\ {irq_pin_start, irq_pin_end, msi_start, msi_end} \subseteq Nat \union {-1}
  /\ {pin, msi} \subseteq {"unseen", "started", "done"}
  /\ returned \in BOOLEAN
  /\ warned \subseteq DOMAIN kinds

(***************************************************************************)
(* No index is in both ranges, however the device interleaves its sources: *)
(* two handlers are never registered for the same interrupt.               *)
(***************************************************************************)
RangesDisjoint == PinRange \intersect MSIRange = {}

(***************************************************************************)
(* A source is never left out of the range of its kind without a warning.  *)
(***************************************************************************)
NoneDroppedSilently ==
  /\ Seen("pin") \subseteq PinRange \union warned
  /\ Seen("msi") \subseteq MSIRange \union warned

(***************************************************************************)
(* On a device whose sources of each kind are contiguous, in whichever     *)
(* order the kinds come, the ranges are exactly the sources of each kind   *)
(* and nothing is warned about.                                            *)
(***************************************************************************)
ContiguousIsExact ==
  Contiguous(Seen("pin")) /\ Contiguous(Seen("msi")) =>
    PinRange = Seen("pin") /\ MSIRange = Seen("msi") /\ warned = {}

(***************************************************************************)
(* The inductive invariant: the scan is in one of five phases.  In the     *)
(* last two the first range is closed, the second one ends with a source   *)
(* of its kind, and what was warned about is what the first range missed.  *)
(***************************************************************************)
NoneSeen ==
  /\ pin = "unseen" /\ msi = "unseen"
  /\ irq_pin_start = -1 /\ irq_pin_end = -1
  /\ msi_start = -1 /\ msi_end = -1
  /\ intr_index = 0
  /\ warned = {}

(* Every source so far is of the kind whose range is first..last - 1.      *)
OneKind(kind, first, last) ==
  /\ first = 0 /\ last = intr_index /\ intr_index > 0
  /\ \A k \in 0..last - 1 : kinds[k] = kind
  /\ warned = {}

OnlyPin ==
  /\ pin = "started" /\ msi = "unseen"
  /\ msi_start = -1 /\ msi_end = -1
  /\ OneKind("pin", irq_pin_start, irq_pin_end)

OnlyMSI ==
  /\ msi = "started" /\ pin = "unseen"
  /\ irq_pin_start = -1 /\ irq_pin_end = -1
  /\ OneKind("msi", msi_start, msi_end)

BothKinds(first, start1, end1, second, start2, end2) ==
  /\ start1 = 0 /\ end1 > 0 /\ start2 = end1
  /\ end2 > start2 /\ end2 <= intr_index
  /\ \A k \in 0..end1 - 1 : kinds[k] = first
  /\ kinds[start2] = second
  /\ kinds[end2 - 1] = second
  /\ \A k \in start2..intr_index - 1 : kinds[k] = second => k < end2
  /\ warned = {k \in start2..intr_index - 1 : kinds[k] # second}

PinThenMSI ==
  /\ pin = "done" /\ msi = "started"
  /\ BothKinds("pin", irq_pin_start, irq_pin_end, "msi", msi_start, msi_end)

MSIThenPin ==
  /\ msi = "done" /\ pin = "started"
  /\ BothKinds("msi", msi_start, msi_end, "pin", irq_pin_start, irq_pin_end)

IInv ==
  /\ TypeOK
  /\ NoneSeen \/ OnlyPin \/ OnlyMSI \/ PinThenMSI \/ MSIThenPin

(***************************************************************************)
(* "exclusive (count = end - start)" (iopcidevice_helpers.hpp:64): the     *)
(* length of a range that was found is a number of sources of its kind.    *)
(***************************************************************************)
RangeCountsItsKind ==
  /\ irq_pin_end - irq_pin_start <= Cardinality(Seen("pin"))
  /\ msi_end - msi_start <= Cardinality(Seen("msi"))
=============================================================================

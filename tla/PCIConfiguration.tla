-------------------------- MODULE PCIConfiguration --------------------------
(***************************************************************************)
(* What iopcidevice_helpers.cpp reads from a PCI device's configuration    *)
(* space: the walk over its capability list and the classification of its  *)
(* base address registers.  The device supplies every value; it may be     *)
(* removed between any two reads, and a register of a removed device reads *)
(* as all ones.                                                            *)
(***************************************************************************)
EXTENDS Integers, Sequences, FiniteSets

CONSTANTS
  Devices,   (* Devices, as below.                                         *)
  Probed     (* Registers a driver asks memory_range_type about.           *)

Byte == 0..255

(* kIOPCIConfigBaseAddress0 to kIOPCIConfigBaseAddress5.                   *)
kIOPCIConfigBaseAddress0 == 16
kIOPCIConfigBaseAddress1 == 20
kIOPCIConfigBaseAddress5 == 36
BaseAddresses == {16, 20, 24, 28, 32, 36}

(* What a base address register is on the device.                          *)
Roles == {"io", "memory32", "below_1M", "memory64", "upper_half"}

(* A device: the capability bit of its status register, its capabilities   *)
(* pointer, its bytes; the low three bits of its base address registers;   *)
(* and what it means by them, which the helpers have to find out.          *)
Device ==
  [capable : BOOLEAN, pointer : Byte, bytes : [Byte -> Byte],
   bars : [BaseAddresses -> 0..7],
   chain : Seq(64..255), roles : [BaseAddresses -> Roles]]

(* The low bits of a register that begins a range say what it is; those of *)
(* an upper half are address bits.                                         *)
LowBits(role) ==
  CASE role = "io" -> {1, 5}
    [] role = "memory32" -> {0}
    [] role = "below_1M" -> {2}
    [] role = "memory64" -> {4}
    [] role = "upper_half" -> 0..7

ASSUME DevicesAssumption ==
  \A d \in Devices :
    /\ d \in Device
    /\ \A reg \in BaseAddresses :
         /\ d.bars[reg] \in LowBits(d.roles[reg])
         /\ d.roles[reg] = "upper_half" <=> reg # 16 /\ d.roles[reg - 4] = "memory64"
    /\ d.roles[36] # "memory64"

ASSUME ProbedAssumption == Probed \subseteq Byte

VARIABLES
  device,
  present,   (* The device has not been removed.                           *)
  at,        (* Where the driver is.                                       *)
  offset,    (* first_capability_offset, then what next returned.          *)
  visited,   (* The capabilities the driver has seen.                      *)
  reg, result

walkVars == <<offset, visited>>
rangeVars == <<reg, result>>
configVars == <<device, present, at, walkVars, rangeVars>>

ConfigInit ==
  /\ device \in Devices
  /\ present = TRUE
  /\ at = "status"
  /\ offset = 0 /\ visited = {}
  /\ reg = 0 /\ result = "none"

Trans(from, to) == at = from /\ at' = to

(* Surprise removal, of a Thunderbolt device for instance.                 *)
SurpriseRemoval ==
  /\ present
  /\ present' = FALSE
  /\ UNCHANGED <<device, at, walkVars, rangeVars>>

configRead8(at8) == IF present THEN device.bytes[at8] ELSE 255
BaseAddressBits(r) == IF present THEN device.bars[r] ELSE 7

-----------------------------------------------------------------------------
(* djt_iopcidevice_first_capability_offset *)

HasCapabilities == ~present \/ device.capable

NoCapabilities ==
  /\ Trans("status", "walking")
  /\ ~HasCapabilities
  /\ UNCHANGED <<device, present, walkVars, rangeVars>>

ReadStatus ==
  /\ Trans("status", "pointer")
  /\ HasCapabilities
  /\ UNCHANGED <<device, present, walkVars, rangeVars>>

(* Mutated form of IsLegal: the alignment is not tested.                   *)
IsInRange(first) == first >= 64

IsLegal(first) == first >= 64 /\ first % 4 = 0

ReadPointer ==
  /\ Trans("pointer", "walking")
  /\ LET first == IF present THEN device.pointer ELSE 255
     IN  offset' = IF IsLegal(first) THEN first ELSE 0
  /\ UNCHANGED <<device, present, visited, rangeVars>>

-----------------------------------------------------------------------------
(* djt_iopcidevice_next_capability_offset, called until it returns 0.      *)

(* Mutated form of NextPointer: the pointer next to the status register.   *)
NextFromHead(prev) == IF present THEN device.pointer ELSE 255

(* Mutated form of NextPointer: the byte with the capability's id.         *)
NextFromId(prev) == configRead8(prev)

(* The offset is a UInt8: after 0xff comes 0.                              *)
NextPointer(prev) == configRead8((prev + 1) % 256)

Visit ==
  /\ at = "walking" /\ offset # 0
  /\ visited' = visited \union {offset}
  /\ offset' = NextPointer(offset)
  /\ UNCHANGED <<device, present, at, rangeVars>>

WalkDone ==
  /\ Trans("walking", "idle")
  /\ offset = 0
  /\ UNCHANGED <<device, present, walkVars, rangeVars>>

-----------------------------------------------------------------------------
(* djt_iopcidevice_register_for_range_index *)
RegisterForRangeIndex(index) ==
  kIOPCIConfigBaseAddress0 + index * (kIOPCIConfigBaseAddress1 - kIOPCIConfigBaseAddress0)

(* A driver asks about a register, or about the range with an index.       *)
Classify ==
  /\ Trans("idle", "checking")
  /\ reg' \in Probed \union {RegisterForRangeIndex(index) : index \in 0..5}
  /\ result' = "none"
  /\ UNCHANGED <<device, present, walkVars>>

(* djt_iopcidevice_memory_range_type *)

Classified(type, from) ==
  /\ Trans(from, "idle")
  /\ result' = type
  /\ UNCHANGED <<device, present, walkVars, reg>>

IsBaseAddress ==
  /\ reg >= kIOPCIConfigBaseAddress0
  /\ reg <= kIOPCIConfigBaseAddress5
  /\ reg % 4 = 0

NotABaseAddress == Classified("error", "checking") /\ ~IsBaseAddress

(* The type bits where they are in the register, and shifted down.         *)
MaskedType(bits) == bits - (bits % 2)
ShiftedType(bits) == MaskedType(bits) \div 2

(* The register before this one is read and tested.                        *)
LooksLikeUpperHalf ==
  /\ reg # kIOPCIConfigBaseAddress0
  /\ LET even_bar_val == BaseAddressBits(reg - 4)
     IN  even_bar_val % 2 = 0 /\ MaskedType(even_bar_val) = 2

RefuseUpperHalf == Classified("error", "checking") /\ IsBaseAddress /\ LooksLikeUpperHalf

PassUpperHalfTest ==
  /\ Trans("checking", "reading")
  /\ IsBaseAddress /\ ~LooksLikeUpperHalf
  /\ UNCHANGED <<device, present, walkVars, rangeVars>>

(* Mutated form of TypeFrom: the bits are not shifted.                     *)
TypeFromMasked(bits) ==
  CASE bits % 2 # 0 -> "io"
    [] bits % 2 = 0 /\ MaskedType(bits) = 0 -> "memory32"
    [] bits % 2 = 0 /\ MaskedType(bits) = 2 /\ reg # kIOPCIConfigBaseAddress5 -> "memory64"
    [] OTHER -> "error"

(* kIOPCIIOSpace, kIOPCI32BitMemorySpace, kIOPCI64BitMemorySpace or -1.    *)
TypeFrom(bits) ==
  CASE bits % 2 # 0 -> "io"
    [] bits % 2 = 0 /\ ShiftedType(bits) = 0 -> "memory32"
    [] bits % 2 = 0 /\ ShiftedType(bits) = 2 /\ reg # kIOPCIConfigBaseAddress5 -> "memory64"
    [] OTHER -> "error"

ReadRegister == Classified(TypeFrom(BaseAddressBits(reg)), "reading")

-----------------------------------------------------------------------------
Driver ==
  \/ NoCapabilities \/ ReadStatus \/ ReadPointer \/ Visit \/ WalkDone
  \/ Classify
  \/ NotABaseAddress \/ RefuseUpperHalf \/ PassUpperHalfTest \/ ReadRegister

ConfigNext == Driver \/ SurpriseRemoval

ConfigSpec == ConfigInit /\ [][ConfigNext]_configVars /\ WF_configVars(Driver)

-----------------------------------------------------------------------------
(* Where a capability may be.                                             *)
CapabilityOffsets == {o \in 64..255 : o % 4 = 0}

(* A list as the PCI specification has it: the chain of the device, whose  *)
(* capabilities are aligned, outside the header, and none of them twice.   *)
WellFormed(d) ==
  /\ d.capable = (d.chain # <<>>)
  /\ \A k \in DOMAIN d.chain :
       /\ d.chain[k] \in CapabilityOffsets
       /\ d.bytes[d.chain[k] + 1] = IF k = Len(d.chain) THEN 0 ELSE d.chain[k + 1]
       /\ \A j \in DOMAIN d.chain : d.chain[j] = d.chain[k] => j = k
  /\ d.chain # <<>> => d.pointer = d.chain[1]

(* The first offset is 0 or that of a capability, whatever the device says *)
(* and however early it goes: the all ones of a removed device pass the    *)
(* status test.  On a device with a well-formed list the assertion of the  *)
(* next-capability function holds through a removal as well.               *)
OffsetsLegal ==
  /\ at = "walking" /\ visited = {} => offset \in CapabilityOffsets \union {0}
  /\ WellFormed(device) => offset = 0 \/ offset >= 64

(* The walk sees the capabilities of a well-formed list in their order,    *)
(* each once, and when it ends it has seen all of them.                    *)
WalkFollowsChain ==
  present /\ WellFormed(device) =>
    LET n == Cardinality(visited) IN
    /\ n <= Len(device.chain)
    /\ visited = {device.chain[k] : k \in 1..n}
    /\ at = "walking" => offset = IF n = Len(device.chain) THEN 0 ELSE device.chain[n + 1]
    /\ at \notin {"status", "pointer", "walking"} => n = Len(device.chain)

(* The walk over a well-formed list ends if the device stays.  (A malformed *)
(* list may be circular, and one that is cut short by a removal leads to   *)
(* 0xff for ever; the comment on the function says that it defends against *)
(* neither.)                                                               *)
WalkEnds == WellFormed(device) /\ []present => <>(at = "idle")

(* A register that begins a range gets its type, unless the register       *)
(* before it reads like a below-1M one, which is all that is ever taken    *)
(* for a lower half.                                                       *)
RightType(role) == IF role = "below_1M" THEN "error" ELSE role

RangeStartsRight ==
  /\ at = "idle" /\ result # "none" /\ present
  /\ reg \in BaseAddresses
  /\ device.roles[reg] # "upper_half"
  /\ reg = 16 \/ device.bars[reg - 4] # 2
  => result = RightType(device.roles[reg])

(* "registers other than 0 can be second half of 64-bit BAR, so check      *)
(* that's not the case" (iopcidevice_helpers.cpp:108): the upper half of a *)
(* 64-bit register is not given a type of its own.                         *)
UpperHalfRefused ==
  /\ at = "idle" /\ result # "none" /\ present
  /\ reg \in BaseAddresses
  /\ device.roles[reg] = "upper_half"
  => result = "error"

-----------------------------------------------------------------------------
(* The inductive invariant.                                                *)
ConfigTypeOK ==
  /\ device \in Devices
  /\ present \in BOOLEAN
  /\ at \in {"status", "pointer", "walking", "idle", "checking", "reading"}
  /\ offset \in Byte /\ visited \subseteq Byte
  /\ reg \in Int

BeforeTheWalk ==
  /\ at \in {"status", "pointer"} => offset = 0 /\ visited = {}
  /\ at \in {"status", "pointer", "walking"} => result = "none"
  /\ at = "pointer" /\ present => device.capable

(* What next returns on a well-formed list: all ones after a removal.      *)
OffsetInChain ==
  WellFormed(device) =>
    \/ offset = 0
    \/ \E k \in DOMAIN device.chain : offset = device.chain[k]
    \/ offset = 255 /\ ~present

(* The first n capabilities have been seen.                                *)
SeenFirst(n) ==
  /\ visited = {device.chain[k] : k \in 1..n}
  /\ Cardinality(visited) = n
  /\ at \in {"status", "pointer"} => n = 0
  /\ at = "walking" => offset = IF n = Len(device.chain) THEN 0 ELSE device.chain[n + 1]
  /\ at \notin {"status", "pointer", "walking"} => n = Len(device.chain)

SeenPart == present /\ WellFormed(device) => \E n \in 0..Len(device.chain) : SeenFirst(n)

ConfigInv ==
  /\ ConfigTypeOK
  /\ BeforeTheWalk
  /\ OffsetsLegal
  /\ OffsetInChain
  /\ SeenPart
  /\ RangeStartsRight
=============================================================================

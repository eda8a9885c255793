---------------------------- MODULE MCPCIDevice ----------------------------
(* Model-checking instance of the PCI helpers: a driver that walks the     *)
(* capabilities, classifies base addresses and scans the interrupts of one *)
(* device.  A device is interesting in one of the three respects at a time. *)
EXTENDS PCIConfiguration, PCIInterruptRanges, SequencesExt

CONSTANTS
  ChainOffsets,  (* Where capabilities may be.                             *)
  Pointers       (* Bytes that malformed devices have for pointers.        *)

Plain ==
  [capable |-> FALSE, pointer |-> 0, bytes |-> [b \in Byte |-> 0],
   bars |-> [r \in BaseAddresses |-> 0],
   chain |-> <<>>, roles |-> [r \in BaseAddresses |-> "memory32"]]

(* Every list of distinct capabilities; each has a nonzero id byte.        *)
Chains == UNION {{s \in [1..n -> ChainOffsets] : IsInjective(s)} : n \in 0..Cardinality(ChainOffsets)}

WithChain(s) ==
  [Plain EXCEPT
    !.capable = s # <<>>,
    !.pointer = IF s = <<>> THEN 0 ELSE s[1],
    !.chain = s,
    !.bytes = [b \in Byte |->
      IF b \in ToSet(s) THEN 5
      ELSE IF b - 1 \in ToSet(s) /\ b - 1 # Last(s)
           THEN s[1 + CHOOSE k \in DOMAIN s : s[k] = b - 1]
           ELSE 0]]

(* Devices whose pointers lead anywhere.                                   *)
Malformed ==
  {[Plain EXCEPT !.capable = TRUE, !.pointer = p,
     !.bytes = [b \in Byte |-> LET q == (b + 255) % 256
                               IN  IF q \in Pointers THEN f[q] ELSE 0]] :
     p \in Pointers, f \in [Pointers -> Pointers \union {0}]}

(* Every layout of base address registers, with the low bits that          *)
(* distinguish upper halves.                                               *)
Layouts ==
  {r \in [BaseAddresses -> Roles] :
     /\ \A b \in BaseAddresses :
          r[b] = "upper_half" <=> b # 16 /\ r[b - 4] = "memory64"
     /\ r[36] # "memory64"}

Low(role) == IF role = "upper_half" THEN {0, 1, 2, 4} ELSE {CHOOSE x \in LowBits(role) : TRUE}

WithLayout(r) ==
  {[Plain EXCEPT !.roles = r, !.bars = b] :
     b \in {f \in [BaseAddresses -> {0, 1, 2, 4, 5}] :
              \A x \in BaseAddresses : f[x] \in Low(r[x])}}

(* Two neighbours decide a type, so a layout may vary in its first three   *)
(* registers or in its last three.                                         *)
PartLayouts ==
  {r \in Layouts : \/ \A b \in {28, 32, 36} : r[b] \in {"memory32", "upper_half"}
                   \/ \A b \in {16, 20} : r[b] = "memory32"}

MCDevices ==
  {Plain} \union {WithChain(s) : s \in Chains} \union Malformed
    \union UNION {WithLayout(r) : r \in PartLayouts}

DeviceInit ==
  /\ ConfigInit /\ Init
  /\ device = Plain \/ kinds = <<>>

DeviceNext ==
  \/ ConfigNext /\ UNCHANGED vars
  \/ Next /\ UNCHANGED configVars

DeviceSpec ==
  DeviceInit /\ [][DeviceNext]_<<configVars, vars>> /\ WF_configVars(Driver)
=============================================================================

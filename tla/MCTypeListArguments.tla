------------------------ MODULE MCTypeListArguments ------------------------
(* Model-checking instance of TypeListArguments: every parameter list of   *)
(* at most MaxParams of the types that any specialisation tells apart, and *)
(* some of every length up to eight.                                       *)
EXTENDS TypeListArguments

CONSTANT MaxParams

MCSizeOf == [uint64_t |-> 8, uint32_t |-> 4, size_t |-> 8, void |-> 1,
             ipc_port |-> 0, Struct |-> 16]

MCTypeNames == DOMAIN MCSizeOf

MCTypes ==
  {uint32_t, size_t, uint64Ptr, mach_port_t, voidPtr, constVoidPtr,
   [form |-> "pointer", of |-> "Struct"], [form |-> "const pointer", of |-> "Struct"]}

(* The longest kind of method: asynchronous, with structs and scalars.     *)
Longest ==
  {<<mach_port_t, uint64Ptr, uint32_t, constVoidPtr, size_t, voidPtr, uint32_t, uint64Ptr>>,
   <<uint32_t, uint64Ptr, mach_port_t, uint64Ptr, uint32_t, uint32_t, voidPtr, size_t>>}

MCSignatures ==
  UNION {[1..n -> MCTypes] : n \in 0..MaxParams}
    \union {SubSeq(s, 1, n) : s \in Longest, n \in 5..8}
=============================================================================

-------------------------- MODULE MCUserClientCall --------------------------
(* Model-checking instance of UserClientCall: one signature for each kind  *)
(* of parameter and for the pairs of kinds that share a member.            *)
EXTENDS UserClientCall

MCSizeOf == [uint64_t |-> 3, uint32_t |-> 1, size_t |-> 3, void |-> 1,
             ipc_port |-> 0, Struct |-> 2]
MCTypeNames == DOMAIN MCSizeOf

structPtr == [form |-> "pointer", of |-> "Struct"]
constStructPtr == [form |-> "const pointer", of |-> "Struct"]

MCSignatures ==
  {<<>>,
   <<uint32_t, uint64Ptr, size_t>>,
   <<mach_port_t, io_user_reference_ptr, uint32_t, uint32_t>>,
   <<constStructPtr, structPtr>>,
   <<uint64Ptr, constVoidPtr, size_t, structPtr>>,
   <<constStructPtr, voidPtr, size_t>>,
   <<structPtr, structPtr>>}
=============================================================================

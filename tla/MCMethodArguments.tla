------------------------- MODULE MCMethodArguments -------------------------
(* Model-checking instance of MethodArguments: every parameter list of at  *)
(* most MaxParams types.                                                   *)
EXTENDS MethodArguments

CONSTANT MaxParams

MCSizeOf == [uint64_t |-> 8, uint32_t |-> 4, size_t |-> 8, void |-> 1,
             ipc_port |-> 0, Struct |-> 16, Empty |-> 0]

MCTypeNames == DOMAIN MCSizeOf

MCTypes ==
  {[form |-> "value", of |-> name] : name \in {"uint32_t", "uint64_t", "size_t"}} \union
  {[form |-> "pointer", of |-> name] :
     name \in {"uint64_t", "ipc_port", "void", "Struct", "Empty"}} \union
  {[form |-> "const pointer", of |-> name] : name \in {"void", "Struct", "Empty"}}

MCSignatures == UNION {[1..n -> MCTypes] : n \in 0..MaxParams}
=============================================================================

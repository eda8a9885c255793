-------------------------- MODULE TypeListArguments --------------------------
(***************************************************************************)
(* userclient.hpp for compilers without variadic templates: the parameters *)
(* are a linked type list, limits are computed as in MethodArguments, but  *)
(* arg_seq_accum can only put a selector in front of the list it has.  The *)
(* list comes out backwards and reverse_typelist turns it round; then      *)
(* apply_fn picks the selectors by index.                                  *)
(***************************************************************************)
EXTENDS MethodArguments, SequencesExt

(* userclient_method is spelt out for up to eight parameters.              *)
MaxArity == 8

ASSUME ArityAssumption == \A sig \in Signatures : Len(sig) <= MaxArity

VARIABLE reversed  (* REVERSED; in the end, gen_args.                      *)

listVars == <<templateVars, reversed>>

ListInit == Init /\ reversed = <<>>

ListDescribe == Describe /\ UNCHANGED reversed

-----------------------------------------------------------------------------
(* arg_seq_accum                                                           *)

Prepend(selectors) ==
  /\ seq' = selectors \o seq
  /\ UNCHANGED <<limits, reversed>>

(* Mutated form of ListAsync: in the order of the variadic templates.      *)
ListAsyncForwards ==
  /\ ConsumeGroup("arg_seq_accum", AsyncTriple)
  /\ Prepend(<<Selector("asyncWakePort", 0, mach_port_t),
               Selector("asyncReference", 0, io_user_reference_ptr),
               Selector("asyncReferenceCount", 0, uint32_t)>>)
  /\ UNCHANGED <<next_input, next_output>>

ListAsync ==
  /\ ConsumeGroup("arg_seq_accum", AsyncTriple)
  /\ Prepend(<<Selector("asyncReferenceCount", 0, uint32_t),
               Selector("asyncReference", 0, io_user_reference_ptr),
               Selector("asyncWakePort", 0, mach_port_t)>>)
  /\ UNCHANGED <<next_input, next_output>>

ListVariableInput ==
  /\ ConsumeGroup("arg_seq_accum", VariableInput)
  /\ Prepend(<<Selector("structureInputSize", 0, size_t),
               Selector("structureInput", 0, constVoidPtr)>>)
  /\ UNCHANGED <<next_input, next_output>>

ListVariableOutput ==
  /\ ConsumeGroup("arg_seq_accum", VariableOutput)
  /\ Prepend(<<Selector("structureOutputSize", 0, size_t),
               Selector("structureOutput", 0, voidPtr)>>)
  /\ UNCHANGED <<next_input, next_output>>

ListOne(member, index) ==
  /\ ConsumeOne("arg_seq_accum", SelectorGroups)
  /\ Prepend(<<Selector(member, index, First("arg_seq_accum"))>>)

ListFixedInput ==
  /\ ListOne("structureInput", 0)
  /\ First("arg_seq_accum").form = "const pointer"
  /\ UNCHANGED <<next_input, next_output>>

ListFixedOutput ==
  /\ ListOne("structureOutput", 0)
  /\ StructPointer(First("arg_seq_accum"))
  /\ UNCHANGED <<next_input, next_output>>

ListScalarInput ==
  /\ ListOne("scalarInput", next_input)
  /\ First("arg_seq_accum").form = "value"
  /\ next_input' = next_input + 1
  /\ UNCHANGED next_output

ListScalarOutput ==
  /\ ListOne("scalarOutput", next_output)
  /\ First("arg_seq_accum") = uint64Ptr
  /\ next_output' = next_output + 1
  /\ UNCHANGED next_input

(* Mutated form of MoveFirst: the items are put behind each other.         *)
MoveFirstBehind ==
  /\ Described
  /\ seq # <<>>
  /\ reversed' = Append(reversed, Head(seq))
  /\ seq' = Tail(seq)
  /\ UNCHANGED <<params, consumed, rejected, limits, next_input, next_output>>

(* reverse_typelist                                                        *)
MoveFirst ==
  /\ Described
  /\ seq # <<>>
  /\ reversed' = <<Head(seq)>> \o reversed
  /\ seq' = Tail(seq)
  /\ UNCHANGED <<params, consumed, rejected, limits, next_input, next_output>>

ListNext ==
  \/ ListDescribe
  \/ ListAsync \/ ListVariableInput \/ ListVariableOutput
  \/ ListFixedInput \/ ListFixedOutput \/ ListScalarInput \/ ListScalarOutput
  \/ MoveFirst

ListSpec == ListInit /\ [][ListNext]_listVars

-----------------------------------------------------------------------------
(* TypeListItemIndex<gen_args, k>                                          *)
GenArg(k) == reversed[k + 1]

(* The arguments that apply_fn passes to a method: each number of          *)
(* parameters has a definition of its own that lists the indices.          *)
Arguments == [k \in DOMAIN params |-> GenArg(k - 1)]

(* The types apply_fn passes to the method are the method's own, each in   *)
(* its place, however long the list was.                                   *)
ArgumentsInPlace ==
  Described /\ seq = <<>> => \A k \in DOMAIN params : Arguments[k].type = params[k]

(* The type lists implement the variadic templates: a user client compiled *)
(* either way has the same limits and reads the same elements.             *)
Variadic == INSTANCE MethodArguments WITH seq <- Reverse(seq) \o reversed

ImplementsVariadic == Variadic!Spec
=============================================================================

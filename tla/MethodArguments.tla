--------------------------- MODULE MethodArguments ---------------------------
(***************************************************************************)
(* The templates of userclient.hpp that describe an external method to     *)
(* IOKit from the parameter list of a C++ member function.  Six templates  *)
(* recurse over the same list: four compute the limits that                *)
(* IOUserClient checks before the method is called, one says whether the   *)
(* method is asynchronous, and arg_seq_accum selects the element of        *)
(* IOExternalMethodArguments each parameter is read from.  Each has partial *)
(* specialisations of its own; that they split every list in the same way  *)
(* is what keeps the method inside the arrays that were checked.           *)
(*                                                                         *)
(* A specialisation is an action: it matches the parameters that are left  *)
(* and hands the rest to the next instance of its template.                *)
(***************************************************************************)
EXTENDS Integers, Sequences, FiniteSets

CONSTANTS
  TypeNames,   (* Names of types without pointers.                         *)
  SizeOf,      (* Their sizes; 0 for a type that sizeof or a static_assert *)
               (* rejects: incomplete, or without members.                 *)
  Signatures   (* Parameter lists of external methods.                     *)

(* A parameter's type as partial specialisation sees it: T, T* or const T*. *)
Type == [form : {"value", "pointer", "const pointer"}, of : TypeNames]

ASSUME TypesAssumption ==
  /\ {"uint64_t", "uint32_t", "size_t", "void", "ipc_port"} \subseteq TypeNames
  /\ SizeOf \in [TypeNames -> Nat]

ASSUME SignaturesAssumption == \A sig \in Signatures : sig \in Seq(Type)

uint32_t == [form |-> "value", of |-> "uint32_t"]
size_t == [form |-> "value", of |-> "size_t"]
voidPtr == [form |-> "pointer", of |-> "void"]
constVoidPtr == [form |-> "const pointer", of |-> "void"]
uint64Ptr == [form |-> "pointer", of |-> "uint64_t"]
(* In the kernel a port is a pointer, and io_user_reference_t a uint64_t.  *)
mach_port_t == [form |-> "pointer", of |-> "ipc_port"]
io_user_reference_ptr == uint64Ptr

(* The groups of parameters that are matched together.                     *)
AsyncTriple == <<mach_port_t, io_user_reference_ptr, uint32_t>>
VariableInput == <<constVoidPtr, size_t>>
VariableOutput == <<voidPtr, size_t>>

(* 0xffffffff in the templates' int: no struct has this size.              *)
kIOUCVariableStructureSize == -1

Order == [scalar_input_arg_count |-> 1, scalar_output_arg_count |-> 2,
          struct_input_arg_size |-> 3, struct_output_arg_size |-> 4,
          is_async_method |-> 5, arg_seq_accum |-> 6]
Templates == DOMAIN Order

VARIABLES
  params,       (* The parameter list.                                     *)
  consumed,     (* How many parameters each template is past.              *)
  rejected,     (* A static_assert failed: the class does not compile.     *)
  inputs, outputs,                     (* Scalars counted.                 *)
  struct_input_size, struct_output_size,
  is_async,
  next_input, next_output,             (* NEXT_INPUT and NEXT_OUTPUT.      *)
  seq           (* The argument selectors, one for each parameter passed.  *)

limits == <<inputs, outputs, struct_input_size, struct_output_size, is_async>>
selection == <<next_input, next_output, seq>>
templateVars == <<params, consumed, rejected, limits, selection>>

Init ==
  /\ params \in Signatures
  /\ consumed = [t \in Templates |-> 0]
  /\ rejected = FALSE
  /\ inputs = 0 /\ outputs = 0
  /\ struct_input_size = 0 /\ struct_output_size = 0
  /\ is_async = FALSE
  /\ next_input = 0 /\ next_output = 0
  /\ seq = <<>>

(* The list holds this group from parameter i on.                          *)
At(i, group) ==
  /\ i >= 1 /\ i + Len(group) - 1 <= Len(params)
  /\ \A k \in 1..Len(group) : params[i + k - 1] = group[k]

Remaining(t) == consumed[t] + 1
First(t) == params[Remaining(t)]

(* The templates are instantiated one after the other, as the members of   *)
(* userclient_method that use them are declared.                           *)
Instantiates(t) ==
  /\ ~rejected
  /\ consumed[t] < Len(params)
  /\ \A u \in Templates : Order[u] < Order[t] => consumed[u] = Len(params)

Consume(t, n) ==
  /\ Instantiates(t)
  /\ consumed' = [consumed EXCEPT ![t] = @ + n]
  /\ UNCHANGED <<params, rejected>>

(* A specialisation for a group; at most one group begins at a parameter.  *)
ConsumeGroup(t, group) == At(Remaining(t), group) /\ Consume(t, Len(group))

(* A specialisation for one parameter: less specialised than the groups.   *)
ConsumeOne(t, groups) ==
  /\ \A group \in groups : ~At(Remaining(t), group)
  /\ Consume(t, 1)

-----------------------------------------------------------------------------
(* scalar_input_arg_count *)

InputGroups == {AsyncTriple, VariableInput, VariableOutput}

InputsIgnoreGroup ==
  /\ \E group \in InputGroups : ConsumeGroup("scalar_input_arg_count", group)
  /\ UNCHANGED <<limits, selection>>

InputsIgnorePointer ==
  /\ ConsumeOne("scalar_input_arg_count", InputGroups)
  /\ First("scalar_input_arg_count").form # "value"
  /\ UNCHANGED <<limits, selection>>

InputsCount ==
  /\ ConsumeOne("scalar_input_arg_count", InputGroups)
  /\ First("scalar_input_arg_count").form = "value"
  /\ inputs' = inputs + 1
  /\ UNCHANGED <<outputs, struct_input_size, struct_output_size, is_async, selection>>

-----------------------------------------------------------------------------
(* scalar_output_arg_count *)

(* Mutated form of OutputGroups: the async reference is a scalar output.   *)
NoOutputGroups == {}

OutputGroups == {AsyncTriple}

OutputsIgnoreGroup ==
  /\ \E group \in OutputGroups : ConsumeGroup("scalar_output_arg_count", group)
  /\ UNCHANGED <<limits, selection>>

OutputsIgnore ==
  /\ ConsumeOne("scalar_output_arg_count", OutputGroups)
  /\ First("scalar_output_arg_count") # uint64Ptr
  /\ UNCHANGED <<limits, selection>>

OutputsCount ==
  /\ ConsumeOne("scalar_output_arg_count", OutputGroups)
  /\ First("scalar_output_arg_count") = uint64Ptr
  /\ outputs' = outputs + 1
  /\ UNCHANGED <<inputs, struct_input_size, struct_output_size, is_async, selection>>

-----------------------------------------------------------------------------
(* struct_input_arg_size *)

Reject(t) ==
  /\ Instantiates(t)
  /\ rejected' = TRUE
  /\ UNCHANGED <<params, consumed, limits, selection>>

StructInputVariable ==
  /\ ConsumeGroup("struct_input_arg_size", VariableInput)
  /\ struct_input_size = 0
  /\ struct_input_size' = kIOUCVariableStructureSize
  /\ UNCHANGED <<inputs, outputs, struct_output_size, is_async, selection>>

(* Mutated form of StructInputFixed: without its static_assert.            *)
StructInputFixedAgain ==
  /\ ConsumeOne("struct_input_arg_size", {VariableInput})
  /\ First("struct_input_arg_size").form = "const pointer"
  /\ SizeOf[First("struct_input_arg_size").of] # 0
  /\ struct_input_size' = SizeOf[First("struct_input_arg_size").of]
  /\ UNCHANGED <<inputs, outputs, struct_output_size, is_async, selection>>

StructInputFixed ==
  /\ ConsumeOne("struct_input_arg_size", {VariableInput})
  /\ First("struct_input_arg_size").form = "const pointer"
  /\ struct_input_size = 0
  /\ SizeOf[First("struct_input_arg_size").of] # 0
  /\ struct_input_size' = SizeOf[First("struct_input_arg_size").of]
  /\ UNCHANGED <<inputs, outputs, struct_output_size, is_async, selection>>

StructInputRejected ==
  /\ Reject("struct_input_arg_size")
  /\ First("struct_input_arg_size").form = "const pointer"
  /\ \/ struct_input_size # 0
     \/ /\ ~At(Remaining("struct_input_arg_size"), VariableInput)
        /\ SizeOf[First("struct_input_arg_size").of] = 0

StructInputIgnore ==
  /\ ConsumeOne("struct_input_arg_size", {VariableInput})
  /\ First("struct_input_arg_size").form # "const pointer"
  /\ UNCHANGED <<limits, selection>>

-----------------------------------------------------------------------------
(* struct_output_arg_size *)

StructOutputGroups == {AsyncTriple, VariableInput, VariableOutput}

(* A pointer to something that is written as a whole.                      *)
StructPointer(type) == type.form = "pointer" /\ type # uint64Ptr

StructOutputIgnoreGroup ==
  /\ \E group \in StructOutputGroups \ {VariableOutput} :
       ConsumeGroup("struct_output_arg_size", group)
  /\ UNCHANGED <<limits, selection>>

StructOutputVariable ==
  /\ ConsumeGroup("struct_output_arg_size", VariableOutput)
  /\ struct_output_size = 0
  /\ struct_output_size' = kIOUCVariableStructureSize
  /\ UNCHANGED <<inputs, outputs, struct_input_size, is_async, selection>>

StructOutputFixed ==
  /\ ConsumeOne("struct_output_arg_size", StructOutputGroups)
  /\ StructPointer(First("struct_output_arg_size"))
  /\ struct_output_size = 0
  /\ SizeOf[First("struct_output_arg_size").of] # 0
  /\ struct_output_size' = SizeOf[First("struct_output_arg_size").of]
  /\ UNCHANGED <<inputs, outputs, struct_input_size, is_async, selection>>

StructOutputRejected ==
  /\ Reject("struct_output_arg_size")
  /\ ~At(Remaining("struct_output_arg_size"), AsyncTriple)
  /\ StructPointer(First("struct_output_arg_size"))
  /\ \/ struct_output_size # 0
     \/ /\ ~At(Remaining("struct_output_arg_size"), VariableOutput)
        /\ SizeOf[First("struct_output_arg_size").of] = 0

StructOutputIgnore ==
  /\ ConsumeOne("struct_output_arg_size", StructOutputGroups)
  /\ ~StructPointer(First("struct_output_arg_size"))
  /\ UNCHANGED <<limits, selection>>

-----------------------------------------------------------------------------
(* is_async_method *)

(* The first triple decides: the rest of the list is not instantiated.     *)
AsyncFound ==
  /\ At(Remaining("is_async_method"), AsyncTriple)
  /\ Consume("is_async_method", Len(params) - consumed["is_async_method"])
  /\ is_async' = TRUE
  /\ UNCHANGED <<inputs, outputs, struct_input_size, struct_output_size, selection>>

(* Mutated form of AsyncNotYet: it takes a pair off the list.              *)
AsyncNotYetSkipsPair ==
  /\ ~At(Remaining("is_async_method"), AsyncTriple)
  /\ Consume("is_async_method", 2)
  /\ UNCHANGED <<limits, selection>>

AsyncNotYet ==
  /\ ConsumeOne("is_async_method", {AsyncTriple})
  /\ UNCHANGED <<limits, selection>>

-----------------------------------------------------------------------------
(* arg_seq_accum *)

(* Mutated form of SelectorGroups: the triple is taken apart.              *)
SelectorGroupsWithoutAsync == {VariableInput, VariableOutput}

SelectorGroups == {AsyncTriple, VariableInput, VariableOutput}

(* arg_sel_*: the member of IOExternalMethodArguments a parameter is read  *)
(* from, the index in it, and the type the value is cast to.               *)
Selector(member, index, type) == [reads |-> member, index |-> index, type |-> type]

SelectAsync ==
  /\ ConsumeGroup("arg_seq_accum", AsyncTriple)
  /\ seq' = seq \o <<Selector("asyncWakePort", 0, mach_port_t),
                     Selector("asyncReference", 0, io_user_reference_ptr),
                     Selector("asyncReferenceCount", 0, uint32_t)>>
  /\ UNCHANGED <<limits, next_input, next_output>>

SelectVariableInput ==
  /\ ConsumeGroup("arg_seq_accum", VariableInput)
  /\ seq' = seq \o <<Selector("structureInput", 0, constVoidPtr),
                     Selector("structureInputSize", 0, size_t)>>
  /\ UNCHANGED <<limits, next_input, next_output>>

(* Mutated form of SelectVariableOutput: in the wrong order.               *)
SelectVariableOutputSwapped ==
  /\ ConsumeGroup("arg_seq_accum", VariableOutput)
  /\ seq' = seq \o <<Selector("structureOutputSize", 0, size_t),
                     Selector("structureOutput", 0, voidPtr)>>
  /\ UNCHANGED <<limits, next_input, next_output>>

SelectVariableOutput ==
  /\ ConsumeGroup("arg_seq_accum", VariableOutput)
  /\ seq' = seq \o <<Selector("structureOutput", 0, voidPtr),
                     Selector("structureOutputSize", 0, size_t)>>
  /\ UNCHANGED <<limits, next_input, next_output>>

SelectOne(member, index) ==
  /\ ConsumeOne("arg_seq_accum", SelectorGroups)
  /\ seq' = Append(seq, Selector(member, index, First("arg_seq_accum")))

SelectFixedInput ==
  /\ SelectOne("structureInput", 0)
  /\ First("arg_seq_accum").form = "const pointer"
  /\ UNCHANGED <<limits, next_input, next_output>>

SelectFixedOutput ==
  /\ SelectOne("structureOutput", 0)
  /\ StructPointer(First("arg_seq_accum"))
  /\ UNCHANGED <<limits, next_input, next_output>>

SelectScalarInput ==
  /\ SelectOne("scalarInput", next_input)
  /\ First("arg_seq_accum").form = "value"
  /\ next_input' = next_input + 1
  /\ UNCHANGED <<limits, next_output>>

SelectScalarOutput ==
  /\ SelectOne("scalarOutput", next_output)
  /\ First("arg_seq_accum") = uint64Ptr
  /\ next_output' = next_output + 1
  /\ UNCHANGED <<limits, next_input>>

-----------------------------------------------------------------------------
Describe ==
  \/ InputsIgnoreGroup \/ InputsIgnorePointer \/ InputsCount
  \/ OutputsIgnoreGroup \/ OutputsIgnore \/ OutputsCount
  \/ StructInputVariable \/ StructInputFixed \/ StructInputRejected \/ StructInputIgnore
  \/ StructOutputIgnoreGroup \/ StructOutputVariable \/ StructOutputFixed
  \/ StructOutputRejected \/ StructOutputIgnore
  \/ AsyncFound \/ AsyncNotYet

Select ==
  \/ SelectAsync \/ SelectVariableInput \/ SelectVariableOutput
  \/ SelectFixedInput \/ SelectFixedOutput
  \/ SelectScalarInput \/ SelectScalarOutput

Next == Describe \/ Select

Spec == Init /\ [][Next]_templateVars

-----------------------------------------------------------------------------
(* What the parameters are, by position: the definitions the templates     *)
(* have to agree with.                                                      *)

Groups == {AsyncTriple, VariableInput, VariableOutput}
Positions == 1..Len(params)
Grouped(i) == \E group \in Groups : \E k \in 0..Len(group) - 1 : At(i - k, group)

ScalarInputs == {i \in Positions : params[i].form = "value" /\ ~Grouped(i)}
ScalarOutputs ==
  {i \in Positions :
     params[i] = uint64Ptr /\ \A k \in 0..2 : ~At(i - k, AsyncTriple)}
StructInputs == {i \in Positions : params[i].form = "const pointer"}
StructOutputs ==
  {i \in Positions : StructPointer(params[i]) /\ ~At(i, AsyncTriple)}

InputSize(i) ==
  IF At(i, VariableInput) THEN kIOUCVariableStructureSize ELSE SizeOf[params[i].of]
OutputSize(i) ==
  IF At(i, VariableOutput) THEN kIOUCVariableStructureSize ELSE SizeOf[params[i].of]

Described == ~rejected /\ \A t \in Templates : consumed[t] = Len(params)

-----------------------------------------------------------------------------
Members == {"scalarInput", "scalarOutput", "structureInput", "structureInputSize",
            "structureOutput", "structureOutputSize",
            "asyncWakePort", "asyncReference", "asyncReferenceCount"}

StructSizes == Nat \union {kIOUCVariableStructureSize}

(* Type invariant; no template reads beyond the end of the list.           *)
TypeOK ==
  /\ params \in Signatures
  /\ consumed \in [Templates -> 0..Len(params)]
  /\ rejected \in BOOLEAN
  /\ inputs \in Nat /\ outputs \in Nat
  /\ struct_input_size \in StructSizes /\ struct_output_size \in StructSizes
  /\ is_async \in BOOLEAN
  /\ next_input \in Nat /\ next_output \in Nat
  /\ seq \in Seq([reads : Members, index : Nat, type : Type])

(* Whatever an argument selector reads lies within what the limits make    *)
(* IOUserClient check first: a scalar's index is below the count, a struct *)
(* has the size of the parameter's type, and the async members are only    *)
(* used by a method that is marked asynchronous.                           *)
Covered(i) ==
  CASE seq[i].reads = "scalarInput" -> seq[i].index < inputs
    [] seq[i].reads = "scalarOutput" -> seq[i].index < outputs
    [] seq[i].reads = "structureInput" -> struct_input_size = InputSize(i)
    [] seq[i].reads = "structureOutput" -> struct_output_size = OutputSize(i)
    [] seq[i].reads = "structureInputSize" ->
         struct_input_size = kIOUCVariableStructureSize
    [] seq[i].reads = "structureOutputSize" ->
         struct_output_size = kIOUCVariableStructureSize
    [] OTHER -> is_async

LimitsCoverReads == \A i \in DOMAIN seq : Covered(i)

(* Of a method that compiles, nothing is asked of the caller that no       *)
(* parameter takes: the counts are exactly the scalars selected, and a     *)
(* struct or an async port is only demanded where one is selected.         *)
Selecting(member) == {i \in DOMAIN seq : seq[i].reads = member}
LimitsAreTight ==
  Described =>
    /\ inputs = Cardinality(Selecting("scalarInput"))
    /\ outputs = Cardinality(Selecting("scalarOutput"))
    /\ struct_input_size # 0 <=> Selecting("structureInput") # {}
    /\ struct_output_size # 0 <=> Selecting("structureOutput") # {}
    /\ is_async <=> Selecting("asyncWakePort") # {}

(* No two parameters of a method share a scalar or a struct.               *)
EveryElementReadOnce ==
  \A i, j \in DOMAIN seq :
    /\ seq[i].reads \in {"scalarInput", "scalarOutput", "structureInput", "structureOutput"}
    /\ seq[i].reads = seq[j].reads /\ seq[i].index = seq[j].index
    => i = j

(* The selectors stand in the order of the parameters, each with the type  *)
(* of its parameter: get_element's cast converts nothing else.             *)
ParametersInOrder ==
  /\ Len(seq) = consumed["arg_seq_accum"]
  /\ \A i \in DOMAIN seq : seq[i].type = params[i]

-----------------------------------------------------------------------------
(* The inductive invariant: where each template stands, and what it has    *)
(* made of the parameters before.                                          *)

Upto(S, n) == {i \in S : i <= n}
Count(S, n) == Cardinality(Upto(S, n))

InOrder ==
  \A t, u \in Templates :
    Order[u] < Order[t] /\ consumed[t] > 0 => consumed[u] = Len(params)

(* The next parameter is not in the middle of one of these groups.         *)
Aligned(n, groups) ==
  \A group \in groups : \A k \in 1..Len(group) - 1 : ~At(n + 1 - k, group)

InputsInv ==
  /\ Aligned(consumed["scalar_input_arg_count"], Groups)
  /\ inputs = Count(ScalarInputs, consumed["scalar_input_arg_count"])

OutputsInv ==
  /\ Aligned(consumed["scalar_output_arg_count"], {AsyncTriple})
  /\ outputs = Count(ScalarOutputs, consumed["scalar_output_arg_count"])

(* At most one struct in each direction has been passed.                   *)
StructInputInv ==
  LET passed == Upto(StructInputs, consumed["struct_input_arg_size"])
  IN  /\ struct_input_size = 0 <=> passed = {}
      /\ \A i \in passed : struct_input_size = InputSize(i)
      /\ \A i, j \in passed : i = j

StructOutputInv ==
  LET passed == Upto(StructOutputs, consumed["struct_output_arg_size"])
  IN  /\ struct_output_size = 0 <=> passed = {}
      /\ \A i \in passed : struct_output_size = OutputSize(i)
      /\ \A i, j \in passed : i = j

AsyncInv ==
  /\ is_async => \E i \in Positions : At(i, AsyncTriple)
  /\ ~is_async => \A i \in 1..consumed["is_async_method"] : ~At(i, AsyncTriple)

(* This selector reads what the parameter at i is.                         *)
Reads(selector, i) ==
  /\ selector.type = params[i]
  /\ selector.reads = "scalarInput" <=> i \in ScalarInputs
  /\ i \in ScalarInputs => selector.index = Count(ScalarInputs, i - 1)
  /\ selector.reads = "scalarOutput" <=> i \in ScalarOutputs
  /\ i \in ScalarOutputs => selector.index = Count(ScalarOutputs, i - 1)
  /\ selector.reads = "structureInput" <=> i \in StructInputs
  /\ selector.reads = "structureInputSize" => At(i - 1, VariableInput)
  /\ selector.reads = "structureOutput" <=> i \in StructOutputs
  /\ selector.reads = "structureOutputSize" => At(i - 1, VariableOutput)
  /\ selector.reads = "asyncWakePort" <=> At(i, AsyncTriple)
  /\ selector.reads = "asyncReference" => At(i - 1, AsyncTriple)
  /\ selector.reads = "asyncReferenceCount" => At(i - 2, AsyncTriple)

SelectorsInv ==
  /\ Aligned(consumed["arg_seq_accum"], Groups)
  /\ next_input = Count(ScalarInputs, consumed["arg_seq_accum"])
  /\ next_output = Count(ScalarOutputs, consumed["arg_seq_accum"])
  /\ Len(seq) = consumed["arg_seq_accum"]
  /\ \A i \in 1..consumed["arg_seq_accum"] : Reads(seq[i], i)

IInv ==
  /\ TypeOK
  /\ InOrder
  /\ InputsInv
  /\ OutputsInv
  /\ StructInputInv
  /\ StructOutputInv
  /\ AsyncInv
  /\ SelectorsInv
=============================================================================

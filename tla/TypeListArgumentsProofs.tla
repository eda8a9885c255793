----------------------- MODULE TypeListArgumentsProofs -----------------------
(***************************************************************************)
(* The type lists implement the variadic templates, for parameter lists of *)
(* any length they take: what is proved of MethodArguments is true of a    *)
(* user client that is compiled either way.                                *)
(***************************************************************************)
EXTENDS TypeListArguments, MethodArgumentsProofs, SequenceTheorems

-----------------------------------------------------------------------------
(* Reversing                                                               *)

LEMMA ReverseType ==
  ASSUME NEW S, NEW s \in Seq(S)
  PROVE  Reverse(s) \in Seq(S) /\ Len(Reverse(s)) = Len(s)
BY DEF Reverse

LEMMA ReverseEmpty == Reverse(<<>>) = <<>>
<1>1. Len(<<>>) = 0 /\ 1..0 = {}
  OBVIOUS
<1> QED
  BY <1>1 DEF Reverse

LEMMA ReverseShort ==
  /\ \A x : Reverse(<<x>>) = <<x>>
  /\ \A x, y : Reverse(<<y, x>>) = <<x, y>>
  /\ \A x, y, z : Reverse(<<z, y, x>>) = <<x, y, z>>
<1>1. \A x : Reverse(<<x>>) = <<x>>
  BY DEF Reverse
<1>2. \A x, y : Reverse(<<y, x>>) = <<x, y>>
  BY DEF Reverse
<1>3. \A x, y, z : Reverse(<<z, y, x>>) = <<x, y, z>>
  BY DEF Reverse
<1> QED
  BY <1>1, <1>2, <1>3, Zenon

(* What is put in front comes out behind.                                  *)
LEMMA ReverseConcat ==
  ASSUME NEW S, NEW s \in Seq(S), NEW u \in Seq(S)
  PROVE  u \o s \in Seq(S) /\ Reverse(u \o s) = Reverse(s) \o Reverse(u)
<1>1. u \o s \in Seq(S) /\ Len(u \o s) = Len(u) + Len(s)
  BY ConcatProperties
<1>2. Reverse(u) \in Seq(S) /\ Reverse(s) \in Seq(S) /\ Len(Reverse(u)) = Len(u) /\ Len(Reverse(s)) = Len(s)
  BY DEF Reverse
<1>3. Len(u) \in Nat /\ Len(s) \in Nat
  OBVIOUS
<1>4. Reverse(u \o s) \in Seq(S) /\ Len(Reverse(u \o s)) = Len(s) + Len(u)
  BY <1>1, <1>3 DEF Reverse
<1>5. Reverse(s) \o Reverse(u) \in Seq(S) /\ Len(Reverse(s) \o Reverse(u)) = Len(s) + Len(u)
  BY <1>2, <1>3
<1>6. ASSUME NEW i \in 1..Len(s) + Len(u)
      PROVE  Reverse(u \o s)[i] = (Reverse(s) \o Reverse(u))[i]
  <2> DEFINE k == Len(u) + Len(s) - i + 1
  <2>1. k \in 1..Len(u) + Len(s) /\ i \in Int
    BY <1>3
  <2>2. Reverse(u \o s)[i] = (u \o s)[k]
    BY <1>1, <1>3 DEF Reverse
  <2>3. (u \o s)[k] = IF k <= Len(u) THEN u[k] ELSE s[k - Len(u)]
    BY <2>1, ConcatProperties
  <2>4. (Reverse(s) \o Reverse(u))[i] = IF i <= Len(s) THEN Reverse(s)[i] ELSE Reverse(u)[i - Len(s)]
    BY <1>2, ConcatProperties
  <2>5. CASE i <= Len(s)
    <3>1. Reverse(s)[i] = s[Len(s) - i + 1]
      BY <1>3, <2>5 DEF Reverse
    <3>2. ~(k <= Len(u)) /\ k - Len(u) = Len(s) - i + 1
      BY <1>3, <2>5
    <3> QED
      BY <2>2, <2>3, <2>4, <2>5, <3>1, <3>2, Zenon
  <2>6. CASE ~(i <= Len(s))
    <3>1. i - Len(s) \in 1..Len(u)
      BY <1>3, <2>6
    <3>2. Reverse(u)[i - Len(s)] = u[Len(u) - (i - Len(s)) + 1]
      BY <3>1 DEF Reverse
    <3>3. k <= Len(u) /\ k = Len(u) - (i - Len(s)) + 1
      BY <1>3, <2>6
    <3> QED
      BY <2>2, <2>3, <2>4, <2>6, <3>2, <3>3, Zenon
  <2> QED
    BY <2>5, <2>6
<1> QED
  BY <1>1, <1>4, <1>5, <1>6, SeqEqual

(* reverse_typelist loses nothing.                                         *)
LEMMA ReverseMove ==
  ASSUME NEW S, NEW s \in Seq(S), s # <<>>, NEW r \in Seq(S)
  PROVE  /\ Tail(s) \in Seq(S) /\ <<Head(s)>> \o r \in Seq(S)
         /\ Reverse(Tail(s)) \o (<<Head(s)>> \o r) = Reverse(s) \o r
<1>1. Head(s) \in S /\ Tail(s) \in Seq(S) /\ s = <<Head(s)>> \o Tail(s)
  OBVIOUS
<1>2. Reverse(s) = Reverse(Tail(s)) \o <<Head(s)>>
  <2>1. <<Head(s)>> \in Seq(S) /\ Reverse(<<Head(s)>>) = <<Head(s)>>
    BY <1>1, ReverseShort
  <2>2. Reverse(<<Head(s)>> \o Tail(s)) = Reverse(Tail(s)) \o Reverse(<<Head(s)>>)
    BY <1>1, <2>1, ReverseConcat
  <2> QED
    BY <1>1, <2>1, <2>2
<1>3. Reverse(Tail(s)) \in Seq(S)
  BY <1>1, ReverseType
<1>4. <<Head(s)>> \in Seq(S) /\ <<Head(s)>> \o r \in Seq(S)
  BY <1>1
<1>5. (Reverse(Tail(s)) \o <<Head(s)>>) \o r = Reverse(Tail(s)) \o (<<Head(s)>> \o r)
  BY <1>3, <1>4, ConcatAssociative
<1> QED
  BY <1>1, <1>2, <1>4, <1>5

-----------------------------------------------------------------------------
(* The variadic templates, on the list the right way round                 *)

InOrderSeq == Reverse(seq) \o reversed

Proved == INSTANCE MethodArgumentsProofs WITH seq <- Reverse(seq) \o reversed

(* What does not select says the same of either list.                      *)
LEMMA SameMatching ==
  /\ \A t, group : Variadic!ConsumeGroup(t, group) <=> ConsumeGroup(t, group)
  /\ \A t, groups : Variadic!ConsumeOne(t, groups) <=> ConsumeOne(t, groups)
  /\ \A t, n : Variadic!Consume(t, n) <=> Consume(t, n)
  /\ \A i, group : Variadic!At(i, group) <=> At(i, group)
  /\ \A t : Variadic!First(t) = First(t) /\ Variadic!Remaining(t) = Remaining(t)
  /\ \A t : Variadic!Instantiates(t) <=> Instantiates(t)
BY DEF Variadic!ConsumeGroup, ConsumeGroup, Variadic!ConsumeOne, ConsumeOne, Variadic!Consume,
   Consume, Variadic!At, At, Variadic!First, First, Variadic!Remaining, Remaining,
   Variadic!Instantiates, Instantiates, Variadic!Templates, Templates, Variadic!Order, Order

LEMMA SameTypes ==
  /\ Variadic!AsyncTriple = AsyncTriple
  /\ Variadic!VariableInput = VariableInput
  /\ Variadic!VariableOutput = VariableOutput
  /\ Variadic!InputGroups = InputGroups /\ Variadic!OutputGroups = OutputGroups
  /\ Variadic!StructOutputGroups = StructOutputGroups
  /\ Variadic!SelectorGroups = SelectorGroups
  /\ Variadic!kIOUCVariableStructureSize = kIOUCVariableStructureSize
  /\ Variadic!uint64Ptr = uint64Ptr /\ Variadic!mach_port_t = mach_port_t
  /\ Variadic!io_user_reference_ptr = io_user_reference_ptr
  /\ Variadic!uint32_t = uint32_t /\ Variadic!size_t = size_t
  /\ Variadic!voidPtr = voidPtr /\ Variadic!constVoidPtr = constVoidPtr
  /\ \A type : Variadic!StructPointer(type) <=> StructPointer(type)
  /\ \A member, index, type : Variadic!Selector(member, index, type) = Selector(member, index, type)
BY DEF Variadic!AsyncTriple, AsyncTriple, Variadic!VariableInput, VariableInput,
   Variadic!VariableOutput, VariableOutput, Variadic!InputGroups, InputGroups,
   Variadic!OutputGroups, OutputGroups, Variadic!StructOutputGroups, StructOutputGroups,
   Variadic!SelectorGroups, SelectorGroups, Variadic!kIOUCVariableStructureSize,
   kIOUCVariableStructureSize, Variadic!uint64Ptr, uint64Ptr, Variadic!mach_port_t, mach_port_t,
   Variadic!io_user_reference_ptr, io_user_reference_ptr, Variadic!uint32_t, uint32_t,
   Variadic!size_t, size_t, Variadic!voidPtr, voidPtr, Variadic!constVoidPtr, constVoidPtr,
   Variadic!StructPointer, StructPointer, Variadic!Selector, Selector

(* A template of the limits touches neither list.                          *)
LEMMA LimitsOnly == Describe => UNCHANGED <<params, selection>>
BY DEF Describe, InputsIgnoreGroup, InputsIgnorePointer, InputsCount, OutputsIgnoreGroup,
   OutputsIgnore, OutputsCount, StructInputVariable, StructInputFixed, StructInputRejected,
   StructInputIgnore, StructOutputIgnoreGroup, StructOutputVariable, StructOutputFixed,
   StructOutputRejected, StructOutputIgnore, AsyncFound, AsyncNotYet, Consume, ConsumeGroup,
   ConsumeOne, Reject, limits, selection

LEMMA DescribeImplements ==
  ASSUME Describe, reversed' = reversed
  PROVE  Variadic!Describe
<1>0. seq' = seq
  BY LimitsOnly DEF selection
<1>1. InOrderSeq' = InOrderSeq
  BY <1>0 DEF InOrderSeq
<1>2. Variadic!selection' = Variadic!selection <=> selection' = selection
  BY <1>0, <1>1 DEF InOrderSeq, Variadic!selection, selection
<1>3. Variadic!limits = limits /\ Variadic!limits' = limits'
  BY DEF Variadic!limits, limits
<1>4. Variadic!Reject("struct_input_arg_size") <=> Reject("struct_input_arg_size")
  BY <1>2, <1>3, SameMatching DEF Variadic!Reject, Reject
<1>5. Variadic!Reject("struct_output_arg_size") <=> Reject("struct_output_arg_size")
  BY <1>2, <1>3, SameMatching DEF Variadic!Reject, Reject
<1> USE <1>2, <1>3, <1>4, <1>5, SameMatching, SameTypes
<1>6. CASE InputsIgnoreGroup \/ InputsIgnorePointer \/ InputsCount
  BY <1>6 DEF InputsIgnoreGroup, Variadic!InputsIgnoreGroup, InputsIgnorePointer,
     Variadic!InputsIgnorePointer, InputsCount, Variadic!InputsCount, Variadic!Describe
<1>7. CASE OutputsIgnoreGroup \/ OutputsIgnore \/ OutputsCount
  BY <1>7 DEF OutputsIgnoreGroup, Variadic!OutputsIgnoreGroup, OutputsIgnore,
     Variadic!OutputsIgnore, OutputsCount, Variadic!OutputsCount, Variadic!Describe
<1>8. CASE StructInputVariable \/ StructInputFixed \/ StructInputRejected \/ StructInputIgnore
  BY <1>8 DEF StructInputVariable, Variadic!StructInputVariable, StructInputFixed,
     Variadic!StructInputFixed, StructInputRejected, Variadic!StructInputRejected,
     StructInputIgnore, Variadic!StructInputIgnore, Variadic!Describe
<1>9. CASE StructOutputIgnoreGroup \/ StructOutputVariable \/ StructOutputFixed \/ StructOutputRejected \/ StructOutputIgnore
  BY <1>9 DEF StructOutputIgnoreGroup, Variadic!StructOutputIgnoreGroup, StructOutputVariable,
     Variadic!StructOutputVariable, StructOutputFixed, Variadic!StructOutputFixed,
     StructOutputRejected, Variadic!StructOutputRejected, StructOutputIgnore,
     Variadic!StructOutputIgnore, Variadic!Describe
<1>10. CASE AsyncFound \/ AsyncNotYet
  BY <1>10 DEF AsyncFound, Variadic!AsyncFound, AsyncNotYet, Variadic!AsyncNotYet, Variadic!Describe
<1> QED
  BY <1>6, <1>7, <1>8, <1>9, <1>10 DEF Describe

-----------------------------------------------------------------------------
(* The invariant: the list the right way round is as the variadic          *)
(* templates make it, and it is not turned before it is complete.          *)

ListInv ==
  /\ Proved!IInv
  /\ seq \in Seq(Selectors) /\ reversed \in Seq(Selectors)
  /\ reversed # <<>> => Described

LEMMA Progress ==
  ASSUME Proved!IInv
  PROVE  /\ params \in Signatures /\ Len(params) \in Nat
         /\ consumed["arg_seq_accum"] \in Nat /\ "arg_seq_accum" \in Templates
         /\ next_input \in Nat /\ next_output \in Nat
         /\ rejected \in BOOLEAN
         /\ \A t \in Templates : consumed[t] \in Nat
<1>1. Proved!Templates = Templates
  BY DEF Proved!Templates, Proved!Order, Templates, Order
<1>2. /\ params \in Signatures /\ consumed \in [Templates -> 0..Len(params)]
      /\ next_input \in Nat /\ next_output \in Nat /\ rejected \in BOOLEAN
  BY <1>1 DEF Proved!IInv, Proved!TypeOK
<1>3. Len(params) \in Nat
  BY <1>2, ParamsType
<1>4. "arg_seq_accum" \in Templates
  BY TemplateOrder
<1>5. \A t \in Templates : consumed[t] \in 0..Len(params)
  BY <1>2
<1>6. \A t \in Templates : consumed[t] \in Nat
  BY <1>3, <1>5
<1> QED
  BY <1>2, <1>3, <1>4, <1>6

(* While a template is at work nothing has been turned round.              *)
LEMMA NotTurnedYet ==
  ASSUME ListInv, NEW t \in Templates, Instantiates(t)
  PROVE  reversed = <<>>
<1>1. consumed[t] \in Nat /\ Len(params) \in Nat
  BY Progress DEF ListInv
<1>2. consumed[t] < Len(params)
  BY DEF Instantiates
<1>3. ~Described
  BY <1>1, <1>2 DEF Described
<1> QED
  BY <1>3 DEF ListInv

LEMMA DescribeInstantiates == Describe => \E t \in Templates : Instantiates(t)
BY TemplateOrder DEF Describe, InputsIgnoreGroup, InputsIgnorePointer, InputsCount,
   OutputsIgnoreGroup, OutputsIgnore, OutputsCount, StructInputVariable, StructInputFixed,
   StructInputRejected, StructInputIgnore, StructOutputIgnoreGroup, StructOutputVariable,
   StructOutputFixed, StructOutputRejected, StructOutputIgnore, AsyncFound, AsyncNotYet, Consume,
   ConsumeGroup, ConsumeOne, Reject

(* The parameter that comes next has a type.                               *)
LEMMA FirstTyped ==
  ASSUME ListInv, Instantiates("arg_seq_accum")
  PROVE  First("arg_seq_accum") \in Type
<1>1. /\ params \in Signatures /\ Len(params) \in Nat /\ consumed["arg_seq_accum"] \in Nat
  BY Progress DEF ListInv
<1>2. consumed["arg_seq_accum"] + 1 \in Positions
  BY <1>1 DEF Instantiates, Positions
<1>3. params[consumed["arg_seq_accum"] + 1] \in Type
  BY <1>1, <1>2, ParamsType
<1> QED
  BY <1>3 DEF First, Remaining

(* A group of selectors in front is one behind on the list the right way   *)
(* round.                                                                  *)
LEMMA FrontInOrder ==
  ASSUME ListInv, Instantiates("arg_seq_accum"), reversed' = reversed,
         NEW u \in Seq(Selectors), seq' = u \o seq
  PROVE  /\ seq' \in Seq(Selectors) /\ InOrderSeq \in Seq(Selectors)
         /\ InOrderSeq' = InOrderSeq \o Reverse(u)
<1>1. seq \in Seq(Selectors) /\ reversed = <<>>
  BY NotTurnedYet, TemplateOrder DEF ListInv
<1>2. seq' \in Seq(Selectors) /\ Reverse(seq') = Reverse(seq) \o Reverse(u)
  <2>1. u \o seq \in Seq(Selectors) /\ Reverse(u \o seq) = Reverse(seq) \o Reverse(u)
    BY <1>1, ReverseConcat
  <2> QED
    BY <2>1, Zenon
<1>3. Reverse(seq) \in Seq(Selectors) /\ Reverse(seq') \in Seq(Selectors)
  BY <1>1, <1>2, ReverseType
<1>4. Reverse(seq) \o reversed = Reverse(seq) /\ Reverse(seq') \o reversed' = Reverse(seq')
  BY <1>1, <1>3, ConcatEmptySeq
<1> QED
  BY <1>2, <1>3, <1>4, Zenon DEF InOrderSeq

LEMMA GroupInstantiates ==
  ASSUME NEW t, NEW n, Consume(t, n)
  PROVE  Instantiates(t) /\ UNCHANGED <<params, rejected>>
BY DEF Consume

LEMMA SelectorsMade ==
  ASSUME NEW index \in Nat, NEW type \in Type, NEW member \in Members
  PROVE  Selector(member, index, type) \in Selectors
BY DEF Selector, Selectors

LEMMA ListAsyncImplements ==
  ASSUME ListInv, ListAsync
  PROVE  Variadic!SelectAsync /\ seq' \in Seq(Selectors) /\ UNCHANGED <<params, rejected, reversed>>
<1> DEFINE a == Selector("asyncWakePort", 0, mach_port_t)
           b == Selector("asyncReference", 0, io_user_reference_ptr)
           c == Selector("asyncReferenceCount", 0, uint32_t)
<1>1. /\ ConsumeGroup("arg_seq_accum", AsyncTriple)
      /\ seq' = <<c, b, a>> \o seq
      /\ UNCHANGED <<limits, reversed, next_input, next_output>>
  BY DEF ListAsync, Prepend
<1>2. Instantiates("arg_seq_accum") /\ UNCHANGED <<params, rejected>>
  BY <1>1, GroupInstantiates DEF ConsumeGroup
<1>3. a \in Selectors /\ b \in Selectors /\ c \in Selectors
  BY SelectorsMade, TokensTyped DEF io_user_reference_ptr, Members
<1> HIDE DEF a, b, c
<1>4. seq' \in Seq(Selectors) /\ InOrderSeq' = InOrderSeq \o <<a, b, c>>
  <2>1. <<c, b, a>> \in Seq(Selectors) /\ Reverse(<<c, b, a>>) = <<a, b, c>>
    BY <1>3, ReverseShort
  <2> QED
    BY <1>1, <1>2, <2>1, FrontInOrder
<1>5. Variadic!SelectAsync
  BY <1>1, <1>4, SameMatching, SameTypes
     DEF Variadic!SelectAsync, Variadic!limits, limits, InOrderSeq, a, b, c
<1> QED
  BY <1>1, <1>2, <1>4, <1>5

LEMMA ListVariableInputImplements ==
  ASSUME ListInv, ListVariableInput
  PROVE  /\ Variadic!SelectVariableInput
         /\ seq' \in Seq(Selectors) /\ UNCHANGED <<params, rejected, reversed>>
<1> DEFINE a == Selector("structureInput", 0, constVoidPtr)
           b == Selector("structureInputSize", 0, size_t)
<1>1. /\ ConsumeGroup("arg_seq_accum", VariableInput)
      /\ seq' = <<b, a>> \o seq
      /\ UNCHANGED <<limits, reversed, next_input, next_output>>
  BY DEF ListVariableInput, Prepend
<1>2. Instantiates("arg_seq_accum") /\ UNCHANGED <<params, rejected>>
  BY <1>1, GroupInstantiates DEF ConsumeGroup
<1>3. a \in Selectors /\ b \in Selectors
  BY SelectorsMade, TokensTyped DEF Members
<1> HIDE DEF a, b
<1>4. seq' \in Seq(Selectors) /\ InOrderSeq' = InOrderSeq \o <<a, b>>
  <2>1. <<b, a>> \in Seq(Selectors) /\ Reverse(<<b, a>>) = <<a, b>>
    BY <1>3, ReverseShort
  <2> QED
    BY <1>1, <1>2, <2>1, FrontInOrder
<1>5. Variadic!SelectVariableInput
  BY <1>1, <1>4, SameMatching, SameTypes
     DEF Variadic!SelectVariableInput, Variadic!limits, limits, InOrderSeq, a, b
<1> QED
  BY <1>1, <1>2, <1>4, <1>5

LEMMA ListVariableOutputImplements ==
  ASSUME ListInv, ListVariableOutput
  PROVE  /\ Variadic!SelectVariableOutput
         /\ seq' \in Seq(Selectors) /\ UNCHANGED <<params, rejected, reversed>>
<1> DEFINE a == Selector("structureOutput", 0, voidPtr)
           b == Selector("structureOutputSize", 0, size_t)
<1>1. /\ ConsumeGroup("arg_seq_accum", VariableOutput)
      /\ seq' = <<b, a>> \o seq
      /\ UNCHANGED <<limits, reversed, next_input, next_output>>
  BY DEF ListVariableOutput, Prepend
<1>2. Instantiates("arg_seq_accum") /\ UNCHANGED <<params, rejected>>
  BY <1>1, GroupInstantiates DEF ConsumeGroup
<1>3. a \in Selectors /\ b \in Selectors
  BY SelectorsMade, TokensTyped DEF Members
<1> HIDE DEF a, b
<1>4. seq' \in Seq(Selectors) /\ InOrderSeq' = InOrderSeq \o <<a, b>>
  <2>1. <<b, a>> \in Seq(Selectors) /\ Reverse(<<b, a>>) = <<a, b>>
    BY <1>3, ReverseShort
  <2> QED
    BY <1>1, <1>2, <2>1, FrontInOrder
<1>5. Variadic!SelectVariableOutput
  BY <1>1, <1>4, SameMatching, SameTypes
     DEF Variadic!SelectVariableOutput, Variadic!limits, limits, InOrderSeq, a, b
<1> QED
  BY <1>1, <1>2, <1>4, <1>5

LEMMA ListOneImplements ==
  ASSUME ListInv, NEW member \in Members, NEW index \in Nat,
         ListOne(member, index)
  PROVE  /\ Variadic!SelectOne(member, index)
         /\ seq' \in Seq(Selectors) /\ UNCHANGED <<params, rejected, reversed, limits>>
<1> DEFINE a == Selector(member, index, First("arg_seq_accum"))
<1>1. /\ ConsumeOne("arg_seq_accum", SelectorGroups)
      /\ seq' = <<a>> \o seq
      /\ UNCHANGED <<limits, reversed>>
  BY DEF ListOne, Prepend
<1>2. Instantiates("arg_seq_accum") /\ UNCHANGED <<params, rejected>>
  BY <1>1, GroupInstantiates DEF ConsumeOne
<1>3. a \in Selectors
  BY <1>2, FirstTyped, SelectorsMade
<1> HIDE DEF a
<1>4. seq' \in Seq(Selectors) /\ InOrderSeq' = Append(InOrderSeq, a)
  <2>1. <<a>> \in Seq(Selectors) /\ Reverse(<<a>>) = <<a>>
    BY <1>3, ReverseShort
  <2>2. /\ seq' \in Seq(Selectors) /\ InOrderSeq \in Seq(Selectors)
        /\ InOrderSeq' = InOrderSeq \o <<a>>
    BY <1>1, <1>2, <2>1, FrontInOrder
  <2>3. Append(InOrderSeq, a) = InOrderSeq \o <<a>>
    BY <1>3, <2>2, AppendIsConcat
  <2> QED
    BY <2>2, <2>3, Zenon
<1>5. Variadic!SelectOne(member, index)
  BY <1>1, <1>4, SameMatching, SameTypes DEF Variadic!SelectOne, InOrderSeq, a
<1> QED
  BY <1>1, <1>2, <1>4, <1>5

(* Every step of arg_seq_accum is the same one of the variadic template.   *)
ListSelect ==
  \/ ListAsync \/ ListVariableInput \/ ListVariableOutput
  \/ ListFixedInput \/ ListFixedOutput \/ ListScalarInput \/ ListScalarOutput

LEMMA ListSelectImplements ==
  ASSUME ListInv, ListSelect
  PROVE  /\ Variadic!Select
         /\ seq' \in Seq(Selectors) /\ UNCHANGED <<params, rejected, reversed>>
<1>0. /\ {"structureInput", "structureOutput", "scalarInput", "scalarOutput"} \subseteq Members
      /\ 0 \in Nat /\ next_input \in Nat /\ next_output \in Nat
  BY Progress DEF ListInv, Members
<1>1. CASE ListAsync
  BY <1>1, ListAsyncImplements DEF Variadic!Select
<1>2. CASE ListVariableInput
  BY <1>2, ListVariableInputImplements DEF Variadic!Select
<1>3. CASE ListVariableOutput
  BY <1>3, ListVariableOutputImplements DEF Variadic!Select
<1>4. CASE ListFixedInput
  <2>1. /\ Variadic!SelectOne("structureInput", 0)
        /\ seq' \in Seq(Selectors) /\ UNCHANGED <<params, rejected, reversed, limits>>
    BY <1>0, <1>4, ListOneImplements DEF ListFixedInput
  <2> QED
    BY <1>4, <2>1, SameMatching
       DEF ListFixedInput, Variadic!Select, Variadic!SelectFixedInput, Variadic!limits, limits
<1>5. CASE ListFixedOutput
  <2>1. /\ Variadic!SelectOne("structureOutput", 0)
        /\ seq' \in Seq(Selectors) /\ UNCHANGED <<params, rejected, reversed, limits>>
    BY <1>0, <1>5, ListOneImplements DEF ListFixedOutput
  <2> QED
    BY <1>5, <2>1, SameMatching, SameTypes
       DEF ListFixedOutput, Variadic!Select, Variadic!SelectFixedOutput, Variadic!limits, limits
<1>6. CASE ListScalarInput
  <2>1. /\ Variadic!SelectOne("scalarInput", next_input)
        /\ seq' \in Seq(Selectors) /\ UNCHANGED <<params, rejected, reversed, limits>>
    BY <1>0, <1>6, ListOneImplements DEF ListScalarInput
  <2> QED
    BY <1>6, <2>1, SameMatching
       DEF ListScalarInput, Variadic!Select, Variadic!SelectScalarInput, Variadic!limits, limits
<1>7. CASE ListScalarOutput
  <2>1. /\ Variadic!SelectOne("scalarOutput", next_output)
        /\ seq' \in Seq(Selectors) /\ UNCHANGED <<params, rejected, reversed, limits>>
    BY <1>0, <1>7, ListOneImplements DEF ListScalarOutput
  <2> QED
    BY <1>7, <2>1, SameMatching, SameTypes
       DEF ListScalarOutput, Variadic!Select, Variadic!SelectScalarOutput, Variadic!limits, limits
<1> QED
  BY <1>1, <1>2, <1>3, <1>4, <1>5, <1>6, <1>7 DEF ListSelect

-----------------------------------------------------------------------------
(* Steps                                                                   *)

LEMMA MoveImplements ==
  ASSUME ListInv, MoveFirst
  PROVE  /\ UNCHANGED Variadic!templateVars
         /\ seq' \in Seq(Selectors) /\ reversed' \in Seq(Selectors) /\ Described'
<1>1. /\ seq \in Seq(Selectors) /\ seq # <<>> /\ reversed \in Seq(Selectors)
      /\ seq' = Tail(seq) /\ reversed' = <<Head(seq)>> \o reversed
      /\ Described /\ UNCHANGED <<params, consumed, rejected, limits, next_input, next_output>>
  BY DEF ListInv, MoveFirst
<1>2. /\ Tail(seq) \in Seq(Selectors) /\ <<Head(seq)>> \o reversed \in Seq(Selectors)
      /\ Reverse(Tail(seq)) \o (<<Head(seq)>> \o reversed) = Reverse(seq) \o reversed
  BY <1>1, ReverseMove
<1>3. InOrderSeq' = InOrderSeq
  BY <1>1, <1>2, Zenon DEF InOrderSeq
<1>4. UNCHANGED Variadic!templateVars
  BY <1>1, <1>3
     DEF Variadic!templateVars, Variadic!limits, limits, Variadic!selection, InOrderSeq
<1>5. Described'
  BY <1>1 DEF Described
<1>6. seq' \in Seq(Selectors) /\ reversed' \in Seq(Selectors)
  BY <1>1, <1>2, Zenon
<1> QED
  BY <1>4, <1>5, <1>6

(* The two instances of the variadic templates are the same.               *)
LEMMA SameInit == Proved!Init <=> Variadic!Init
BY DEF Proved!Init, Variadic!Init, Proved!Templates, Variadic!Templates, Proved!Order,
   Variadic!Order

LEMMA SameVars ==
  /\ Proved!templateVars = Variadic!templateVars
  /\ Proved!templateVars' = Variadic!templateVars'
BY DEF Proved!templateVars, Variadic!templateVars, Proved!limits, Variadic!limits,
   Proved!selection, Variadic!selection

LEMMA SameNext == Proved!Next <=> Variadic!Next
BY DEF Proved!uint32_t, Variadic!uint32_t, Proved!size_t, Variadic!size_t, Proved!voidPtr,
   Variadic!voidPtr, Proved!constVoidPtr, Variadic!constVoidPtr, Proved!uint64Ptr,
   Variadic!uint64Ptr, Proved!mach_port_t, Variadic!mach_port_t, Proved!io_user_reference_ptr,
   Variadic!io_user_reference_ptr, Proved!AsyncTriple, Variadic!AsyncTriple, Proved!VariableInput,
   Variadic!VariableInput, Proved!VariableOutput, Variadic!VariableOutput,
   Proved!kIOUCVariableStructureSize, Variadic!kIOUCVariableStructureSize, Proved!Order,
   Variadic!Order, Proved!Templates, Variadic!Templates, Proved!limits, Variadic!limits,
   Proved!selection, Variadic!selection, Proved!At, Variadic!At, Proved!Remaining,
   Variadic!Remaining, Proved!First, Variadic!First, Proved!Instantiates, Variadic!Instantiates,
   Proved!Consume, Variadic!Consume, Proved!ConsumeGroup, Variadic!ConsumeGroup, Proved!ConsumeOne,
   Variadic!ConsumeOne, Proved!InputGroups, Variadic!InputGroups, Proved!InputsIgnoreGroup,
   Variadic!InputsIgnoreGroup, Proved!InputsIgnorePointer, Variadic!InputsIgnorePointer,
   Proved!InputsCount, Variadic!InputsCount, Proved!OutputGroups, Variadic!OutputGroups,
   Proved!OutputsIgnoreGroup, Variadic!OutputsIgnoreGroup, Proved!OutputsIgnore,
   Variadic!OutputsIgnore, Proved!OutputsCount, Variadic!OutputsCount, Proved!Reject,
   Variadic!Reject, Proved!StructInputVariable, Variadic!StructInputVariable,
   Proved!StructInputFixed, Variadic!StructInputFixed, Proved!StructInputRejected,
   Variadic!StructInputRejected, Proved!StructInputIgnore, Variadic!StructInputIgnore,
   Proved!StructOutputGroups, Variadic!StructOutputGroups, Proved!StructPointer,
   Variadic!StructPointer, Proved!StructOutputIgnoreGroup, Variadic!StructOutputIgnoreGroup,
   Proved!StructOutputVariable, Variadic!StructOutputVariable, Proved!StructOutputFixed,
   Variadic!StructOutputFixed, Proved!StructOutputRejected, Variadic!StructOutputRejected,
   Proved!StructOutputIgnore, Variadic!StructOutputIgnore, Proved!AsyncFound, Variadic!AsyncFound,
   Proved!AsyncNotYet, Variadic!AsyncNotYet, Proved!SelectorGroups, Variadic!SelectorGroups,
   Proved!Selector, Variadic!Selector, Proved!SelectAsync, Variadic!SelectAsync,
   Proved!SelectVariableInput, Variadic!SelectVariableInput, Proved!SelectVariableOutput,
   Variadic!SelectVariableOutput, Proved!SelectOne, Variadic!SelectOne, Proved!SelectFixedInput,
   Variadic!SelectFixedInput, Proved!SelectFixedOutput, Variadic!SelectFixedOutput,
   Proved!SelectScalarInput, Variadic!SelectScalarInput, Proved!SelectScalarOutput,
   Variadic!SelectScalarOutput, Proved!Describe, Variadic!Describe, Proved!Select, Variadic!Select,
   Proved!Next, Variadic!Next

(* A step of the type lists is one of the variadic templates, or none when *)
(* the list is turned round.                                               *)
LEMMA ListNextImplements ==
  ListInv /\ [ListNext]_listVars => [Variadic!Next]_Variadic!templateVars /\ ListInv'
<1> SUFFICES ASSUME ListInv, [ListNext]_listVars
             PROVE  [Variadic!Next]_Variadic!templateVars /\ ListInv'
  OBVIOUS
<1>0. seq \in Seq(Selectors) /\ reversed \in Seq(Selectors) /\ (reversed # <<>> => Described)
  BY DEF ListInv
<1>1. ASSUME [Variadic!Next]_Variadic!templateVars PROVE Proved!IInv'
  <2>1. [Proved!Next]_Proved!templateVars
    BY <1>1, SameNext, SameVars
  <2>2. \A sig \in Signatures : sig \in Seq(Proved!Type)
    BY SignaturesAssumption DEF Proved!Type, Type
  <2> QED
    BY <2>1, <2>2, TypesAssumption, Proved!NextInv DEF ListInv
<1>2. CASE ListDescribe
  <2>1. Describe /\ reversed' = reversed
    BY <1>2 DEF ListDescribe
  <2>2. reversed = <<>>
    BY <2>1, DescribeInstantiates, NotTurnedYet
  <2>3. Variadic!Next
    BY <2>1, DescribeImplements DEF Variadic!Next
  <2>4. seq' = seq
    BY <2>1, LimitsOnly DEF selection
  <2> QED
    BY <1>0, <1>1, <2>1, <2>2, <2>3, <2>4 DEF ListInv
<1>3. CASE ListSelect
  <2>1. /\ Variadic!Select
        /\ seq' \in Seq(Selectors) /\ UNCHANGED <<params, rejected, reversed>>
    BY <1>3, ListSelectImplements
  <2>2. reversed = <<>>
    <3>1. Instantiates("arg_seq_accum")
      BY <1>3 DEF ListSelect, ListAsync, ListVariableInput, ListVariableOutput, ListFixedInput,
         ListFixedOutput, ListScalarInput, ListScalarOutput, ListOne, ConsumeGroup, ConsumeOne,
         Consume
    <3> QED
      BY <3>1, NotTurnedYet, TemplateOrder
  <2>3. Variadic!Next
    BY <2>1 DEF Variadic!Next
  <2> QED
    BY <1>0, <1>1, <2>1, <2>2, <2>3 DEF ListInv
<1>4. CASE MoveFirst
  <2>1. /\ UNCHANGED Variadic!templateVars
        /\ seq' \in Seq(Selectors) /\ reversed' \in Seq(Selectors) /\ Described'
    BY <1>4, MoveImplements
  <2> QED
    BY <1>1, <2>1 DEF ListInv
<1>5. CASE UNCHANGED listVars
  <2>1. UNCHANGED <<params, consumed, rejected, limits, next_input, next_output, seq, reversed>>
    BY <1>5 DEF listVars, templateVars, selection
  <2>2. UNCHANGED Variadic!templateVars
    BY <2>1 DEF Variadic!templateVars, Variadic!limits, limits, Variadic!selection
  <2>3. Described' = Described
    BY <2>1 DEF Described
  <2> QED
    BY <1>0, <1>1, <2>1, <2>2, <2>3 DEF ListInv
<1> QED
  BY <1>2, <1>3, <1>4, <1>5 DEF ListNext, ListSelect

LEMMA ListInitImplements == ListInit => Variadic!Init /\ ListInv
<1> SUFFICES ASSUME ListInit PROVE Variadic!Init /\ ListInv
  OBVIOUS
<1>1. Init /\ seq = <<>> /\ reversed = <<>>
  BY DEF ListInit, Init
<1>2. Reverse(seq) \o reversed = <<>>
  BY <1>1, ReverseEmpty
<1>3. Variadic!Init
  BY <1>1, <1>2 DEF Variadic!Init, Init, Variadic!Templates, Templates, Variadic!Order, Order
<1>4. \A sig \in Signatures : sig \in Seq(Proved!Type)
  BY SignaturesAssumption DEF Proved!Type, Type
<1>5. Proved!IInv
  BY <1>3, <1>4, SameInit, TypesAssumption, Proved!InitInv
<1> QED
  BY <1>1, <1>3, <1>5 DEF ListInv

-----------------------------------------------------------------------------
(* The theorems.                                                           *)

(* The list the right way round is always as the variadic templates leave  *)
(* it, and it is not turned round before it is complete.                   *)
THEOREM ListInvariant == ListSpec => []ListInv
  BY ListInitImplements, ListNextImplements, PTL DEF ListSpec

(* A user client compiled with type lists has the limits, and reads the    *)
(* elements, of one compiled with variadic templates.                      *)
THEOREM TypeListsImplementVariadic == ListSpec => ImplementsVariadic
<1>1. ListSpec => Variadic!Spec
  BY ListInitImplements, ListNextImplements, ListInvariant, PTL DEF ListSpec, Variadic!Spec
<1> QED
  BY <1>1 DEF ImplementsVariadic

LEMMA TurnedRound == ListInv => ArgumentsInPlace
<1> SUFFICES ASSUME ListInv, Described, seq = <<>>, NEW k \in DOMAIN params
             PROVE  Arguments[k].type = params[k]
  BY DEF ArgumentsInPlace
<1>1. Reverse(seq) \o reversed = reversed /\ reversed \in Seq(Selectors)
  BY ReverseEmpty DEF ListInv
<1>2. \A sig \in Signatures : sig \in Seq(Proved!Type)
  BY SignaturesAssumption DEF Proved!Type, Type
<1>3. Proved!ParametersInOrder
  BY <1>2, TypesAssumption, Proved!ReadsInOrder DEF ListInv
<1>4. Len(reversed) = consumed["arg_seq_accum"] /\ \A i \in DOMAIN reversed : reversed[i].type = params[i]
  BY <1>1, <1>3 DEF Proved!ParametersInOrder
<1>5. params \in Seq(Type) /\ consumed["arg_seq_accum"] = Len(params)
  BY Progress, ParamsType DEF ListInv, Described
<1>6. k \in DOMAIN reversed /\ k - 1 + 1 = k
  BY <1>1, <1>4, <1>5
<1>7. Arguments[k] = reversed[k]
  BY <1>6 DEF Arguments, GenArg
<1> QED
  BY <1>4, <1>6, <1>7

(* apply_fn passes a method of any arity each argument in its own place,   *)
(* as what it is.                                                          *)
THEOREM ArgumentsAlwaysInPlace == ListSpec => []ArgumentsInPlace
  BY ListInvariant, TurnedRound, PTL

(* No method of a class compiled with type lists reads beyond what         *)
(* IOUserClient was told to check.                                         *)
THEOREM ListLimitsCoverReads == ListSpec => []Proved!LimitsCoverReads
<1>1. ListInv => Proved!LimitsCoverReads
  <2>1. \A sig \in Signatures : sig \in Seq(Proved!Type)
    BY SignaturesAssumption DEF Proved!Type, Type
  <2> QED
    BY <2>1, TypesAssumption, Proved!ReadsAreCovered DEF ListInv
<1> QED
  BY <1>1, ListInvariant, PTL
=============================================================================
